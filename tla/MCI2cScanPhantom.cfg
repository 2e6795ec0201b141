CONSTANT Bus = {8, 72, 119}

SPECIFICATION Spec

INVARIANT OnlyDevicesFound
