CONSTANT Bus = {8, 72, 119}

SPECIFICATION FairSpec

INVARIANT AllDevicesFound
PROPERTY ScanTerminates
