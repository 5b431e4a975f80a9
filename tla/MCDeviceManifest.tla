-------------------------- MODULE MCDeviceManifest --------------------------
EXTENDS DeviceManifest, TLC


\* the calls are interchangeable, and so are the sub-keys a recovery generates
MCSymmetry == Permutations(Call) \cup Permutations(SubKey \ {Creator})
=============================================================================
