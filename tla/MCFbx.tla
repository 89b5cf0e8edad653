-------------------------------- MODULE MCFbx --------------------------------
EXTENDS Fbx
=============================================================================
