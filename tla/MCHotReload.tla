---------------------------- MODULE MCHotReload ----------------------------
EXTENDS HotReloadProps

CONSTANT lib

OneImport == <<lib>>
=============================================================================
