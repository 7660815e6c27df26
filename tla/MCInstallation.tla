--------------------------- MODULE MCInstallation -------------------------
(* Two releases; a plugin whose manifest is written first, then the         *)
(* uninstaller, the code that holds the version, and one more file.         *)
EXTENDS Installation

MCRelease == 1..2
MCPluginFiles == <<Manifest, Uninstaller, Code, "plugin/Icon.qml">>
=============================================================================
