------------------------------- MODULE MC_IniFile -------------------------------
(* Configuration for IniFile: two sections, with an empty line in the first one, *)
(* and two keys that another one begins with: behind it, and in front of it.     *)
(* The mqtt thread reads both keys of a device and cmd_main the interval while   *)
(* the haas thread, which has read its keys, writes a control.                   *)
EXTENDS IniFile, TLC

CONSTANTS mqtt, haas, cmd, config, dev02, upload_time, dev_add, dev_add02, dev_ctrl02

FileLines == <<config, Empty, upload_time, dev_ctrl02, dev02, dev_add, dev_add02>>
FileSections ==
  (upload_time :> config) @@ (dev_ctrl02 :> config) @@ (dev_add :> dev02) @@ (dev_add02 :> dev02)
FileShorter == [k \in DOMAIN FileSections |-> IF k = dev_add02 THEN {dev_add} ELSE {}]
StartKeys == (mqtt :> <<dev_add, dev_add02>>) @@ (haas :> <<>>) @@ (cmd :> <<>>)
=================================================================================
