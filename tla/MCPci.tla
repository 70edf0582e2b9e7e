------------------------------- MODULE MCPci --------------------------------
(***************************************************************************)
(* Machines for TLC: the controller is function 0, or function 2 of a      *)
(* device with several functions, with none at 0, or with a simple device  *)
(* at 0, where it is not seen; its registers are behind BAR 4 or BAR 5, or *)
(* there is a controller of each kind.                                     *)
(* The heap has room for the tables of two ports out of three.             *)
(***************************************************************************)
EXTENDS Pci

Function(id, multi, header_type, bar4, bar5) ==
  [id |-> id, multi |-> multi, header_type |-> header_type,
   bars |-> [b \in 0 .. 5 |-> IF b = 4 THEN bar4 ELSE IF b = 5 THEN bar5 ELSE "other"]]

Disk == Function("8086:2829", FALSE, 0, "hba", "other")
Bar5 == Function("8086:2829", FALSE, 0, "io", "hba")
Nic(multi) == Function("other", multi, 0, "other", "other")
Bridge == Function("other", FALSE, 1, "other", "other")

MCConfigs == {
  [x \in {<<0, 0>>, <<1, 0>>} |-> IF x = <<0, 0>> THEN Bridge ELSE Disk],
  [x \in {<<0, 0>>, <<0, 2>>} |-> IF x = <<0, 0>> THEN Nic(TRUE) ELSE Disk],
  [x \in {<<0, 0>>, <<0, 2>>} |-> IF x = <<0, 0>> THEN Nic(FALSE) ELSE Disk],
  [x \in {<<1, 2>>} |-> Disk],
  [x \in {<<0, 0>>, <<1, 0>>} |-> IF x = <<0, 0>> THEN Bar5 ELSE Disk],
  [x \in {<<1, 0>>} |-> Bar5]}
=============================================================================
