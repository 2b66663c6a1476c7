---------------------------- MODULE MCMaintenance ----------------------------
(* Two kinds of conset and of kit on four slots, a chest of two; stacks of *)
(* at most two units.                                                       *)
EXTENDS Maintenance

MCConsets == <<"grail", "essence">>
MCKits == <<"id", "salvage">>
MCKitTarget == [id |-> 1, salvage |-> 1]

None == <<0, 0>>
One == <<1, 0>>
Two == <<0, 1>>

MCStarts ==
  { [con |-> [grail |-> g, essence |-> e], stored |-> [grail |-> None, essence |-> f],
     kits |-> [id |-> 0, salvage |-> 0], junk |-> 1, mats |-> 0, misc |-> 1,
     gold |-> 2 - b, bank |-> 3 + b]
    : g \in {None, One}, e \in {None, Two}, f \in {Two},
      b \in {0, 2} }
=============================================================================
