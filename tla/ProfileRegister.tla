--------------------------- MODULE ProfileRegister ---------------------------
(***************************************************************************)
(* What the saved profiles promise, without files, steps or processes: the *)
(* config is one register and a command replaces its value in one step.    *)
(*                                                                         *)
(* The commands share no lock, so a command's copy may be an older version *)
(* than the one it overwrites: a command may start from any version the    *)
(* register has held.                                                      *)
(***************************************************************************)
EXTENDS ProfileConfig

VARIABLES
  doc,      \* the config
  versions  \* every value it has had

registerVars == <<doc, versions>>

Put(d) == doc' = d /\ versions' = versions \cup {d}

Init ==
  /\ doc \in {EmptyConfig, SavedConfig}
  /\ versions = {doc}

Edit(base) ==
  \E c \in Command :
    /\ c.op \in Writers
    /\ WellFormed(c)
    /\ Accepts(c, base)
    /\ \E t \in IF c.op = "login" THEN Token ELSE {NoToken} : Put(Apply(c, base, t))

RefreshProfile ==
  \E n \in Names, t \in Tokens :
    /\ Has(doc, n)
    /\ Put(SetTokens(doc, n, [access |-> t, refresh |-> t]))

\* A power loss brings back a version whose replacement never reached the disk.
Revert == \E d \in versions : Put(d)

SnapshotNext == (\E d \in versions : Edit(d)) \/ RefreshProfile \/ Revert

SnapshotSpec == Init /\ [][SnapshotNext]_registerVars
=============================================================================
