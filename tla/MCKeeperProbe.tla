----------------------------- MODULE MCKeeperProbe -----------------------------
(* Two members, and an auxiliary connection to the host and port of one.     *)
EXTENDS KeeperProbe

T(h, e) == [host |-> h, port |-> "9181", ensemble |-> e]

MCTarget == {T("k1", "default"), T("k1", "second"), T("k2", "default")}

MCSafe == [h \in {"k1", "k2"} |-> h]

MCAt == [h \in {"k1", "k2"} |-> IF h = "k1" THEN "m1" ELSE "m2"]

\* One member, connected by its address and configured by its name.
MCSameAt == [h \in {"k1", "k2"} |-> "m1"]

MCConnected == {<<T("k1", "default"), T("k1", "second")>>, <<T("k2", "default")>>}

MCConfigured == {<<T("k1", "default")>>}

MCAllows == {{"ruok", "srvr", "mntr", "conf"}, {"mntr", "conf"}}

MCCommands == <<"ruok", "srvr", "mntr", "conf">>
=============================================================================
