-------------------------------- MODULE MCChecks --------------------------------
(* Servers in groups: events of the logs around the edges of the windows, hours *)
(* of Keeper and of the pools, and what several replicas list.  A day is three  *)
(* hours here and a week four; version was read at 42, in the hour from 40, and *)
(* the logs at 44.                                                             *)
EXTENDS Checks

World ==
  [collected |-> 42, from |-> None, to |-> None, asked |-> 44, essential |-> FALSE, recent |-> TRUE,
   parts |-> {}, refused |-> {},
   hours |-> {}, pool |-> [h \in {"a", "b"} |-> 10], settings |-> 3, serverSettings |-> 10,
   sessions |-> {}, blocks |-> {}, detached |-> {}, mutations |-> {},
   disks |-> {}, policies |-> {}, storage |-> {}, tables |-> {}, replicas |-> {}]

Case(worlds, modes, failing) ==
  {[world |-> w, mode |-> m, lost |-> l] : w \in worlds, m \in modes, l \in failing}

Modes == {"cloud", "onprem"}

Until(w) == {w, [w EXCEPT !.to = 38], [w EXCEPT !.to = 50]}

\* An essential run that reads the logs at 46 does it from 34, in the middle of
\* an hour and of the rules' window, and -to alone may end before that.
Narrowed(w) ==
  {[w EXCEPT !.essential = TRUE, !.asked = 46], [w EXCEPT !.essential = TRUE, !.to = 38],
   [w EXCEPT !.from = 28], [w EXCEPT !.from = 36, !.to = 50], [w EXCEPT !.to = 31]}

P(host, at, type, error, count) ==
  [host |-> host, at |-> at, type |-> type, error |-> error, table |-> at % 2, count |-> count]

Parts ==
  {P("a", 29, "NewPart", 0, 3), P("a", 31, "NewPart", 0, 3), P("a", 28, "MergeParts", 0, 1),
   P("a", 30, "MergeParts", 5, 6), P("b", 31, "NewPart", 0, 6), P("a", 26, "NewPart", 0, 6),
   P("a", 37, "NewPart", 0, 6), P("a", 39, "MergeParts", 0, 1), P("a", 43, "NewPart", 5, 6)}

R(at, code, count) == [host |-> "a", at |-> at, code |-> code, count |-> count]

Refusing ==
  {R(33, 202, 4), R(35, 202, 3), R(37, 202, 2), R(38, 202, 3), R(40, 202, 2), R(41, 202, 3), R(43, 202, 4),
   R(41, 999, 5)}

Logs ==
  Case(UNION {Until([World EXCEPT !.parts = p]) : p \in SUBSET Parts}
         \cup UNION {Narrowed([World EXCEPT !.parts = p \cup edge]) :
                       p \in SUBSET {e \in Parts : e.at \in 28..31},
                       edge \in SUBSET {P("a", 33, "MergeParts", 0, 1), P("a", 35, "NewPart", 0, 6)}},
       {"onprem"}, {{}})
    \cup Case(UNION {Until([World EXCEPT !.parts = p]) \cup Narrowed([World EXCEPT !.parts = p]) :
                       p \in {Parts, Parts \ {P("a", 28, "MergeParts", 0, 1)}}},
              {"cloud"}, {{}, {"part_log"}})
    \cup Case(UNION {Until([World EXCEPT !.refused = r]) : r \in SUBSET Refusing}
                \cup UNION {Narrowed([World EXCEPT !.refused = r \cup {R(30, 202, 6)}]) :
                              r \in SUBSET {e \in Refusing : e.at \in 35..41}},
              {"onprem"}, {{}})

H(host, time, hw, tx, tasks, size) ==
  [host |-> host, time |-> time, hw |-> hw, tx |-> tx, tasks |-> tasks, size |-> size,
   first |-> time, last |-> time + 4]

Hours == {24, 28, 32, 36, 40}

Keeper ==
  Case(UNION {Until([World EXCEPT !.hours =
                       {H("a", t, IF t \in bad THEN 6 ELSE 0, tx[t], 1, 10) : t \in Hours}
                         \cup {H("b", 32, 6, 4, 1, 10)}]) :
                tx \in [Hours -> {0, 2, 4}], bad \in {Hours, {24}, {40}, {28, 36}}},
       {"onprem"}, {{}})
    \cup Case({[World EXCEPT !.hours = {H(h, t, 6, tx[t], 1, 10) : t \in Hours, h \in {"a", "b"}}] :
                 tx \in [Hours -> {2, 4}]}, {"cloud"}, {{}, {"metric_log"}})

Pools ==
  Case({[World EXCEPT !.recent = r, !.settings = IF r THEN 3 ELSE 10, !.serverSettings = IF r THEN 10 ELSE 0,
                      !.hours = {H("a", t, 0, 2, tasks[t], IF t \in known THEN 10 ELSE 0) :
                                   t \in Hours \ {24}}
                                  \cup {H("b", t, 0, 2, 9, 10) : t \in {32, 36, 40}}] :
          tasks \in [Hours \ {24} -> {3, 8, 9}], known \in {{}, {36}, {28}, Hours},
          r \in BOOLEAN},
       {"onprem"}, {{}, {"settings"}, {"server_settings"}})
    \cup Case({[World EXCEPT !.settings = 3,
                      !.hours = {H("a", t, 0, 2, tasks[t], IF t \in known THEN 10 ELSE 0) :
                                   t \in Hours \ {24}}
                                  \cup {H("b", t, 0, 2, 9, 10) : t \in {32, 36, 40}}] :
          tasks \in [Hours \ {24} -> {3, 8, 9}], known \in {{}, {36}, {28}, Hours}},
       {"cloud"}, {{}, {"settings"}, {"server_settings"}})

Sessions ==
  Case({[World EXCEPT !.hours = {H("a", t, 0, rate, 1, 10) : t \in hours},
                      !.sessions = {[host |-> "a", n |-> 1, xid |-> x, expired |-> FALSE]} \cup more] :
          rate \in {0, 2, 3}, hours \in {{40}, {36, 40}, {32, 36, 40}, {28, 32, 40}},
          x \in {0, 90, 93, 94, 95, 100},
          more \in {{}, {[host |-> "a", n |-> 2, xid |-> 95, expired |-> TRUE]},
                    {[host |-> "a", n |-> 3, xid |-> 95, expired |-> FALSE]},
                    {[host |-> "b", n |-> 4, xid |-> 95, expired |-> FALSE]}}},
       Modes, {{}})

D(host, table, path) == [host |-> host, table |-> table, path |-> path]

M(host, id, left, killed, created) ==
  [host |-> host, id |-> id, left |-> left, killed |-> killed, created |-> created]

Listed ==
  Case({[World EXCEPT !.detached = d] :
          d \in UNION {kSubset(n, {D(h, t, p) : h \in {"a", "b"}, t \in {"t"}, p \in {"p", "q"}}
                                   \cup {D("a", "u", "r")}) : n \in 1..3}},
       {"cloud"}, {{}})
    \cup Case({[World EXCEPT !.detached = {D("a", "t", "p"), D("a", "t", "q"), D("b", "t", "q")}]},
              Modes, {{}, {"detached"}})
    \cup Case({[World EXCEPT !.mutations = m] :
          m \in UNION {kSubset(n, {M(h, i, l, FALSE, c) : h \in {"a", "b"}, i \in {"m", "n"}, l \in {0, 1},
                                                          c \in {25, 28}}
                                   \cup {M("b", "m", 1, TRUE, 25)}) : n \in 1..3}},
       Modes, {{}})

B(host, part, block, at) == [host |-> host, part |-> part, block |-> block, at |-> at]

Blocks ==
  Case({[World EXCEPT !.blocks =
           {b \in {B(h, p, reached[h][p], IF p \in old THEN 20 ELSE 40) :
                     h \in {"a", "b", "c"}, p \in {"p", "q"}} : b.block > 0}] :
          reached \in [{"a", "b", "c"} -> [{"p", "q"} -> {0, 1, 4}]], old \in SUBSET {"p", "q"}},
       {"cloud"}, {{}})

Storage ==
  Case({[World EXCEPT
           !.disks = {[disk |-> "d", total |-> 100, free |-> free], [disk |-> "e", total |-> 100, free |-> 1],
                      [disk |-> "z", total |-> 0, free |-> 0]},
           !.policies = p, !.storage = {[policy |-> "x", disk |-> "d"], [policy |-> "y", disk |-> "e"]}] :
          free \in {14, 15},
          p \in SUBSET {[policy |-> "x", system |-> FALSE], [policy |-> "y", system |-> TRUE],
                        [policy |-> "y", system |-> FALSE]}},
       {"onprem"}, SUBSET {"tables", "storage"})
    \cup Case({[World EXCEPT !.tables = {[host |-> h, table |-> "t", readonly |-> r] : h \in {"a", "b"}}] :
                 r \in BOOLEAN}, Modes, {{}, {"problems"}, {"replicas"}})
    \cup Case({[World EXCEPT !.replicas = {[host |-> "a", crashes |-> x], [host |-> "b", crashes |-> y]}] :
                 x \in {{}, {1}}, y \in {{}, {2}}},
              Modes, SUBSET {"crash_log", "crash_presence"})

MCServers == Logs \cup Keeper \cup Pools \cup Sessions \cup Listed \cup Blocks \cup Storage
=============================================================================
