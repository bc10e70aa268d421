------------------------------- MODULE Ledger -------------------------------
(***************************************************************************)
(* What the pipeline promises for the source parts it is given: at every   *)
(* moment the registered sources are divided among holdings (artifacts),   *)
(* each source in exactly one of them.  Compaction joins open holdings; a  *)
(* closed holding is what the importer may attach, and it is attached as   *)
(* it is, once.  Nothing here knows of workers, leases, retries or rows.   *)
(***************************************************************************)
CONSTANT Source

VARIABLE held   \* a set of [sources : SUBSET Source, phase : Phase]

Phase == {"open", "closed", "imported"}

Holding(S, ph) == [sources |-> S, phase |-> ph]

Sources(G) == UNION {h.sources : h \in G}

Register(s) ==
  /\ s \notin Sources(held)
  /\ held' = held \cup {Holding({s}, "open")}

\* Open holdings become one, which may be closed at once.
Merge(G, ph) ==
  /\ G # {}
  /\ \A h \in G : h.phase = "open"
  /\ ph \in {"open", "closed"}
  /\ held' = (held \ G) \cup {Holding(Sources(G), ph)}

Close(G) ==
  /\ \A h \in G : h.phase = "open"
  /\ held' = (held \ G) \cup {Holding(h.sources, "closed") : h \in G}

Import(h) ==
  /\ h.phase = "closed"
  /\ held' = (held \ {h}) \cup {Holding(h.sources, "imported")}

Init == held = {}

Next ==
  \/ \E s \in Source : Register(s)
  \/ \E G \in SUBSET held, ph \in Phase : Merge(G, ph)
  \/ \E G \in SUBSET held : Close(G)
  \/ \E h \in held : Import(h)

Spec == Init /\ [][Next]_held
=============================================================================
