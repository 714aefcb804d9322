--------------------------- MODULE RequestLimiter ---------------------------
(***************************************************************************)
(* The token buckets of server/src/security/request-limiter.ts, as         *)
(* operators on a limiter l: its buckets, when sessions were last pruned,  *)
(* and whether it is disposed of.  A bucket belongs to a use and an owner, *)
(* <<use, owner>>: the server, a transport or a session.  Tokens are whole *)
(* and come with the ticks of a clock.                                     *)
(***************************************************************************)
EXTENDS Naturals, Sequences, FiniteSets

CONSTANTS Server, None,
          Attaching,            \* the requests with buckets of their own: create, join, resume
          Capacity, Rate,       \* of a bucket, by its use and the kind of its owner
          MaxTransports,        \* MAX_CONNECTIONS
          MaxSessions,          \* MAX_ROOMS * 4
          PruneInterval

ASSUME LimiterAssumption ==
  /\ Attaching \subseteq {"create", "join", "resume"}
  /\ \A kind \in {"server", "transport", "session"} : \A use \in DOMAIN Capacity[kind] :
        Capacity[kind][use] \in Nat /\ Rate[kind][use] \in Nat
  /\ "connect" \in DOMAIN Capacity["server"]

VARIABLES limiter, now
limits == <<limiter, now>>

SessionUses == {"all", "commands"}
TransportUses == {"all"} \cup Attaching
ServerUses == {"all", "connect"} \cup Attaching

Least(m, n) == IF m < n THEN m ELSE n
Latest(updated) == IF now > updated THEN now ELSE updated

Fresh(kind, use) == [tokens |-> Capacity[kind][use], updated |-> now]

RefilledUncapped(bucket, kind, use) ==   \* mutant: idle time is saved up
  LET elapsed == IF now > bucket.updated THEN now - bucket.updated ELSE 0
  IN  [tokens |-> bucket.tokens + elapsed * Rate[kind][use], updated |-> Latest(bucket.updated)]
Refilled(bucket, kind, use) ==
  LET elapsed == IF now > bucket.updated THEN now - bucket.updated ELSE 0
  IN  [tokens |-> Least(Capacity[kind][use], bucket.tokens + elapsed * Rate[kind][use]),
       updated |-> Latest(bucket.updated)]

NewLimiter ==
  [buckets |-> [key \in ServerUses \X {Server} |-> Fresh("server", key[1])],
   pruned |-> 0, disposed |-> FALSE]

Owners(l, use) == {key[2] : key \in {k \in DOMAIN l.buckets : k[1] = use}}
WithSession(l) == Owners(l, "commands")
Transports(l) == Owners(l, "all") \ (WithSession(l) \cup {Server})
Only(f, keys) == [key \in keys |-> f[key]]

\* One token from each of the keys, a sequence of <<kind, use, owner>>, up to
\* the first bucket that has none.
Take(l, keys) ==
  LET at(i) == <<keys[i][2], keys[i][3]>>
      refilled(i) == Refilled(l.buckets[at(i)], keys[i][1], keys[i][2])
      empty == {i \in DOMAIN keys : refilled(i).tokens < 1}
      taken == {i \in DOMAIN keys : \A j \in empty : i < j}
      index(key) == CHOOSE i \in DOMAIN keys : at(i) = key
      touched == {at(i) : i \in {j \in DOMAIN keys : \A k \in empty : j <= k}}
  IN  [ok |-> empty = {},
       limiter |-> [l EXCEPT !.buckets = [key \in DOMAIN @ |->
          IF key \notin touched THEN @[key]
          ELSE IF index(key) \in taken THEN [refilled(index(key)) EXCEPT !.tokens = @ - 1]
          ELSE refilled(index(key))]]]

Refused(l) == [ok |-> FALSE, limiter |-> l]

AdmitConnection(l) == IF l.disposed THEN Refused(l) ELSE Take(l, <<<<"server", "connect", Server>>>>)

AttachTransport(l, t) ==
  IF l.disposed \/ Cardinality(Transports(l)) >= MaxTransports \/ t \in Transports(l)
  THEN Refused(l)
  ELSE [ok |-> TRUE,
        limiter |-> [l EXCEPT !.buckets = [key \in DOMAIN @ \cup (TransportUses \X {t}) |->
                       IF key \in DOMAIN @ THEN @[key] ELSE Fresh("transport", key[1])]]]

ForgetTransport(l, t) == [l EXCEPT !.buckets = Only(@, {key \in DOMAIN @ : key[2] # t})]

\* The buckets of sessions that no longer exist are given up.
Prune(l, existing) ==
  [l EXCEPT !.pruned = now,
            !.buckets = Only(@, {key \in DOMAIN @ : key[2] \notin WithSession(l) \ existing})]
PruneDue(l, existing) == IF now - l.pruned < PruneInterval THEN l ELSE Prune(l, existing)

AddSession(l, s) ==
  [l EXCEPT !.buckets = [key \in DOMAIN @ \cup (SessionUses \X {s}) |->
               IF key \in DOMAIN @ THEN @[key] ELSE Fresh("session", key[1])]]

SessionBucketUnpruned(l, s, existing) ==   \* mutant: the table is pruned by the clock alone
  IF s \in WithSession(l) THEN [ok |-> TRUE, limiter |-> l]
  ELSE IF Cardinality(WithSession(l)) >= MaxSessions THEN Refused(l)
  ELSE [ok |-> TRUE, limiter |-> AddSession(l, s)]
\* A bucket for a session that exists; the table is pruned first when full.
SessionBucket(l, s, existing) ==
  LET full(m) == Cardinality(WithSession(m)) >= MaxSessions
      pruned == IF full(l) THEN Prune(l, existing) ELSE l
  IN  IF s \in WithSession(l) THEN [ok |-> TRUE, limiter |-> l]
      ELSE IF full(pruned) THEN Refused(pruned)
      ELSE [ok |-> TRUE, limiter |-> AddSession(pruned, s)]

TransportKeys(t, event) ==
  IF event \in Attaching
  THEN <<<<"server", "all", Server>>, <<"transport", "all", t>>, <<"transport", event, t>>, <<"server", event, Server>>>>
  ELSE <<<<"server", "all", Server>>, <<"transport", "all", t>>>>
SessionKeys(s, event) ==
  IF event = "command" THEN <<<<"session", "all", s>>, <<"session", "commands", s>>>> ELSE <<<<"session", "all", s>>>>

Allow(l, t, s, event, existing) ==
  LET due == PruneDue(l, existing)
      first == Take(due, TransportKeys(t, event))
      session == SessionBucket(first.limiter, s, existing)
  IN  IF l.disposed THEN Refused(l)
      ELSE IF t \notin Transports(due) THEN Refused(due)
      ELSE IF ~first.ok \/ s \notin existing THEN first
      ELSE IF ~session.ok THEN session
      ELSE Take(session.limiter, SessionKeys(s, event))

Disposed(l) == [l EXCEPT !.disposed = TRUE, !.buckets = Only(@, ServerUses \X {Server})]
=============================================================================
