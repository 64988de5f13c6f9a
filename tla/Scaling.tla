------------------------------- MODULE Scaling -------------------------------
(***************************************************************************)
(* replay/scaling.rs and classify/mod.rs: the copies a scaled replay runs  *)
(* and the class of a session that decides how many of them there are.     *)
(*                                                                         *)
(* A profile is a sequence of sessions [id, queries], a query is           *)
(* [sql, kind, start_offset_us, duration_us, transaction_id].              *)
(***************************************************************************)
EXTENDS Naturals, Sequences, FiniteSets, SequencesExt

Classes == {"Analytical", "Transactional", "Mixed", "Bulk"}
Writing == {"Insert", "Update", "Delete", "Ddl"}

Total(numbers) == LET sum[k \in 0..Len(numbers)] == IF k = 0 THEN 0 ELSE sum[k - 1] + numbers[k] IN sum[Len(numbers)]
Each(seq, F(_)) == [k \in DOMAIN seq |-> F(seq[k])]
Those(seq, P(_)) == FlattenSeq([k \in DOMAIN seq |-> IF P(seq[k]) THEN <<seq[k]>> ELSE << >>])
CountOf(seq, P(_)) == Cardinality({k \in DOMAIN seq : P(seq[k])})
\* sort_by, which is stable: a member's place is the number of those not behind it.
Sort(seq, Before(_, _)) ==
    LET Place(k) == Cardinality({j \in DOMAIN seq :
                        j = k \/ Before(seq[j], seq[k]) \/ (j < k /\ ~Before(seq[k], seq[j]))})
    IN  [n \in DOMAIN seq |-> seq[CHOOSE k \in DOMAIN seq : Place(k) = n]]
SortByKey(seq, Key(_)) == Sort(seq, LAMBDA x, y : Key(x) < Key(y))

-----------------------------------------------------------------------------
\* classify_session; a percentage is of reads and writes only.
classify_session(session) ==
    LET queries == session.queries
        reads == CountOf(queries, LAMBDA q : q.kind = "Select")
        writes == CountOf(queries, LAMBDA q : q.kind \in Writing)
        transactions == CountOf(queries, LAMBDA q : q.kind = "Begin")
        Over(part, pct) == 100 * part > pct * (reads + writes)
        avg_latency_us == Total(Each(queries, LAMBDA q : q.duration_us)) \div Len(queries)
    IN  CASE queries = << >> -> "Mixed"
          [] queries # << >> /\ Over(writes, 80) /\ transactions <= 2 -> "Bulk"
          [] queries # << >> /\ Over(reads, 80) /\ avg_latency_us > 10000 -> "Analytical"
          [] queries # << >> /\ Over(writes, 20) /\ avg_latency_us < 5000 /\ transactions > 2 -> "Transactional"
          [] OTHER -> "Mixed"

\* The majority; of equal counts the last in this order.
classify_workload(profile) ==
    LET classes == <<"Analytical", "Transactional", "Mixed", "Bulk">>
        count == Each(classes, LAMBDA c : CountOf(profile, LAMBDA s : classify_session(s) = c))
        best == {k \in DOMAIN classes : \A j \in DOMAIN classes : count[j] <= count[k]}
    IN  classes[CHOOSE k \in best : \A j \in best : j <= k]

-----------------------------------------------------------------------------
\* A copy keeps the text, the kind and the transaction ids.
Copy(session, id, offset) ==
    [session EXCEPT !.id = id,
        !.queries = Each(@, LAMBDA q : [q EXCEPT !.start_offset_us = @ + offset])]

scale_sessions(profile, scale, stagger_us) ==
    IF scale <= 1 THEN profile
    ELSE LET n == Len(profile) IN
         [k \in 1..(scale * n) |->
            LET copy == (k - 1) \div n
                session == profile[((k - 1) % n) + 1]
            IN  Copy(session, session.id + copy * n, copy * stagger_us)]

FirstOffset(session) == IF session.queries = << >> THEN 0 ELSE session.queries[1].start_offset_us
\* Mutant: the last session has the largest id.
last_id(profile) == profile[Len(profile)].id
MaxId(profile) == CHOOSE m \in {0} \cup {profile[s].id : s \in DOMAIN profile} :
                      \A s \in DOMAIN profile : profile[s].id <= m

\* order: how the HashMap of groups iterates.  One stagger step per round of copies, whatever its class.
scale_sessions_by_class(profile, scales, stagger_us, order) ==
    LET members(c) == Those(profile, LAMBDA s : classify_session(s) = c)
        originals == FlattenSeq(Each(order, LAMBDA c : IF scales[c] = 0 THEN << >> ELSE members(c)))
        rounds == FlattenSeq(Each(order, LAMBDA c :
                      IF members(c) = << >> \/ scales[c] <= 1 THEN << >> ELSE [k \in 1..(scales[c] - 1) |-> c]))
        copied == FlattenSeq([r \in DOMAIN rounds |->
                      Each(members(rounds[r]), LAMBDA s : Copy(s, 0, r * stagger_us))])
        numbered == [k \in DOMAIN copied |-> [copied[k] EXCEPT !.id = MaxId(profile) + k]]
    IN  SortByKey(originals \o numbered, FirstOffset)
=============================================================================
