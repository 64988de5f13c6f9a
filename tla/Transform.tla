------------------------------ MODULE Transform ------------------------------
(***************************************************************************)
(* pg-retest transform (transform/analyze.rs, plan.rs, engine.rs and       *)
(* cmd_transform): the analysis groups statements by the tables they       *)
(* share, a model or a person writes a plan for the groups, and the engine *)
(* removes, injects, copies and adds sessions as the plan says.            *)
(*                                                                         *)
(* A statement is the set of tables extract_tables finds in it, injected    *)
(* ones too; its place in the workload tells captured statements apart.  Factors are whole numbers, durations  *)
(* one unit, and the draws of the seeded generator are free choices.       *)
(***************************************************************************)
EXTENDS Integers, Sequences, FiniteSets, SequencesExt

CONSTANTS
    Tables,    \* numbers of tables, in the order of their names
    Workloads, \* sequences of [id, queries], a query being [tables, start, txn]
    Plans      \* see TransformAssumption

Rules == [type : {"remove"}, group : Nat] \cup [type : {"inject"}, group : Nat, tables : SUBSET Tables]
         \cup [type : {"scale"}, group : Nat, factor : Nat, stagger : Nat]
         \cup [type : {"inject_session"}, length : Nat, repeat : Nat, interval : Nat]

ASSUME TransformAssumption ==
    /\ Tables \subseteq Nat /\ IsFiniteSet(Tables)
    /\ Workloads \subseteq Seq([id : Nat, queries : Seq([tables : SUBSET Tables, start : Nat, txn : Nat])])
    /\ \A w \in Workloads : \A j, k \in DOMAIN w : w[j].id = w[k].id => j = k
    \* groups: [tables, query_indices]; a rule names a group by its position, which need not exist
    /\ \A p \in Plans : /\ \A g \in DOMAIN p.groups : p.groups[g].tables \subseteq Tables /\ p.groups[g].query_indices \subseteq Nat
                        /\ p.transforms \in Seq(Rules)

VARIABLES
    source,     \* the profile
    plan,       \* the TransformPlan
    transforming, \* "unplanned", "analyzed", "queries", "copies", "sessions", "done"
    uf,         \* the UnionFind: [parent, rank]
    flat_index, \* statements the engine has seen
    hash_order, \* the order in which group_tables is iterated
    modified,   \* sessions so far: [id, queries], a query being [of, tables, start, txn]
    copied,     \* [session to duplicate, copies made of all, statements or copies of it done here]
    next_id, metadata

transformVars == <<source, plan, transforming, uf, flat_index, hash_order, modified, copied, next_id, metadata>>

FlatQueries(w) == FlattenSeq([k \in DOMAIN w |-> w[k].queries])
Smallest(S) == CHOOSE k \in S : \A j \in S : k <= j
Largest(S, none) == IF S = {} THEN none ELSE CHOOSE k \in S : \A j \in S : j <= k
Ordered(S) == CHOOSE list \in [1..Cardinality(S) -> S] : \A i, j \in DOMAIN list : i < j => list[i] < list[j]

TransformInit ==
    /\ source \in Workloads /\ plan \in Plans
    /\ transforming = "unplanned"
    /\ uf = [parent |-> [t \in Tables |-> t], rank |-> [t \in Tables |-> 0]]
    /\ flat_index = 0 /\ hash_order = << >> /\ modified = << >>
    /\ copied = [session |-> 1, all |-> 0, here |-> 0]
    /\ next_id = Largest({source[k].id : k \in DOMAIN source}, 0) + 1
    /\ metadata = [sessions |-> 0, queries |-> 0]

-----------------------------------------------------------------------------
(* analyze_workload.                                                       *)

\* A root is its own parent; path compression changes no root.
find(u, x) == LET up[n \in 0..Cardinality(Tables)] == IF n = 0 THEN x ELSE u.parent[up[n - 1]]
              IN up[Cardinality(Tables)]

\* The slip: the tables are linked, not their roots.
union_tables(u, a, b) == [u EXCEPT !.parent[b] = a]
union(u, a, b) ==
    LET ra == find(u, a)
        rb == find(u, b)
    IN CASE ra = rb -> u
         [] ra # rb /\ u.rank[ra] < u.rank[rb] -> [u EXCEPT !.parent[ra] = rb]
         [] ra # rb /\ u.rank[ra] > u.rank[rb] -> [u EXCEPT !.parent[rb] = ra]
         [] OTHER -> [u EXCEPT !.parent[rb] = ra, !.rank[ra] = @ + 1]

\* Neighbours in the sorted set of a statement's tables.
UnionAll(u, tables) ==
    LET list == Ordered(tables)
        join[k \in 0..Len(list)] == IF k <= 1 THEN u ELSE union(join[k - 1], list[k - 1], list[k])
    IN join[Len(list)]

UnionStatements(u, flat) ==
    LET joined[k \in 0..Len(flat)] == IF k = 0 THEN u ELSE UnionAll(joined[k - 1], flat[k].tables)
    IN joined[Len(flat)]

Analyze ==
    /\ transforming = "unplanned"
    /\ uf' = UnionStatements(uf, FlatQueries(source))
    /\ transforming' = "analyzed"
    /\ UNCHANGED <<source, plan, flat_index, hash_order, modified, copied, next_id, metadata>>

\* The group of each statement: the root of its first table; none without tables.
query_group(k) ==
    LET tables == FlatQueries(source)[k].tables
    IN IF tables = {} THEN {} ELSE {find(uf, Smallest(tables))}
Grouped(root) == {k \in DOMAIN FlatQueries(source) : query_group(k) = {root}}

-----------------------------------------------------------------------------
(* apply_transform.                                                        *)

\* Of groups that list the same statement the last has it.
group_of(k) == Largest({g \in DOMAIN plan.groups : k \in plan.groups[g].query_indices}, 0)
Removes(g) == \E k \in DOMAIN plan.transforms : plan.transforms[k].type = "remove" /\ plan.transforms[k].group = g
Gone(n) == group_of(n) # 0 /\ Removes(group_of(n))
inject_rules(g) == {k \in DOMAIN plan.transforms : plan.transforms[k].type = "inject" /\ plan.transforms[k].group = g}

\* The HashMap of the groups is iterated in one order, which no seed fixes.
ReadPlan ==
    /\ transforming \in {"unplanned", "analyzed"}
    /\ hash_order' \in {o \in [DOMAIN plan.groups -> DOMAIN plan.groups] : \A g, h \in DOMAIN o : o[g] = o[h] => g = h}
    /\ transforming' = "queries"
    /\ modified' = [k \in DOMAIN source |-> [id |-> source[k].id, queries |-> << >>]]
    /\ UNCHANGED <<source, plan, uf, flat_index, copied, next_id, metadata>>

\* The places of a session's statements among all, the first being 0.
Before(w, k) == Len(FlatQueries(SubSeq(w, 1, k - 1)))
Places(w, k) == Before(w, k) .. Before(w, k) + Len(w[k].queries) - 1
SessionAt(w, n) == CHOOSE k \in DOMAIN w : n \in Places(w, k)
Original(w, n) == w[SessionAt(w, n)].queries[n - Before(w, SessionAt(w, n)) + 1]
Injected == 0 - 1

\* The slip: statements that are removed are not counted.
next_flat_kept(n) == IF Gone(n) THEN n ELSE n + 1
next_flat(n) == n + 1

\* A statement and behind it the injected ones, by their tables.
WithInjected(n, q, also) ==
    <<[of |-> n, tables |-> q.tables, start |-> q.start, txn |-> q.txn]>>
        \o [k \in 1..Len(also) |-> [of |-> Injected, tables |-> also[k], start |-> q.start + 1, txn |-> 0]]
TablesToInject(rules) == [k \in 1..Cardinality(rules) |-> plan.transforms[Ordered(rules)[k]].tables]

\* Of every rule for the statement's group, in order, the draw says yes or no:
\* frequency is a chance for each statement of the group.
TransformQuery ==
    /\ transforming = "queries"
    /\ LET seen == copied.here
       IN IF seen >= Len(FlatQueries(source))
          THEN transforming' = "copies" /\ copied' = [copied EXCEPT !.here = 0] /\ UNCHANGED <<modified, flat_index>>
          ELSE LET g == group_of(flat_index)
               IN /\ flat_index' = next_flat(flat_index)
                  /\ copied' = [copied EXCEPT !.here = seen + 1]
                  /\ IF Gone(flat_index) THEN UNCHANGED modified
                     ELSE \E yes \in SUBSET IF g = 0 THEN {} ELSE inject_rules(g) :
                            modified' = [modified EXCEPT ![SessionAt(source, seen)].queries =
                                             @ \o WithInjected(seen, Original(source, seen), TablesToInject(yes))]
                  /\ UNCHANGED transforming
    /\ UNCHANGED <<source, plan, uf, hash_order, next_id, metadata>>

\* The first group, in that order, that shares a table with the statement; 1 if none does.
affinity(q) == Largest({0 - k : k \in {j \in DOMAIN hash_order : q.tables \cap plan.groups[hash_order[j]].tables # {}}}, 1)
\* A HashMap: of the rules for a group the last.
scale_rules == {k \in DOMAIN plan.transforms : plan.transforms[k].type = "scale"}
ScaleRule(g) == Largest({k \in scale_rules : plan.transforms[k].group = g}, 0)
ScaleOf(g) == IF ScaleRule(g) = 0 THEN 1 ELSE plan.transforms[ScaleRule(g)].factor
FactorOf(q) == IF affinity(q) = 1 THEN 1 ELSE ScaleOf(hash_order[0 - affinity(q)])

\* effective_scale, rounded: the mean factor of the session's statements.
SumOf(numbers) == LET sum[k \in 0..Len(numbers)] == IF k = 0 THEN 0 ELSE sum[k - 1] + numbers[k] IN sum[Len(numbers)]
copies(session) ==
    LET weighted == SumOf([n \in DOMAIN session.queries |-> FactorOf(session.queries[n])])
        total == Len(session.queries)
        rounded == (2 * weighted + total) \div (2 * total)
    IN IF total = 0 \/ rounded = 0 THEN 0 ELSE rounded - 1

stagger_us == Largest({plan.transforms[k].stagger : k \in {j \in scale_rules : ScaleRule(plan.transforms[j].group) = j}}, 10)

Delayed(queries, offset) == [n \in DOMAIN queries |-> [queries[n] EXCEPT !.start = @ + offset, !.txn = 0]]

Duplicate ==
    /\ transforming = "copies" /\ copied.session <= Len(source)
    /\ LET s == modified[copied.session]
       IN IF copied.here < copies(s)
          THEN /\ modified' = Append(modified, [id |-> next_id, queries |-> Delayed(s.queries, (copied.all + 1) * stagger_us)])
               /\ next_id' = next_id + 1
               /\ copied' = [copied EXCEPT !.all = @ + 1, !.here = @ + 1]
          ELSE copied' = [copied EXCEPT !.session = @ + 1, !.here = 0] /\ UNCHANGED <<modified, next_id>>
    /\ UNCHANGED <<source, plan, transforming, uf, flat_index, hash_order, metadata>>

\* The sessions of all inject_session rules, in order; nobody reads the tables of their statements.
NewSessions ==
    LET made(r) == [i \in 1..r.repeat |-> [k \in 1..r.length |->
                      [of |-> Injected, tables |-> {}, start |-> (i - 1) * r.interval + k - 1, txn |-> 0]]]
    IN FlattenSeq([k \in DOMAIN plan.transforms |->
                      IF plan.transforms[k].type = "inject_session" THEN made(plan.transforms[k]) ELSE << >>])

InjectSessions ==
    /\ transforming = "copies" /\ copied.session > Len(source)
    /\ transforming' = "sessions"
    /\ modified' = modified \o [k \in DOMAIN NewSessions |-> [id |-> next_id + k - 1, queries |-> NewSessions[k]]]
    /\ next_id' = next_id + Len(NewSessions)
    /\ UNCHANGED <<source, plan, uf, flat_index, hash_order, copied, metadata>>

WriteProfile ==
    /\ transforming = "sessions"
    /\ transforming' = "done"
    /\ metadata' = [sessions |-> Len(modified), queries |-> Len(FlatQueries(modified))]
    /\ UNCHANGED <<source, plan, uf, flat_index, hash_order, modified, copied, next_id>>

TransformNext == Analyze \/ ReadPlan \/ TransformQuery \/ Duplicate \/ InjectSessions \/ WriteProfile

TransformSpec == TransformInit /\ [][TransformNext]_transformVars

-----------------------------------------------------------------------------
\* Tables linked by a chain of statements, by any path.
Together(x, y) == \E k \in DOMAIN FlatQueries(source) : {x, y} \subseteq FlatQueries(source)[k].tables
Linked(a, b) ==
    LET reach[n \in 0..Cardinality(Tables)] ==
            IF n = 0 THEN {a} ELSE reach[n - 1] \cup {y \in Tables : \E x \in reach[n - 1] : Together(x, y)}
    IN b \in reach[Cardinality(Tables)]

\* Statements are in one group exactly when a chain of statements links their
\* tables, whatever the order they come in, and every statement with a table
\* is in one group (analyze.rs 355-410).  docs/transform.md:47 wants one
\* statement that references both tables; the code closes that relation, and
\* joins tables 1 and 3 of statements over {1, 2} and {2, 3}.
GroupsRight ==
    transforming = "analyzed" =>
        \A j, k \in DOMAIN FlatQueries(source) :
            LET a == FlatQueries(source)[j].tables
                b == FlatQueries(source)[k].tables
            IN a # {} /\ b # {} =>
                 (query_group(j) = query_group(k) <=> Linked(Smallest(a), Smallest(b)))

\* c says what s says, at the same distances.
Repeats(c, s) ==
    /\ s.queries # << >> /\ Len(c.queries) = Len(s.queries)
    /\ \A n \in DOMAIN s.queries :
         /\ c.queries[n].of = s.queries[n].of /\ c.queries[n].tables = s.queries[n].tables
         /\ c.queries[n].start - c.queries[1].start = s.queries[n].start - s.queries[1].start

\* The transformed workload is the captured one with what the plan says and
\* nothing else: every captured session keeps its statements in order except
\* those of removed groups, what is injected stands behind a statement whose
\* group a rule names, copies repeat a whole session later under an id of
\* their own, no two by the same delay, as many as the group of all its
\* statements, injected ones among them, is scaled to, and the totals count
\* what is there (engine.rs 17-310).  It does not say how many statements are
\* injected: the code draws for every statement of the group, where
\* docs/transform.md:170 speaks of one query in a fraction of the sessions.
TransformRight ==
    transforming = "done" =>
        LET Own(k) == {n \in DOMAIN modified[k].queries : modified[k].queries[n].of # Injected}
            of(k, n) == modified[k].queries[n].of
            start(k) == modified[k].queries[1].start
            made == Len(source) + 1 .. Len(source) + copied.all
            copies_of(k) == {c \in made : Repeats(modified[c], modified[k])}
        IN /\ \A j, k \in DOMAIN modified : modified[j].id = modified[k].id => j = k
           /\ \A k \in DOMAIN source :
                /\ modified[k].id = source[k].id
                /\ {of(k, n) : n \in Own(k)} = {f \in Places(source, k) : ~Gone(f)}
                /\ \A m, n \in Own(k) : m < n => of(k, m) < of(k, n)
                /\ \A n \in DOMAIN modified[k].queries \ Own(k) : \E m \in Own(k) :
                     /\ m < n /\ \A i \in m + 1 .. n : i \notin Own(k)
                     /\ group_of(of(k, m)) # 0 /\ inject_rules(group_of(of(k, m))) # {}
           /\ \A c \in made : \E k \in DOMAIN source : c \in copies_of(k)
           /\ stagger_us > 0 => \A j, k \in DOMAIN source : \A c \in copies_of(j), d \in copies_of(k) :
                c # d => start(c) - start(j) # start(d) - start(k)
           /\ \A k \in DOMAIN source :
                LET f == FactorOf(modified[k].queries[1])
                IN modified[k].queries # << >> /\ (\A n \in DOMAIN modified[k].queries : FactorOf(modified[k].queries[n]) = f) =>
                     Cardinality(copies_of(k)) = IF f = 0 THEN 0 ELSE f - 1
           /\ Len(modified) = Len(source) + copied.all + Len(NewSessions)
           /\ metadata = [sessions |-> Len(modified), queries |-> Len(FlatQueries(modified))]
=============================================================================
