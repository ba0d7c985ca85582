------------------------- MODULE GraphGatewayProofs -------------------------
(***************************************************************************)
(* For any routing table, any query and any replies: the plan groups the   *)
(* query by owner, and the merged answer explains what it does not hold.   *)
(* Both carry over to ArtworkChain, which implements GraphGateway.         *)
(***************************************************************************)
EXTENDS ArtworkChain, SequenceTheorems, WellFoundedInduction, TLAPS

(* The n-th selection is the first that asks s for something. *)
FirstAt(q, s, n) == OwnerOf(q[n]) = s /\ \A m \in 1..n - 1 : OwnerOf(q[m]) # s

(* gs is what the planner has made of the first n selections of q. *)
Grouped(q, n, gs) ==
  /\ \A p \in 1..n : q[p].field \in DOMAIN Owner
  /\ {gs[i].subgraph : i \in DOMAIN gs} = {OwnerOf(q[p]) : p \in 1..n}
  /\ \A i \in DOMAIN gs : \E p \in 1..n : FirstAt(q, gs[i].subgraph, p)
  /\ \A i, j \in DOMAIN gs : \A m, p \in 1..n :
       i < j /\ FirstAt(q, gs[i].subgraph, m) /\ FirstAt(q, gs[j].subgraph, p) => m < p
  /\ \A i \in DOMAIN gs :
       Picks(gs[i].selections, q, {p \in 1..n : OwnerOf(q[p]) = gs[i].subgraph})

(* What is known of the futures in each phase. *)
PhaseInv ==
  /\ phase \in {"idle", "plan"} => futures = <<>>
  /\ phase \in {"fanOut", "fanIn"} =>
       /\ grouped = Len(query)
       /\ \A i \in DOMAIN groups : groups[i].subgraph \in HasUrl
  /\ phase = "fanIn" => Len(futures) = Len(groups)
  /\ \A i \in 1..joined : futures[i].state = "done"

(* A result is that of a reply the subgraph may give to its group. *)
ReplyInv ==
  \A i \in DOMAIN futures : futures[i].state = "done" =>
    /\ futures[i].reply \in Replies(groups[i])
    /\ futures[i].result = ResultOf(groups[i], futures[i].reply)

(* The answer: a plan that failed, a null that was merged, or the data of  *)
(* the results, each key from one of them, and the subgraphs that failed.  *)
FullAnswer ==
  /\ response.status = 200
  /\ \A i \in DOMAIN futures : ResultAt(i).data # Null
  /\ response.errors = MergedErrors
  /\ DOMAIN response.data = UNION {DOMAIN ResultAt(i).data : i \in DOMAIN futures}
  /\ \A k \in DOMAIN response.data : \E i \in DOMAIN futures :
       k \in DOMAIN ResultAt(i).data /\ response.data[k] = ResultAt(i).data[k]

AnswerInv ==
  phase = "answered" =>
    \/ response.status = 400 /\ futures = <<>>
    \/ /\ grouped = Len(query)
       /\ Len(futures) = Len(groups)
       /\ \A i \in DOMAIN futures : futures[i].state = "done"
       /\ \/ response.status = 500 /\ \E i \in DOMAIN futures : ResultAt(i).data = Null
          \/ FullAnswer

RequestInv == TypeOK /\ Grouped(query, grouped, groups) /\ PhaseInv /\ ReplyInv /\ AnswerInv

(* Two selections with the same response key ask for the same field, as    *)
(* GraphQL validation requires of the query as a whole.                    *)
KeysAgree(q) == \A m, n \in DOMAIN q : q[m].key = q[n].key => q[m].field = q[n].field

(* No subgraph answered with "data": null. *)
NoNullData ==
  \A i \in DOMAIN futures : futures[i].state = "done" => futures[i].reply.kind # "nullData"
-----------------------------------------------------------------------------
(* Numbers and sequences.                                                  *)

LEMMA LeastOf ==
  ASSUME NEW S \in SUBSET Nat, S # {}
  PROVE  \E m \in S : \A n \in S : m <= n
<1> DEFINE R == OpToRel(<, Nat)
<1>1. IsWellFoundedOn(R, Nat)
  BY NatLessThanWellFounded, Zenon
<1>2. \A x, y \in Nat : <<x, y>> \in R <=> x < y
  BY Zenon DEF OpToRel
<1> HIDE DEF R
<1>3. \E m \in S : \A n \in S : ~(<<n, m>> \in R)
  BY <1>1, WFMin, Zenon
<1>4. \A m, n \in S : m \in Nat /\ n \in Nat
  OBVIOUS
<1>5. \A m, n \in Nat : ~(n < m) => m <= n
  OBVIOUS
<1> QED
  BY <1>2, <1>3, <1>4, <1>5, Zenon

LEMMA GreatestOf ==
  ASSUME NEW n \in Nat, NEW S \in SUBSET (1..n), S # {}
  PROVE  \E m \in S : \A i \in S : i <= m
<1> DEFINE T == {n - i : i \in S}
<1>1. T \in SUBSET Nat /\ T # {}
  <2>1. \A i \in S : i \in 1..n
    OBVIOUS
  <2>2. \A i \in 1..n : n - i \in Nat
    OBVIOUS
  <2> QED
    BY <2>1, <2>2
<1>2. PICK t \in T : \A u \in T : t <= u
  BY <1>1, LeastOf
<1>3. PICK m \in S : t = n - m
  BY <1>2
<1>4. \A i \in S : n - m <= n - i
  BY <1>2, <1>3
<1> QED
  BY <1>4

(* One more element is picked, the last one looked at.                     *)
LEMMA PicksMore ==
  ASSUME NEW q \in Seq(Selection), NEW n \in Nat, n + 1 \in DOMAIN q,
         NEW selections \in Seq(Selection), NEW P \in SUBSET (1..n),
         Picks(selections, q, P)
  PROVE  Picks(Append(selections, q[n + 1]), q, P \cup {n + 1})
<1> DEFINE more == Append(selections, q[n + 1])
           L == Len(selections)
<1>1. PICK at \in [DOMAIN selections -> P] :
        /\ P = {at[m] : m \in DOMAIN selections}
        /\ \A m, p \in DOMAIN selections : m < p => at[m] < at[p]
        /\ \A m \in DOMAIN selections : selections[m] = q[at[m]]
  BY DEF Picks
<1> DEFINE to == [m \in DOMAIN more |-> IF m = L + 1 THEN n + 1 ELSE at[m]]
<1>2. /\ L \in Nat /\ DOMAIN selections = 1..L /\ DOMAIN more = 1..L + 1
      /\ more[L + 1] = q[n + 1] /\ \A m \in 1..L : more[m] = selections[m] /\ m # L + 1
  BY DEF Selection
<1> HIDE DEF more, L
<1>3. \A m \in 1..L : at[m] \in P /\ at[m] \in 1..n /\ at[m] < n + 1
  <2>1. \A p \in P : p \in 1..n
    OBVIOUS
  <2>2. \A p \in 1..n : p < n + 1
    OBVIOUS
  <2>3. \A m \in 1..L : at[m] \in P
    BY <1>2
  <2> QED
    BY <2>1, <2>2, <2>3
<1>4. \A m \in 1..L : m \in DOMAIN more /\ to[m] = at[m]
  BY <1>2
<1>5. L + 1 \in DOMAIN more /\ to[L + 1] = n + 1
  BY <1>2
<1>6. to \in [DOMAIN more -> P \cup {n + 1}]
  BY <1>2, <1>3
<1> HIDE DEF to
<1>7. \A m \in DOMAIN more : m \in 1..L \/ m = L + 1
  BY <1>2
<1>8. P \cup {n + 1} = {to[m] : m \in DOMAIN more}
  <2>1. P = {at[m] : m \in 1..L}
    BY <1>1, <1>2
  <2> QED
    BY ONLY <1>4, <1>5, <1>7, <2>1
<1>9. \A m, p \in DOMAIN more : m < p => to[m] < to[p]
  <2>1. \A m, p \in 1..L : m < p => to[m] < to[p]
    BY ONLY <1>1, <1>2, <1>4
  <2>2. \A m \in 1..L : to[m] < to[L + 1]
    BY ONLY <1>3, <1>4, <1>5
  <2>3. \A m \in 1..L : ~(L + 1 < m)
    BY ONLY <1>2
  <2>4. ~(L + 1 < L + 1)
    BY ONLY <1>2
  <2> QED
    BY ONLY <1>7, <2>1, <2>2, <2>3, <2>4
<1>10. \A m \in DOMAIN more : more[m] = q[to[m]]
  BY <1>1, <1>2, <1>4, <1>5, <1>7
<1> QED
  BY <1>6, <1>8, <1>9, <1>10 DEF Picks, more

LEMMA PicksOne ==
  ASSUME NEW q \in Seq(Selection), NEW p \in DOMAIN q
  PROVE  Picks(<<q[p]>>, q, {p})
<1> DEFINE to == [m \in DOMAIN <<q[p]>> |-> p]
<1>1. DOMAIN <<q[p]>> = {1} /\ <<q[p]>>[1] = q[p]
  OBVIOUS
<1>2. to \in [DOMAIN <<q[p]>> -> {p}] /\ to[1] = p
  BY <1>1
<1> HIDE DEF to
<1>3. \A m, i \in DOMAIN <<q[p]>> : ~(m < i)
  BY <1>1
<1> QED
  BY <1>1, <1>2, <1>3 DEF Picks

-----------------------------------------------------------------------------
(* The planner.                                                            *)

GroupType == Seq([subgraph : Subgraphs, selections : Seq(Selection)])

(* Who was asked before is not asked for the first time.                   *)
LEMMA FirstOnce ==
  ASSUME NEW q, NEW n \in Nat, NEW p \in 1..n
  PROVE  ~FirstAt(q, OwnerOf(q[p]), n + 1)
<1>1. p \in 1..(n + 1) - 1
  OBVIOUS
<1> QED
  BY <1>1 DEF FirstAt

LEMMA NewGroup ==
  ASSUME NEW q \in Seq(Selection), NEW n \in Nat, n + 1 \in DOMAIN q,
         NEW gs \in GroupType, Grouped(q, n, gs),
         q[n + 1].field \in DOMAIN Owner,
         \A i \in DOMAIN gs : gs[i].subgraph # OwnerOf(q[n + 1]),
         NEW g, g = [subgraph |-> OwnerOf(q[n + 1]), selections |-> <<q[n + 1]>>]
  PROVE  Append(gs, g) \in GroupType /\ Grouped(q, n + 1, Append(gs, g))
<1> DEFINE more == Append(gs, g)
           L == Len(gs)
           s == OwnerOf(q[n + 1])
<1>1. q[n + 1] \in Selection /\ s \in Subgraphs /\ g.subgraph = s /\ g.selections = <<q[n + 1]>>
  BY GraphGatewayAssumption DEF GraphGatewayAssumption, OwnerOf
<1>2. g \in [subgraph : Subgraphs, selections : Seq(Selection)]
  BY <1>1
<1>3. /\ more \in GroupType /\ L \in Nat /\ DOMAIN gs = 1..L /\ DOMAIN more = 1..L + 1
      /\ more[L + 1] = g /\ \A i \in 1..L : more[i] = gs[i]
  BY <1>2 DEF GroupType
<1> HIDE DEF more, L
<1>4. /\ 1..n + 1 = 1..n \cup {n + 1} /\ 1..L + 1 = 1..L \cup {L + 1}
      /\ \A i \in 1..L : i # L + 1 /\ ~(L + 1 < i) /\ i < L + 1
      /\ ~(L + 1 < L + 1) /\ n + 1 \in 1..n + 1
      /\ \A p \in 1..n : p < n + 1
  BY <1>3
<1>5. \A p \in 1..n : OwnerOf(q[p]) # s
  <2>1. \A p \in 1..n : OwnerOf(q[p]) \in {gs[i].subgraph : i \in DOMAIN gs}
    BY DEF Grouped
  <2> QED
    BY <2>1
<1>6. FirstAt(q, s, n + 1)
  <2>1. (n + 1) - 1 = n
    OBVIOUS
  <2> QED
    BY <1>5, <2>1 DEF FirstAt
<1>7. \A i \in 1..L : ~FirstAt(q, gs[i].subgraph, n + 1)
  <2>1. \A i \in 1..L : \E p \in 1..n : gs[i].subgraph = OwnerOf(q[p])
    BY <1>3 DEF Grouped, FirstAt
  <2> QED
    BY <2>1, FirstOnce
<1>8. \A p \in 1..n : ~FirstAt(q, s, p)
  BY <1>5 DEF FirstAt
<1>9. \A p \in 1..n + 1 : q[p].field \in DOMAIN Owner
  BY <1>4 DEF Grouped
<1>10. {more[i].subgraph : i \in DOMAIN more} = {OwnerOf(q[p]) : p \in 1..n + 1}
  <2>1. {more[i].subgraph : i \in DOMAIN more} = {gs[i].subgraph : i \in DOMAIN gs} \cup {s}
    BY <1>1, <1>3, <1>4
  <2>2. {OwnerOf(q[p]) : p \in 1..n + 1} = {OwnerOf(q[p]) : p \in 1..n} \cup {s}
    BY <1>4
  <2> QED
    BY <2>1, <2>2 DEF Grouped
<1>11. \A i \in DOMAIN more : \E p \in 1..n + 1 : FirstAt(q, more[i].subgraph, p)
  <2>1. \A i \in 1..L : \E p \in 1..n : FirstAt(q, more[i].subgraph, p)
    BY <1>3 DEF Grouped
  <2> QED
    BY <1>1, <1>3, <1>4, <1>6, <2>1
<1>12. \A i, j \in DOMAIN more : \A m, p \in 1..n + 1 :
         i < j /\ FirstAt(q, more[i].subgraph, m) /\ FirstAt(q, more[j].subgraph, p) => m < p
  <2>1. \A i \in 1..L : \A m \in 1..n + 1 : FirstAt(q, more[i].subgraph, m) => m \in 1..n
    BY <1>3, <1>4, <1>7
  <2>2. \A p \in 1..n + 1 : FirstAt(q, more[L + 1].subgraph, p) => p = n + 1
    BY <1>1, <1>3, <1>4, <1>8
  <2>3. \A i, j \in 1..L : \A m, p \in 1..n :
          i < j /\ FirstAt(q, more[i].subgraph, m) /\ FirstAt(q, more[j].subgraph, p) => m < p
    BY <1>3 DEF Grouped
  <2> QED
    BY ONLY <1>3, <1>4, <2>1, <2>2, <2>3
<1>13. \A i \in DOMAIN more :
         Picks(more[i].selections, q, {p \in 1..n + 1 : OwnerOf(q[p]) = more[i].subgraph})
  <2>1. ASSUME NEW i \in 1..L
        PROVE  Picks(more[i].selections, q, {p \in 1..n + 1 : OwnerOf(q[p]) = more[i].subgraph})
    <3>1. {p \in 1..n + 1 : OwnerOf(q[p]) = gs[i].subgraph} = {p \in 1..n : OwnerOf(q[p]) = gs[i].subgraph}
      BY <1>3, <1>4
    <3> QED
      BY <1>3, <3>1 DEF Grouped
  <2>2. {p \in 1..n + 1 : OwnerOf(q[p]) = s} = {n + 1}
    BY <1>4, <1>5
  <2>3. Picks(more[L + 1].selections, q, {p \in 1..n + 1 : OwnerOf(q[p]) = more[L + 1].subgraph})
    BY <1>1, <1>3, <2>2, PicksOne
  <2> QED
    BY <1>3, <1>4, <2>1, <2>3
<1> QED
  BY <1>3, <1>9, <1>10, <1>11, <1>12, <1>13 DEF Grouped, more

LEMMA SameGroup ==
  ASSUME NEW q \in Seq(Selection), NEW n \in Nat, n + 1 \in DOMAIN q,
         NEW gs \in GroupType, Grouped(q, n, gs),
         q[n + 1].field \in DOMAIN Owner,
         \E i \in DOMAIN gs : gs[i].subgraph = OwnerOf(q[n + 1]),
         NEW more,
         more = [i \in DOMAIN gs |->
                   IF gs[i].subgraph = OwnerOf(q[n + 1])
                   THEN [gs[i] EXCEPT !.selections = Append(@, q[n + 1])] ELSE gs[i]]
  PROVE  more \in GroupType /\ Grouped(q, n + 1, more)
<1> DEFINE L == Len(gs)
           s == OwnerOf(q[n + 1])
<1>1. q[n + 1] \in Selection
  OBVIOUS
<1> DEFINE Group == [subgraph : Subgraphs, selections : Seq(Selection)]
<1>2. /\ L \in Nat /\ DOMAIN gs = 1..L /\ DOMAIN more = 1..L
      /\ \A i \in 1..L : gs[i] \in Group /\ gs[i].subgraph \in Subgraphs /\ gs[i].selections \in Seq(Selection)
  <2>1. L \in Nat /\ DOMAIN gs = 1..L
    BY DEF GroupType
  <2>2. \A i \in 1..L : gs[i] \in Group
    <3>1. gs \in Seq(Group)
      BY DEF GroupType
    <3> HIDE DEF Group
    <3> QED
      BY <3>1
  <2>3. \A g \in Group : g.subgraph \in Subgraphs /\ g.selections \in Seq(Selection)
    OBVIOUS
  <2>4. DOMAIN more = DOMAIN gs
    OBVIOUS
  <2> QED
    BY <2>1, <2>2, <2>3, <2>4
<1>3. \A i \in 1..L :
        /\ more[i] \in [subgraph : Subgraphs, selections : Seq(Selection)]
        /\ more[i].subgraph = gs[i].subgraph
        /\ more[i].selections = IF gs[i].subgraph = s THEN Append(gs[i].selections, q[n + 1])
                                ELSE gs[i].selections
  <2> SUFFICES ASSUME NEW i \in 1..L
               PROVE  /\ more[i] \in [subgraph : Subgraphs, selections : Seq(Selection)]
                      /\ more[i].subgraph = gs[i].subgraph
                      /\ more[i].selections = IF gs[i].subgraph = s THEN Append(gs[i].selections, q[n + 1])
                                              ELSE gs[i].selections
    OBVIOUS
  <2>1. gs[i] \in [subgraph : Subgraphs, selections : Seq(Selection)]
    BY <1>2
  <2>2. Append(gs[i].selections, q[n + 1]) \in Seq(Selection)
    BY <1>1, <1>2
  <2> QED
    BY <1>2, <2>1, <2>2
<1>4. more \in GroupType
  <2>1. more \in [1..L -> Group]
    BY <1>2, <1>3
  <2> HIDE DEF Group
  <2>2. more \in Seq(Group)
    BY <1>2, <2>1, SeqDef
  <2> QED
    BY <2>2 DEF Group, GroupType
<1> HIDE DEF L
<1>5. 1..n + 1 = 1..n \cup {n + 1} /\ n + 1 \in 1..n + 1
  OBVIOUS
<1>6. \A i \in 1..L : \A p \in 1..n + 1 : FirstAt(q, gs[i].subgraph, p) => p \in 1..n
  <2>1. \A i \in 1..L : \E p \in 1..n : gs[i].subgraph = OwnerOf(q[p])
    BY <1>2 DEF Grouped, FirstAt
  <2> QED
    BY <1>5, <2>1, FirstOnce
<1>7. \A p \in 1..n + 1 : q[p].field \in DOMAIN Owner
  BY <1>5 DEF Grouped
<1>8. {more[i].subgraph : i \in DOMAIN more} = {OwnerOf(q[p]) : p \in 1..n + 1}
  <2>1. {more[i].subgraph : i \in DOMAIN more} = {gs[i].subgraph : i \in DOMAIN gs}
    BY <1>2, <1>3
  <2>2. {OwnerOf(q[p]) : p \in 1..n + 1} = {OwnerOf(q[p]) : p \in 1..n} \cup {s}
    BY <1>5
  <2>3. s \in {gs[i].subgraph : i \in DOMAIN gs}
    OBVIOUS
  <2> QED
    BY <2>1, <2>2, <2>3 DEF Grouped
<1>9. \A i \in DOMAIN more : \E p \in 1..n + 1 : FirstAt(q, more[i].subgraph, p)
  BY <1>2, <1>3, <1>5 DEF Grouped
<1>10. \A i, j \in DOMAIN more : \A m, p \in 1..n + 1 :
         i < j /\ FirstAt(q, more[i].subgraph, m) /\ FirstAt(q, more[j].subgraph, p) => m < p
  BY <1>2, <1>3, <1>6 DEF Grouped
<1>11. \A i \in DOMAIN more :
         Picks(more[i].selections, q, {p \in 1..n + 1 : OwnerOf(q[p]) = more[i].subgraph})
  <2> SUFFICES ASSUME NEW i \in 1..L
               PROVE  Picks(more[i].selections, q, {p \in 1..n + 1 : OwnerOf(q[p]) = gs[i].subgraph})
    <3>1. \A i \in 1..L : {p \in 1..n + 1 : OwnerOf(q[p]) = gs[i].subgraph}
                            = {p \in 1..n + 1 : OwnerOf(q[p]) = more[i].subgraph}
      BY <1>3
    <3> QED
      BY <1>2, <3>1
  <2>1. Picks(gs[i].selections, q, {p \in 1..n : OwnerOf(q[p]) = gs[i].subgraph})
    BY <1>2 DEF Grouped
  <2> DEFINE P == {p \in 1..n : OwnerOf(q[p]) = gs[i].subgraph}
  <2>2. P \in SUBSET (1..n)
    OBVIOUS
  <2>3. CASE gs[i].subgraph = s
    <3>1. {p \in 1..n + 1 : OwnerOf(q[p]) = gs[i].subgraph} = P \cup {n + 1}
      BY <1>5, <2>3
    <3>2. gs[i].selections \in Seq(Selection) /\ more[i].selections = Append(gs[i].selections, q[n + 1])
      BY <1>2, <1>3, <2>3
    <3>3. Picks(gs[i].selections, q, P)
      BY <2>1
    <3> HIDE DEF P
    <3>4. Picks(Append(gs[i].selections, q[n + 1]), q, P \cup {n + 1})
      BY <2>2, <3>2, <3>3, PicksMore
    <3> QED
      BY <3>1, <3>2, <3>4
  <2>4. CASE gs[i].subgraph # s
    <3>1. {p \in 1..n + 1 : OwnerOf(q[p]) = gs[i].subgraph} = P
      BY <1>5, <2>4
    <3> QED
      BY <1>3, <2>1, <2>4, <3>1
  <2> QED
    BY <2>3, <2>4
<1> QED
  BY <1>4, <1>7, <1>8, <1>9, <1>10, <1>11 DEF Grouped
-----------------------------------------------------------------------------
(* Replies and results.                                                    *)

LEMMA NoDataType ==
  <<>> \in Data /\ DOMAIN <<>> = {} /\ <<>> # Null
<1>1. DOMAIN <<>> = {}
  OBVIOUS
<1>2. <<>> \in [{} -> Fields \cup {Null}] /\ {} \in SUBSET ResponseKeys
  OBVIOUS
<1>3. <<>> \in Data
  BY <1>2 DEF Data
<1> QED
  BY <1>1, <1>3, GraphGatewayAssumption DEF GraphGatewayAssumption

(* The client makes a result of any reply; the values are those asked for. *)
LEMMA ResultFacts ==
  ASSUME NEW g, g.selections \in Seq(Selection), NEW reply \in Replies(g)
  PROVE  /\ reply \in Reply /\ ResultOf(g, reply) \in Result
         /\ Keys(g) \subseteq ResponseKeys
         /\ reply.kind = "fields" =>
              /\ DOMAIN ResultOf(g, reply).data = Keys(g)
              /\ ResultOf(g, reply).data \in Data
              /\ \A k \in Keys(g) \cap reply.nulls : ResultOf(g, reply).data[k] = Null
              /\ \A k \in Keys(g) \ reply.nulls : ResultOf(g, reply).data[k] \in FieldsAt(g, k)
              /\ ResultOf(g, reply).failed = (reply.nulls # {})
         /\ reply.kind = "nullData" => ResultOf(g, reply).data = Null
         /\ reply.kind \notin {"fields", "nullData"} => ResultOf(g, reply) = Failed
<1>1. \A i \in DOMAIN g.selections : g.selections[i].key \in ResponseKeys /\ g.selections[i].field \in Fields
  <2>1. \A i \in DOMAIN g.selections : g.selections[i] \in Selection
    OBVIOUS
  <2> QED
    BY <2>1 DEF Selection
<1>2. Keys(g) \subseteq ResponseKeys
  BY <1>1 DEF Keys
<1>3. \A k \in Keys(g) : FieldsAt(g, k) # {} /\ FieldsAt(g, k) \subseteq Fields
  BY <1>1 DEF Keys, FieldsAt
<1>4. /\ reply.kind \in ReplyKinds /\ reply.nulls \subseteq Keys(g)
      /\ reply = [kind |-> reply.kind, nulls |-> reply.nulls]
  BY DEF Replies
<1>5. reply \in Reply
  BY <1>2, <1>4 DEF Reply
<1>6. \A k \in Keys(g) : (CHOOSE f \in FieldsAt(g, k) : TRUE) \in FieldsAt(g, k)
  BY <1>3
<1>7. CASE reply.kind = "fields"
  <2> DEFINE value(k) == CHOOSE f \in FieldsAt(g, k) : TRUE
             data == [k \in Keys(g) |-> IF k \in reply.nulls THEN Null ELSE value(k)]
  <2>1. ResultOf(g, reply) = [data |-> data, failed |-> reply.nulls # {}]
    BY <1>7 DEF ResultOf
  <2> HIDE DEF value
  <2>2. data \in [Keys(g) -> Fields \cup {Null}]
    <3>1. \A k \in Keys(g) : value(k) \in Fields
      BY <1>3, <1>6, Zenon DEF value
    <3> QED
      BY <3>1
  <2>3. data \in Data
    BY <1>2, <2>2 DEF Data
  <2>4. /\ \A k \in Keys(g) \cap reply.nulls : data[k] = Null
        /\ \A k \in Keys(g) \ reply.nulls : data[k] \in FieldsAt(g, k)
    BY <1>6 DEF value
  <2> HIDE DEF data
  <2>5. ResultOf(g, reply).data = data /\ ResultOf(g, reply).failed = (reply.nulls # {})
    BY <2>1
  <2>6. ResultOf(g, reply) \in Result
    BY <2>1, <2>3 DEF Result
  <2>7. DOMAIN data = Keys(g)
    BY <2>2
  <2> QED
    BY <1>2, <1>5, <1>7, <2>3, <2>4, <2>5, <2>6, <2>7
<1>8. CASE reply.kind = "nullData"
  <2>1. ResultOf(g, reply) = [data |-> Null, failed |-> TRUE]
    BY <1>8 DEF ResultOf
  <2> QED
    BY <1>2, <1>5, <1>8, <2>1 DEF Result
<1>9. CASE reply.kind \notin {"fields", "nullData"}
  <2>1. ResultOf(g, reply) = Failed
    BY <1>9 DEF ResultOf
  <2>2. Failed \in Result
    BY NoDataType DEF Failed, Result
  <2> QED
    BY <1>2, <1>5, <1>9, <2>1, <2>2
<1> QED
  BY <1>7, <1>8, <1>9
-----------------------------------------------------------------------------
(* The invariant, action by action.                                        *)

FutureType == [state : {"queued", "sent", "done"}, reply : Reply \cup {Null},
               result : Result \cup {Null}]

LEMMA Shapes ==
  ASSUME TypeOK
  PROVE  /\ query \in Seq(Selection) /\ groups \in GroupType /\ futures \in Seq(FutureType)
         /\ Len(groups) \in Nat /\ DOMAIN groups = 1..Len(groups)
         /\ Len(futures) \in Nat /\ DOMAIN futures = 1..Len(futures)
         /\ Len(futures) <= Len(groups)
         /\ Len(query) \in Nat /\ DOMAIN query = 1..Len(query)
         /\ grouped \in Nat /\ grouped <= Len(query)
         /\ joined \in Nat /\ joined <= Len(futures)
<1>1. query \in Seq(Selection)
  <2>1. <<>> \in Seq(Selection)
    OBVIOUS
  <2>2. Queries \subseteq Seq(Selection) /\ query \in Queries \cup {<<>>}
    BY GraphGatewayAssumption DEF TypeOK, GraphGatewayAssumption
  <2> QED
    BY <2>1, <2>2
<1>2. groups \in GroupType /\ futures \in Seq(FutureType)
  BY DEF TypeOK, GroupType, FutureType
<1>3. Len(groups) \in Nat /\ DOMAIN groups = 1..Len(groups)
  BY <1>2 DEF GroupType
<1>4. Len(futures) \in Nat /\ DOMAIN futures = 1..Len(futures)
  BY <1>2
<1>5. Len(query) \in Nat /\ DOMAIN query = 1..Len(query)
  BY <1>1
<1>6. grouped \in 0..Len(query) /\ joined \in 0..Len(futures) /\ Len(futures) <= Len(groups)
  BY DEF TypeOK
<1> QED
  BY <1>1, <1>2, <1>3, <1>4, <1>5, <1>6

LEMMA GroupAt ==
  ASSUME TypeOK, NEW i \in DOMAIN groups
  PROVE  groups[i].subgraph \in Subgraphs /\ groups[i].selections \in Seq(Selection)
<1> DEFINE Group == [subgraph : Subgraphs, selections : Seq(Selection)]
<1>1. groups \in Seq(Group)
  BY DEF TypeOK
<1>2. \A g \in Group : g.subgraph \in Subgraphs /\ g.selections \in Seq(Selection)
  OBVIOUS
<1> HIDE DEF Group
<1>3. groups[i] \in Group
  BY <1>1
<1> QED
  BY <1>2, <1>3

LEMMA InitRequest == Init => RequestInv
<1> SUFFICES ASSUME Init PROVE RequestInv
  OBVIOUS
<1>1. /\ phase = "idle" /\ query = <<>> /\ grouped = 0 /\ groups = <<>>
      /\ futures = <<>> /\ joined = 0 /\ response = Null
  BY DEF Init
<1>2. TypeOK
  BY <1>1 DEF TypeOK
<1>3. DOMAIN groups = {} /\ DOMAIN futures = {} /\ 1..grouped = {} /\ 1..joined = {}
  BY <1>1
<1>4. Grouped(query, grouped, groups)
  BY <1>3 DEF Grouped
<1>5. PhaseInv /\ ReplyInv /\ AnswerInv
  BY <1>1, <1>3 DEF PhaseInv, ReplyInv, AnswerInv
<1> QED
  BY <1>2, <1>4, <1>5 DEF RequestInv

LEMMA HandleKeeps ==
  ASSUME RequestInv, NEW q \in Queries, Handle(q)
  PROVE  RequestInv'
<1>1. /\ phase' = "plan" /\ query' = q /\ grouped' = 0 /\ groups' = <<>>
      /\ futures' = <<>> /\ joined' = 0 /\ response' = Null
  BY DEF Handle
<1>2. Len(q) \in Nat
  BY GraphGatewayAssumption DEF GraphGatewayAssumption
<1>3. TypeOK'
  BY <1>1, <1>2 DEF TypeOK
<1>4. DOMAIN groups' = {} /\ DOMAIN futures' = {} /\ 1..grouped' = {} /\ 1..joined' = {}
  BY <1>1
<1>5. Grouped(query, grouped, groups)'
  BY <1>4 DEF Grouped
<1>6. PhaseInv' /\ ReplyInv' /\ AnswerInv'
  BY <1>1, <1>4 DEF PhaseInv, ReplyInv, AnswerInv
<1> QED
  BY <1>3, <1>5, <1>6 DEF RequestInv

LEMMA GroupSelectionKeeps ==
  ASSUME RequestInv, GroupSelection
  PROVE  RequestInv'
<1> DEFINE sel == query[grouped + 1]
           s == OwnerOf(sel)
<1>1. /\ phase = "plan" /\ futures = <<>> /\ TypeOK /\ Grouped(query, grouped, groups)
      /\ grouped < Len(query) /\ sel.field \in DOMAIN Owner /\ grouped' = grouped + 1
      /\ UNCHANGED <<phase, query, futures, joined, response>>
  BY DEF RequestInv, GroupSelection, NextSelection, PhaseInv
<1>2. /\ grouped + 1 \in DOMAIN query /\ grouped \in Nat /\ query \in Seq(Selection)
      /\ groups \in GroupType
  BY <1>1, Shapes
<1>3. groups' \in GroupType /\ Grouped(query, grouped + 1, groups')
  <2>1. CASE \E i \in DOMAIN groups : groups[i].subgraph = s
    <3> DEFINE with == GroupsOf(s)
    <3>1. with # {} /\ \A i \in DOMAIN groups : i \in with <=> groups[i].subgraph = s
      BY <2>1 DEF GroupsOf
    <3>2. groups' = [i \in DOMAIN groups |->
                       IF i \in with
                       THEN [groups[i] EXCEPT !.selections = Append(@, sel)] ELSE groups[i]]
      BY <3>1 DEF GroupSelection, NextSelection, OwnerOf
    <3> HIDE DEF with
    <3>3. groups' = [i \in DOMAIN groups |->
                       IF groups[i].subgraph = s
                       THEN [groups[i] EXCEPT !.selections = Append(@, sel)] ELSE groups[i]]
      BY ONLY <3>1, <3>2
    <3> QED
      BY <1>1, <1>2, <2>1, <3>3, SameGroup
  <2>2. CASE \A i \in DOMAIN groups : groups[i].subgraph # s
    <3>1. groups' = Append(groups, [subgraph |-> s, selections |-> <<sel>>])
      BY <2>2 DEF GroupSelection, GroupsOf, NextSelection, OwnerOf
    <3> QED
      BY <1>1, <1>2, <2>2, <3>1, NewGroup
  <2> QED
    BY <2>1, <2>2
<1>4. TypeOK'
  <2>1. Len(groups') \in Nat /\ Len(futures') = 0 /\ grouped' \in 0..Len(query')
    BY <1>1, <1>2, <1>3 DEF GroupType
  <2> QED
    BY <1>1, <1>3, <2>1 DEF TypeOK, GroupType
<1>5. 1..joined' = {} /\ DOMAIN futures' = {}
  BY <1>1, Shapes
<1>6. PhaseInv' /\ ReplyInv' /\ AnswerInv'
  BY <1>1, <1>5 DEF PhaseInv, ReplyInv, AnswerInv
<1> QED
  BY <1>1, <1>3, <1>4, <1>6 DEF RequestInv

LEMMA PlanFailsKeeps ==
  ASSUME RequestInv, PlanFails
  PROVE  RequestInv'
<1>1. /\ phase = "plan" /\ futures = <<>> /\ TypeOK
      /\ phase' = "answered" /\ response' = [status |-> 400, data |-> <<>>, errors |-> {}]
      /\ UNCHANGED <<query, grouped, groups, futures, joined>>
  BY DEF RequestInv, PlanFails, Reject, PhaseInv
<1>2. response' \in Response /\ response'.status = 400
  BY <1>1, NoDataType DEF Response
<1>3. TypeOK'
  BY <1>1, <1>2 DEF TypeOK
<1>4. 1..joined' = {} /\ DOMAIN futures' = {}
  BY <1>1, Shapes
<1>5. PhaseInv' /\ ReplyInv' /\ AnswerInv'
  BY <1>1, <1>2, <1>4 DEF PhaseInv, ReplyInv, AnswerInv
<1> QED
  BY <1>1, <1>3, <1>5 DEF RequestInv

LEMMA ThreadKeeps ==
  ASSUME RequestInv, PlanReady \/ AllSubmitted \/ Join
  PROVE  RequestInv'
<1>1. /\ phase' # "answered" /\ phase' \notin {"idle", "plan"}
      /\ UNCHANGED <<query, grouped, groups, futures, response>>
  BY DEF PlanReady, AllSubmitted, Join
<1>2. /\ joined' \in 0..Len(futures) /\ \A i \in 1..joined' : futures[i].state = "done"
      /\ phase' \in {"fanOut", "fanIn"} /\ grouped = Len(query)
      /\ \A i \in DOMAIN groups : groups[i].subgraph \in HasUrl
      /\ phase' = "fanIn" => Len(futures) = Len(groups)
  <2>1. CASE Join
    <3>1. joined + 1 \in 0..Len(futures) /\ 1..joined + 1 = 1..joined \cup {joined + 1}
      BY <2>1, Shapes DEF RequestInv, Join
    <3> QED
      BY <2>1, <3>1 DEF RequestInv, Join, PhaseInv
  <2>2. CASE PlanReady \/ AllSubmitted
    BY <2>2, Shapes DEF RequestInv, PlanReady, AllSubmitted, PhaseInv, TypeOK
  <2> QED
    BY <2>1, <2>2
<1>3. TypeOK'
  BY <1>1, <1>2 DEF RequestInv, TypeOK
<1>4. PhaseInv' /\ ReplyInv' /\ AnswerInv'
  BY <1>1, <1>2 DEF RequestInv, PhaseInv, ReplyInv, AnswerInv
<1> QED
  BY <1>1, <1>3, <1>4 DEF RequestInv

LEMMA SubmitKeeps ==
  ASSUME RequestInv, Submit
  PROVE  RequestInv'
<1>1. /\ phase = "fanOut" /\ TypeOK /\ grouped = Len(query) /\ Len(futures) < Len(groups)
      /\ futures' = Append(futures, Queued)
      /\ UNCHANGED <<phase, query, grouped, groups, joined, response>>
  BY DEF RequestInv, Submit, PhaseInv
<1>2. Queued \in FutureType /\ Queued.state = "queued"
  BY DEF Queued, FutureType
<1> HIDE DEF Queued
<1>3. /\ futures' \in Seq(FutureType) /\ Len(futures') = Len(futures) + 1
      /\ futures'[Len(futures) + 1] = Queued
      /\ \A i \in 1..Len(futures) : futures'[i] = futures[i]
      /\ DOMAIN futures' = 1..Len(futures) + 1 /\ DOMAIN futures = 1..Len(futures)
  BY <1>1, <1>2, Shapes
<1>4. /\ 1..Len(futures) + 1 = 1..Len(futures) \cup {Len(futures) + 1}
      /\ Len(futures') <= Len(groups) /\ joined \in 0..Len(futures')
      /\ 1..joined \subseteq 1..Len(futures)
  BY <1>1, <1>3, Shapes
<1>5. TypeOK'
  BY <1>1, <1>3, <1>4 DEF TypeOK, FutureType
<1>6. PhaseInv' /\ AnswerInv'
  BY <1>1, <1>3, <1>4 DEF RequestInv, PhaseInv, AnswerInv
<1>7. ReplyInv'
  BY <1>1, <1>2, <1>3, <1>4 DEF RequestInv, ReplyInv
<1> QED
  BY <1>1, <1>5, <1>6, <1>7 DEF RequestInv
(* Only the future of a call that is not done can change, and there is     *)
(* none once the request is answered.                                      *)
LEMMA FutureChanges ==
  ASSUME RequestInv, NEW i \in DOMAIN futures, futures[i].state # "done",
         NEW future \in FutureType, futures' = [futures EXCEPT ![i] = future],
         UNCHANGED <<phase, query, grouped, groups, joined, response>>,
         future.state = "done" =>
           future.reply \in Replies(groups[i]) /\ future.result = ResultOf(groups[i], future.reply)
  PROVE  RequestInv'
<1>1. /\ DOMAIN futures' = DOMAIN futures /\ futures'[i] = future
      /\ \A j \in DOMAIN futures \ {i} : futures'[j] = futures[j]
      /\ futures' \in Seq(FutureType) /\ Len(futures') = Len(futures)
  BY Shapes DEF RequestInv
<1>2. futures # <<>> /\ phase # "answered"
  <2>1. futures # <<>>
    OBVIOUS
  <2> QED
    BY <2>1 DEF RequestInv, AnswerInv
<1>3. TypeOK'
  BY <1>1 DEF RequestInv, TypeOK, FutureType
<1>4. PhaseInv'
  <2>1. i \notin 1..joined /\ 1..joined \subseteq DOMAIN futures
    <3>1. i \notin 1..joined
      BY DEF RequestInv, PhaseInv
    <3>2. /\ joined \in Nat /\ Len(futures) \in Nat /\ joined <= Len(futures)
          /\ DOMAIN futures = 1..Len(futures)
      BY Shapes DEF RequestInv
    <3> QED
      BY <3>1, <3>2
  <2>2. \A j \in 1..joined : futures'[j].state = "done"
    BY <1>1, <2>1 DEF RequestInv, PhaseInv
  <2> QED
    BY <1>1, <1>2, <2>2 DEF RequestInv, PhaseInv
<1>5. ReplyInv'
  BY <1>1 DEF RequestInv, ReplyInv
<1>6. AnswerInv'
  BY <1>2 DEF AnswerInv
<1> QED
  BY <1>3, <1>4, <1>5, <1>6 DEF RequestInv

LEMMA CallKeeps ==
  ASSUME RequestInv, NEW i \in Slots, Send(i) \/ Complete(i)
  PROVE  RequestInv'
<1>1. /\ i \in DOMAIN futures /\ futures[i].state # "done"
      /\ UNCHANGED <<phase, query, grouped, groups, joined, response>>
  BY DEF Send, Complete
<1>2. i \in DOMAIN groups /\ futures[i] \in FutureType
  BY <1>1, Shapes DEF RequestInv
<1>3. CASE Send(i)
  <2> DEFINE future == [futures[i] EXCEPT !.state = "sent"]
  <2>1. future \in FutureType /\ future.state = "sent"
    BY <1>2 DEF FutureType
  <2>2. futures' = [futures EXCEPT ![i] = future]
    BY <1>3 DEF Send
  <2> HIDE DEF future
  <2> QED
    BY <1>1, <2>1, <2>2, FutureChanges
<1>4. CASE Complete(i)
  <2>1. PICK reply \in Replies(groups[i]) :
          futures' = [futures EXCEPT ![i] = [state |-> "done", reply |-> reply,
                                             result |-> ResultOf(groups[i], reply)]]
    BY <1>4 DEF Complete
  <2> DEFINE result == ResultOf(groups[i], reply)
             future == [state |-> "done", reply |-> reply, result |-> result]
  <2>2. reply \in Reply /\ result \in Result
    BY <1>2, GroupAt, ResultFacts DEF RequestInv
  <2> HIDE DEF result
  <2>3. future \in FutureType /\ future.reply = reply /\ future.result = result
    BY <2>2 DEF FutureType
  <2>4. futures' = [futures EXCEPT ![i] = future]
    BY <2>1 DEF result
  <2> HIDE DEF future
  <2> QED
    BY <1>1, <2>3, <2>4, FutureChanges DEF result
<1> QED
  BY <1>3, <1>4

(* What is merged comes from the results, each key from one of them.       *)
LEMMA MergedFromResults ==
  ASSUME TypeOK, NEW k \in UNION {DOMAIN ResultAt(i).data : i \in DOMAIN futures}
  PROVE  \E i \in DOMAIN futures :
           k \in DOMAIN ResultAt(i).data /\ MergedData[k] = ResultAt(i).data[k]
<1> DEFINE with(x) == {i \in DOMAIN futures : x \in DOMAIN ResultAt(i).data}
           last(x) == CHOOSE i \in with(x) : \A j \in with(x) : j <= i
           data(i) == ResultAt(i).data
<1>1. with(k) # {} /\ with(k) \in SUBSET (1..Len(futures)) /\ Len(futures) \in Nat
  BY Shapes
<1>2. \E i \in with(k) : \A j \in with(k) : j <= i
  BY <1>1, GreatestOf
<1>3. last(k) \in with(k)
  BY <1>2
<1>4. MergedData[k] = data(last(k))[k]
  BY DEF MergedData
<1> HIDE DEF last
<1> QED
  BY <1>3, <1>4

LEMMA MergeKeeps ==
  ASSUME RequestInv, Merge
  PROVE  RequestInv'
<1>1. /\ phase = "fanIn" /\ phase' = "answered" /\ joined = Len(futures) /\ response' = Merged
      /\ UNCHANGED <<query, grouped, groups, futures, joined>>
      /\ TypeOK /\ grouped = Len(query) /\ Len(futures) = Len(groups)
      /\ \A i \in DOMAIN futures : futures[i].state = "done"
  BY Shapes DEF RequestInv, Merge, AllJoined, PhaseInv
<1>2. \A i \in DOMAIN futures : ResultAt(i) \in Result
  <2> TAKE i \in DOMAIN futures
  <2>1. i \in DOMAIN groups
    BY <1>1, Shapes
  <2> QED
    BY <1>1, <2>1, GroupAt, ResultFacts DEF RequestInv, ReplyInv, ResultAt
<1>3. PhaseInv' /\ ReplyInv'
  BY <1>1 DEF RequestInv, PhaseInv, ReplyInv
<1>4. CASE \E i \in DOMAIN futures : ResultAt(i).data = Null
  <2>1. response' = [status |-> 500, data |-> <<>>, errors |-> {}]
    BY <1>1, <1>4 DEF Merged
  <2>2. response' \in Response /\ response'.status = 500
    BY <2>1, NoDataType DEF Response
  <2>3. TypeOK'
    BY <1>1, <2>2 DEF TypeOK
  <2>4. AnswerInv'
    BY <1>1, <1>4, <2>2 DEF AnswerInv, ResultAt
  <2> QED
    BY <1>1, <1>3, <2>3, <2>4 DEF RequestInv
<1>5. CASE \A i \in DOMAIN futures : ResultAt(i).data # Null
  <2> DEFINE K == UNION {DOMAIN ResultAt(i).data : i \in DOMAIN futures}
             data(i) == ResultAt(i).data
  <2>1. /\ response' = [status |-> 200, data |-> MergedData, errors |-> MergedErrors]
        /\ response'.status = 200 /\ response'.data = MergedData /\ response'.errors = MergedErrors
    BY <1>1, <1>5 DEF Merged
  <2>2. MergedData = [k \in K |-> MergedData[k]]
    BY DEF MergedData
  <2>3. \A k \in K : \E i \in DOMAIN futures : k \in DOMAIN data(i) /\ MergedData[k] = data(i)[k]
    BY <1>1, MergedFromResults
  <2>4. \A i \in DOMAIN futures : /\ DOMAIN data(i) \subseteq ResponseKeys
                                  /\ \A k \in DOMAIN data(i) : data(i)[k] \in Fields \cup {Null}
    <3> TAKE i \in DOMAIN futures
    <3>1. data(i) \in Data
      BY <1>2, <1>5 DEF Result
    <3> HIDE DEF data
    <3>2. PICK J \in SUBSET ResponseKeys : data(i) \in [J -> Fields \cup {Null}]
      BY <3>1 DEF Data
    <3> QED
      BY <3>2
  <2>5. K \subseteq ResponseKeys
    BY <2>4
  <2> HIDE DEF K
  <2>6. MergedData \in [K -> Fields \cup {Null}]
    <3>1. \A k \in K : MergedData[k] \in Fields \cup {Null}
      BY ONLY <2>3, <2>4
    <3> QED
      BY ONLY <2>2, <3>1
  <2>7. MergedData \in Data
    BY <2>5, <2>6 DEF Data
  <2>8. MergedErrors \subseteq Subgraphs
    <3>1. \A i \in DOMAIN futures : groups[i].subgraph \in Subgraphs
      BY <1>1, Shapes, GroupAt
    <3> QED
      BY <3>1 DEF MergedErrors
  <2>9. response' \in Response
    BY <2>1, <2>7, <2>8 DEF Response
  <2>10. TypeOK'
    BY <1>1, <2>9 DEF TypeOK
  <2>11. /\ \A i \in DOMAIN futures : ResultAt(i)' = ResultAt(i)
         /\ MergedErrors' = MergedErrors
    BY <1>1 DEF ResultAt, MergedErrors
  <2>12. FullAnswer'
    <3>1. DOMAIN response'.data = K
      BY <2>1, <2>2
    <3>2. UNION {DOMAIN ResultAt(i)'.data : i \in DOMAIN futures} = K
      BY <2>11 DEF K
    <3>3. \A i \in DOMAIN futures : ResultAt(i)'.data # Null
      BY <1>5, <2>11
    <3>4. \A k \in K : \E i \in DOMAIN futures :
            k \in DOMAIN ResultAt(i)'.data /\ response'.data[k] = ResultAt(i)'.data[k]
      BY <2>1, <2>3, <2>11
    <3> QED
      BY <1>1, <2>1, <2>11, <3>1, <3>2, <3>3, <3>4 DEF FullAnswer
  <2>13. AnswerInv'
    BY <1>1, <2>12 DEF AnswerInv
  <2> QED
    BY <1>1, <1>3, <2>10, <2>13 DEF RequestInv
<1> QED
  BY <1>4, <1>5

LEMMA RequestInvStep == RequestInv /\ [Next]_vars => RequestInv'
<1> SUFFICES ASSUME RequestInv, [Next]_vars PROVE RequestInv'
  OBVIOUS
<1>1. CASE UNCHANGED vars
  <2>1. UNCHANGED <<phase, query, grouped, groups, futures, joined, response>>
    BY <1>1 DEF vars
  <2>2. TypeOK' /\ Grouped(query, grouped, groups)' /\ PhaseInv' /\ ReplyInv'
    BY <2>1 DEF RequestInv, TypeOK, PhaseInv, ReplyInv
  <2>3. AnswerInv'
    BY <2>1 DEF RequestInv, AnswerInv, FullAnswer, MergedErrors, ResultAt
  <2> QED
    BY <2>2, <2>3 DEF RequestInv
<1>2. ASSUME NEW q \in Queries, Handle(q) PROVE RequestInv'
  BY <1>2, HandleKeeps
<1>3. CASE GroupSelection
  BY <1>3, GroupSelectionKeeps
<1>4. CASE PlanFails
  BY <1>4, PlanFailsKeeps
<1>5. CASE PlanReady \/ AllSubmitted \/ Join
  BY <1>5, ThreadKeeps
<1>6. CASE Submit
  BY <1>6, SubmitKeeps
<1>7. CASE Merge
  BY <1>7, MergeKeeps
<1>8. ASSUME NEW i \in Slots, Send(i) \/ Complete(i) PROVE RequestInv'
  BY <1>8, CallKeeps
<1> QED
  BY <1>1, <1>2, <1>3, <1>4, <1>5, <1>6, <1>7, <1>8 DEF Next, RequestStep

LEMMA RequestInvAlways == Spec => []RequestInv
<1> QED
  BY InitRequest, RequestInvStep, PTL DEF Spec
-----------------------------------------------------------------------------
(* What the invariant says of a plan that is complete.                     *)

LEMMA GroupHolds ==
  ASSUME RequestInv, NEW i \in DOMAIN groups
  PROVE  /\ \A m \in DOMAIN groups[i].selections : \E p \in 1..grouped :
              groups[i].selections[m] = query[p] /\ OwnerOf(query[p]) = groups[i].subgraph
         /\ \A p \in 1..grouped : OwnerOf(query[p]) = groups[i].subgraph =>
              \E m \in DOMAIN groups[i].selections : groups[i].selections[m] = query[p]
<1> DEFINE g == groups[i]
           P == {p \in 1..grouped : OwnerOf(query[p]) = g.subgraph}
<1>1. Picks(g.selections, query, P)
  BY DEF RequestInv, Grouped
<1>2. PICK at \in [DOMAIN g.selections -> P] :
        /\ P = {at[m] : m \in DOMAIN g.selections}
        /\ \A m \in DOMAIN g.selections : g.selections[m] = query[at[m]]
  BY <1>1 DEF Picks
<1>3. \A m \in DOMAIN g.selections : at[m] \in P
  BY <1>2
<1> QED
  BY <1>2, <1>3

LEMMA OneGroupEach ==
  ASSUME RequestInv, NEW i \in DOMAIN groups, NEW j \in DOMAIN groups,
         groups[i].subgraph = groups[j].subgraph
  PROVE  i = j
<1>1. PICK p \in 1..grouped : FirstAt(query, groups[i].subgraph, p)
  BY DEF RequestInv, Grouped
<1>2. ~(i < j) /\ ~(j < i)
  <2>1. ~(p < p)
    BY Shapes DEF RequestInv
  <2> QED
    BY <1>1, <2>1 DEF RequestInv, Grouped
<1> QED
  BY <1>2, Shapes DEF RequestInv

LEMMA FirstUseIsFirst ==
  ASSUME RequestInv, NEW s, NEW p \in 1..grouped, FirstAt(query, s, p)
  PROVE  FirstUse(s) = p
<1> DEFINE First(i) == OwnerOf(query[i]) = s /\ \A j \in DOMAIN query : OwnerOf(query[j]) = s => i <= j
<1>1. DOMAIN query = 1..Len(query) /\ Len(query) \in Nat /\ p \in 1..Len(query) /\ p \in DOMAIN query
  BY Shapes DEF RequestInv
<1>2. First(p)
  <2>1. \A j \in DOMAIN query : OwnerOf(query[j]) = s => j \notin 1..p - 1
    BY DEF FirstAt
  <2>2. \A j \in DOMAIN query : j \notin 1..p - 1 => p <= j
    BY <1>1
  <2> QED
    BY <2>1, <2>2 DEF FirstAt
<1>3. \A i \in DOMAIN query : First(i) => i = p
  <2>1. \A i \in DOMAIN query : First(i) => i <= p /\ p <= i
    BY <1>1, <1>2
  <2>2. \A i \in DOMAIN query : i <= p /\ p <= i => i = p
    BY ONLY <1>1
  <2> QED
    BY <2>1, <2>2
<1>4. FirstUse(s) = CHOOSE i \in DOMAIN query : First(i)
  BY Zenon DEF FirstUse
<1> HIDE DEF First
<1> QED
  BY <1>1, <1>2, <1>3, <1>4

(* The planner's rounds amount to grouping by owner (QueryPlanner.java:46  *)
(* to 59): one group per subgraph, in the order in which subgraphs first   *)
(* come up, each with the subgraph's selections in query order.            *)
THEOREM PlanIsGroupByOwner == Spec => []PlanMatchesQuery
<1>1. RequestInv => PlanMatchesQuery
  <2> SUFFICES ASSUME RequestInv, phase \in {"fanOut", "fanIn"}
               PROVE  /\ \A sel \in Asked : sel.field \in DOMAIN Owner /\ OwnerOf(sel) \in HasUrl
                      /\ {groups[i].subgraph : i \in DOMAIN groups} = {OwnerOf(sel) : sel \in Asked}
                      /\ \A i, j \in DOMAIN groups :
                           i < j => FirstUse(groups[i].subgraph) < FirstUse(groups[j].subgraph)
                      /\ \A i \in DOMAIN groups :
                           Picks(groups[i].selections, query,
                                 {n \in DOMAIN query : OwnerOf(query[n]) = groups[i].subgraph})
    BY DEF PlanMatchesQuery
  <2>1. Grouped(query, grouped, groups) /\ DOMAIN query = 1..grouped
    BY Shapes DEF RequestInv, PhaseInv
  <2>2. {groups[i].subgraph : i \in DOMAIN groups} = {OwnerOf(sel) : sel \in Asked}
    <3>1. {OwnerOf(query[p]) : p \in 1..grouped} = {OwnerOf(sel) : sel \in Asked}
      BY <2>1 DEF Asked
    <3> QED
      BY <2>1, <3>1 DEF Grouped
  <2>3. ASSUME NEW i \in DOMAIN groups, NEW j \in DOMAIN groups, i < j
        PROVE  FirstUse(groups[i].subgraph) < FirstUse(groups[j].subgraph)
    <3>1. PICK m \in 1..grouped : FirstAt(query, groups[i].subgraph, m)
      BY <2>1 DEF Grouped
    <3>2. PICK p \in 1..grouped : FirstAt(query, groups[j].subgraph, p)
      BY <2>1 DEF Grouped
    <3>3. m < p
      BY <2>1, <2>3, <3>1, <3>2 DEF Grouped
    <3> QED
      BY <3>1, <3>2, <3>3, FirstUseIsFirst
  <2>4. \A i \in DOMAIN groups :
          Picks(groups[i].selections, query,
                {n \in DOMAIN query : OwnerOf(query[n]) = groups[i].subgraph})
    BY <2>1 DEF Grouped
  <2>5. ASSUME NEW sel \in Asked PROVE sel.field \in DOMAIN Owner /\ OwnerOf(sel) \in HasUrl
    <3>1. sel.field \in DOMAIN Owner
      BY <2>1 DEF Asked, Grouped
    <3>2. PICK i \in DOMAIN groups : groups[i].subgraph = OwnerOf(sel)
      BY <2>2
    <3> QED
      BY <3>1, <3>2 DEF RequestInv, PhaseInv
  <2> QED
    BY <2>2, <2>3, <2>4, <2>5
<1> QED
  BY <1>1, RequestInvAlways, PTL

-----------------------------------------------------------------------------
(* The answer.                                                             *)

(* Where keys agree, a key belongs to one group and asks for one field.    *)
LEMMA KeysOfGroups ==
  ASSUME RequestInv, KeysAgree(query), grouped = Len(query),
         NEW i \in DOMAIN groups, NEW k \in Keys(groups[i])
  PROVE  /\ \E sel \in Asked : sel.key = k
         /\ \A sel \in Asked : sel.key = k =>
              FieldsAt(groups[i], k) = {sel.field} /\ OwnerOf(sel) = groups[i].subgraph
         /\ \A j \in DOMAIN groups : k \in Keys(groups[j]) => j = i
<1> DEFINE g == groups[i]
<1>1. DOMAIN query = 1..grouped
  BY Shapes DEF RequestInv
<1>2. PICK m \in DOMAIN g.selections : g.selections[m].key = k
  BY DEF Keys
<1>3. PICK p \in DOMAIN query : query[p] = g.selections[m] /\ OwnerOf(query[p]) = g.subgraph
  BY <1>1, GroupHolds
<1>4. query[p] \in Asked /\ query[p].key = k
  BY <1>2, <1>3 DEF Asked
<1>5. ASSUME NEW j \in DOMAIN groups, NEW n \in DOMAIN groups[j].selections,
             groups[j].selections[n].key = k
      PROVE  groups[j].selections[n].field = query[p].field /\ j = i
  <2>1. PICK r \in DOMAIN query : query[r] = groups[j].selections[n] /\ OwnerOf(query[r]) = groups[j].subgraph
    BY <1>1, GroupHolds
  <2>2. query[r].field = query[p].field
    BY <1>4, <1>5, <2>1 DEF KeysAgree
  <2>3. OwnerOf(query[r]) = OwnerOf(query[p])
    BY <2>2 DEF OwnerOf
  <2> QED
    BY <1>3, <2>1, <2>2, <2>3, OneGroupEach
<1>6. \A sel \in Asked : sel.key = k => sel.field = query[p].field /\ OwnerOf(sel) = OwnerOf(query[p])
  BY <1>4 DEF Asked, KeysAgree, OwnerOf
<1>7. FieldsAt(g, k) = {query[p].field}
  <2>1. \A n \in DOMAIN g.selections : g.selections[n].key = k => g.selections[n].field = query[p].field
    BY <1>5
  <2>2. g.selections[m].field = query[p].field
    BY <1>3
  <2> QED
    BY <1>2, <2>1, <2>2 DEF FieldsAt
<1>8. \A j \in DOMAIN groups : k \in Keys(groups[j]) => j = i
  BY <1>5 DEF Keys
<1> QED
  BY <1>3, <1>4, <1>6, <1>7, <1>8

(* A key of a full answer comes from the group that asked for it, with the *)
(* value its subgraph gave.                                                *)
LEMMA KeysOfAnswer ==
  ASSUME RequestInv, KeysAgree(query), phase = "answered", response.status = 200,
         NEW i \in DOMAIN futures
  PROVE  /\ FullAnswer /\ grouped = Len(query) /\ DOMAIN futures = DOMAIN groups
         /\ futures[i].reply \in Replies(groups[i])
         /\ ResultAt(i) = ResultOf(groups[i], futures[i].reply)
         /\ groups[i].selections \in Seq(Selection)
         /\ futures[i].reply.kind # "nullData"
         /\ \A k \in Keys(groups[i]) :
              /\ futures[i].reply.kind = "fields" =>
                   k \in DOMAIN response.data /\ response.data[k] = ResultAt(i).data[k]
              /\ k \in DOMAIN response.data => futures[i].reply.kind = "fields"
<1>1. /\ FullAnswer /\ grouped = Len(query) /\ DOMAIN futures = DOMAIN groups
      /\ \A j \in DOMAIN futures : futures[j].state = "done"
  <2>1. response.status # 400 /\ response.status # 500
    OBVIOUS
  <2> QED
    BY <2>1, Shapes DEF RequestInv, AnswerInv
<1>2. \A j \in DOMAIN futures : /\ futures[j].reply \in Replies(groups[j])
                                /\ ResultAt(j) = ResultOf(groups[j], futures[j].reply)
                                /\ groups[j].selections \in Seq(Selection)
  BY <1>1, GroupAt DEF RequestInv, ReplyInv, ResultAt
<1>3. \A j \in DOMAIN futures :
        /\ futures[j].reply.kind # "nullData"
        /\ DOMAIN ResultAt(j).data = IF futures[j].reply.kind = "fields" THEN Keys(groups[j]) ELSE {}
  <2> TAKE j \in DOMAIN futures
  <2>1. futures[j].reply.kind # "nullData"
    BY <1>1, <1>2, ResultFacts DEF FullAnswer
  <2>2. CASE futures[j].reply.kind = "fields"
    BY <1>2, <2>1, <2>2, ResultFacts
  <2>3. CASE futures[j].reply.kind # "fields"
    <3>1. ResultAt(j) = Failed
      BY <1>2, <2>1, <2>3, ResultFacts
    <3> QED
      BY <2>1, <2>3, <3>1, NoDataType DEF Failed
  <2> QED
    BY <2>2, <2>3
<1>4. ASSUME NEW k \in Keys(groups[i]), k \in DOMAIN response.data
      PROVE  futures[i].reply.kind = "fields" /\ response.data[k] = ResultAt(i).data[k]
  <2>1. PICK j \in DOMAIN futures : k \in DOMAIN ResultAt(j).data /\ response.data[k] = ResultAt(j).data[k]
    BY <1>1, <1>4 DEF FullAnswer
  <2>2. futures[j].reply.kind = "fields" /\ k \in Keys(groups[j])
    BY <1>3, <2>1
  <2>3. j = i
    BY <1>1, <2>2, KeysOfGroups
  <2> QED
    BY <2>1, <2>2, <2>3
<1>5. ASSUME NEW k \in Keys(groups[i]), futures[i].reply.kind = "fields"
      PROVE  k \in DOMAIN response.data
  BY <1>1, <1>3, <1>5 DEF FullAnswer
<1> QED
  BY <1>1, <1>2, <1>3, <1>4, <1>5
(* An answer leaves no field in silence, whatever the subgraphs replied,   *)
(* as long as no key of the query asks for two fields at once.             *)
THEOREM NoFieldInSilence == Spec => [](KeysAgree(query) => AnsweredOrExplained)
<1>1. RequestInv /\ KeysAgree(query) => AnsweredOrExplained
  <2> SUFFICES ASSUME RequestInv, KeysAgree(query), phase = "answered", response.status = 200
               PROVE  /\ DOMAIN response.data \subseteq {sel.key : sel \in Asked}
                      /\ \A sel \in Asked :
                           \/ sel.key \in DOMAIN response.data /\ response.data[sel.key] = sel.field
                           \/ /\ OwnerOf(sel) \in response.errors
                              /\ sel.key \in DOMAIN response.data => response.data[sel.key] = Null
    BY DEF AnsweredOrExplained, Answered
  <2>1. DOMAIN response.data \subseteq {sel.key : sel \in Asked}
    <3> SUFFICES ASSUME NEW k \in DOMAIN response.data
                 PROVE  \E sel \in Asked : sel.key = k
      OBVIOUS
    <3>1. FullAnswer
      <4>1. response.status # 400 /\ response.status # 500
        OBVIOUS
      <4> QED
        BY <4>1 DEF RequestInv, AnswerInv
    <3>2. PICK i \in DOMAIN futures : k \in DOMAIN ResultAt(i).data
      BY <3>1 DEF FullAnswer
    <3>3. k \in Keys(groups[i]) /\ i \in DOMAIN groups /\ grouped = Len(query)
      <4>1. CASE futures[i].reply.kind = "fields"
        BY <3>2, <4>1, KeysOfAnswer, ResultFacts
      <4>2. CASE futures[i].reply.kind # "fields"
        <5>1. ResultAt(i) = Failed
          BY <4>2, KeysOfAnswer, ResultFacts
        <5> QED
          BY <3>2, <5>1, NoDataType DEF Failed
      <4> QED
        BY <4>1, <4>2
    <3> QED
      BY <3>3, KeysOfGroups
  <2>2. ASSUME NEW sel \in Asked
        PROVE  \/ sel.key \in DOMAIN response.data /\ response.data[sel.key] = sel.field
               \/ /\ OwnerOf(sel) \in response.errors
                  /\ sel.key \in DOMAIN response.data => response.data[sel.key] = Null
    <3> DEFINE k == sel.key
    <3>1. grouped = Len(query) /\ DOMAIN futures = DOMAIN groups /\ FullAnswer
      <4>1. response.status # 400 /\ response.status # 500
        OBVIOUS
      <4> QED
        BY <4>1, Shapes DEF RequestInv, AnswerInv
    <3>2. PICK p \in 1..grouped : sel = query[p]
      BY <3>1, Shapes DEF RequestInv, Asked
    <3>3. PICK i \in DOMAIN groups : groups[i].subgraph = OwnerOf(sel)
      <4>1. {groups[j].subgraph : j \in DOMAIN groups} = {OwnerOf(query[n]) : n \in 1..grouped}
        BY DEF RequestInv, Grouped
      <4>2. OwnerOf(sel) \in {OwnerOf(query[n]) : n \in 1..grouped}
        BY <3>2
      <4>3. OwnerOf(sel) \in {groups[j].subgraph : j \in DOMAIN groups}
        BY <4>1, <4>2
      <4> QED
        BY <4>3
    <3>4. k \in Keys(groups[i])
      BY <3>2, <3>3, GroupHolds DEF Keys
    <3>5. FieldsAt(groups[i], k) = {sel.field}
      BY <3>1, <3>4, KeysOfGroups
    <3> DEFINE reply == futures[i].reply
               result == ResultAt(i)
    <3>6. /\ reply \in Replies(groups[i]) /\ result = ResultOf(groups[i], reply)
          /\ groups[i].selections \in Seq(Selection) /\ reply.kind # "nullData"
          /\ reply.kind = "fields" => k \in DOMAIN response.data /\ response.data[k] = result.data[k]
          /\ k \in DOMAIN response.data => reply.kind = "fields"
      BY <3>1, <3>4, KeysOfAnswer
    <3>7. result.failed => OwnerOf(sel) \in response.errors
      BY <3>1, <3>3 DEF FullAnswer, MergedErrors
    <3> HIDE DEF k, reply, result
    <3>8. CASE reply.kind # "fields"
      <4>1. result = Failed
        BY <3>6, <3>8, ResultFacts
      <4>2. result.failed
        BY <4>1 DEF Failed
      <4> QED
        BY <3>6, <3>7, <3>8, <4>2 DEF k
    <3>9. CASE reply.kind = "fields" /\ k \in reply.nulls
      <4>1. result.failed = (reply.nulls # {}) /\ result.data[k] = Null
        BY <3>4, <3>6, <3>9, ResultFacts
      <4> QED
        BY <3>6, <3>7, <3>9, <4>1 DEF k
    <3>10. CASE reply.kind = "fields" /\ k \notin reply.nulls
      <4>1. result.data[k] \in FieldsAt(groups[i], k)
        BY <3>4, <3>6, <3>10, ResultFacts
      <4> QED
        BY <3>5, <3>6, <3>10, <4>1 DEF k
    <3> QED
      BY <3>8, <3>9, <3>10
  <2> QED
    BY <2>1, <2>2
<1> QED
  BY <1>1, RequestInvAlways, PTL

(* What a subgraph answered is in the answer, whatever became of the other *)
(* subgraphs, unless one of them sent null data, which ends in a 500.      *)
THEOREM SurvivorsArrive == Spec => [](KeysAgree(query) /\ NoNullData => SurvivorsReported)
<1>1. RequestInv /\ KeysAgree(query) /\ NoNullData => SurvivorsReported
  <2> SUFFICES ASSUME RequestInv, KeysAgree(query), NoNullData, phase = "answered",
                      NEW i \in DOMAIN futures, futures[i].reply.kind = "fields",
                      NEW k \in Keys(groups[i]) \ futures[i].reply.nulls
               PROVE  k \in DOMAIN response.data /\ response.data[k] \in FieldsAt(groups[i], k)
    BY DEF SurvivorsReported
  <2>1. response.status = 200
    <3>1. futures # <<>>
      OBVIOUS
    <3>2. ASSUME NEW j \in DOMAIN futures, futures[j].state = "done", DOMAIN futures = DOMAIN groups
          PROVE  ResultAt(j).data # Null
      <4>1. /\ ResultAt(j) = ResultOf(groups[j], futures[j].reply) /\ futures[j].reply \in Replies(groups[j])
            /\ groups[j].selections \in Seq(Selection) /\ futures[j].reply.kind # "nullData"
        BY <3>2, GroupAt DEF RequestInv, ReplyInv, ResultAt, NoNullData
      <4>2. CASE futures[j].reply.kind = "fields"
        <5>1. ResultAt(j).data \in Data
          BY <4>1, <4>2, ResultFacts
        <5> QED
          BY <5>1, GraphGatewayAssumption DEF GraphGatewayAssumption
      <4>3. CASE futures[j].reply.kind # "fields"
        <5>1. ResultAt(j) = Failed
          BY <4>1, <4>3, ResultFacts
        <5> QED
          BY <5>1, NoDataType DEF Failed
      <4> QED
        BY <4>2, <4>3
    <3>3. DOMAIN futures = DOMAIN groups /\ \A j \in DOMAIN futures : futures[j].state = "done"
      BY <3>1, Shapes DEF RequestInv, AnswerInv
    <3>4. ~\E j \in DOMAIN futures : ResultAt(j).data = Null
      BY <3>2, <3>3
    <3> QED
      BY <3>1, <3>4 DEF RequestInv, AnswerInv, FullAnswer
  <2>2. /\ k \in DOMAIN response.data /\ response.data[k] = ResultAt(i).data[k]
        /\ futures[i].reply \in Replies(groups[i]) /\ groups[i].selections \in Seq(Selection)
        /\ ResultAt(i) = ResultOf(groups[i], futures[i].reply)
    BY <2>1, KeysOfAnswer
  <2>3. ResultAt(i).data[k] \in FieldsAt(groups[i], k)
    BY <2>2, ResultFacts
  <2> QED
    BY <2>2, <2>3
<1> QED
  BY <1>1, RequestInvAlways, PTL

(* Every variable of the gateway stays in its range, the merged answer     *)
(* included, for any subgraphs and replies.                                *)
THEOREM GatewayTypes == Spec => []TypeOK
<1>1. RequestInv => TypeOK
  BY DEF RequestInv
<1> QED
  BY <1>1, RequestInvAlways, PTL

-----------------------------------------------------------------------------
(* With artwork-dgs and asset-service behind the gateway.                  *)

LEMMA ChainStep == [ChainNext]_allVars => [Next]_vars
<1> SUFFICES ASSUME [ChainNext]_allVars PROVE [Next]_vars
  OBVIOUS
<1>1. CASE UNCHANGED allVars
  BY <1>1 DEF allVars
<1>2. ASSUME NEW q \in Queries, HandleRequest(q) PROVE Next
  BY <1>2 DEF HandleRequest, Next
<1>3. CASE RequestStep /\ UNCHANGED chainVars
  BY <1>3 DEF Next
<1>4. ASSUME NEW i \in Slots, Send(i) \/ CompleteCall(i) PROVE Next
  BY <1>4 DEF Next, CompleteCall
<1>5. ASSUME NEW i \in Slots, FetchStep(i) \/ ConnectionBreaks(i) PROVE UNCHANGED vars
  BY <1>5 DEF FetchStep, CallAsset, FetcherReturns, OnNext, OnCompleted, ConnectionBreaks
<1>6. CASE AssetDies \/ AssetStarts
  BY <1>6 DEF AssetDies, AssetStarts
<1> QED
  BY <1>1, <1>2, <1>3, <1>4, <1>5, <1>6 DEF ChainNext

(* artwork-dgs and asset-service are one of the subgraphs GraphGateway     *)
(* allows, however they fail: what is proved of it holds with them too.    *)
THEOREM ChainImplementsGateway == ChainSpec => Spec
<1>1. ChainInit => Init
  BY DEF ChainInit
<1> QED
  BY <1>1, ChainStep, PTL DEF ChainSpec, Spec
(* A gRPC call is for a field of a group that has been submitted and whose *)
(* fields are not all fetched.                                             *)
CallStates == {"none", "sent", "message", "completed", "unavailable"}
FetchInv ==
  /\ assetUp \in BOOLEAN
  /\ call \in [Slots -> CallStates]
  /\ fetched \in [Slots -> Seq(BOOLEAN)]
  /\ \A i \in Slots : call[i] # "none" =>
       i \in DOMAIN futures /\ Len(fetched[i]) < Len(groups[i].selections)
  /\ \A i \in Slots : fetched[i] # <<>> =>
       i \in DOMAIN futures /\ Len(fetched[i]) <= Len(groups[i].selections)

(* The calls broken off are those that were under way.                     *)
LEMMA BrokenCalls ==
  ASSUME FetchInv, NEW calls, call' = Broken(calls), UNCHANGED <<vars, fetched>>, assetUp' \in BOOLEAN
  PROVE  FetchInv'
<1>1. /\ call' \in [Slots -> CallStates]
      /\ \A i \in Slots : call'[i] # "none" => call[i] # "none"
  BY DEF FetchInv, Broken, CallStates
<1>2. futures' = futures /\ groups' = groups /\ fetched' = fetched
  BY DEF vars
<1> QED
  BY <1>1, <1>2 DEF FetchInv

LEMMA FetchInvStep ==
  ASSUME RequestInv, FetchInv, [ChainNext]_allVars
  PROVE  FetchInv'
<1>1. CASE UNCHANGED allVars
  BY <1>1 DEF allVars, vars, chainVars, FetchInv
<1>2. ASSUME NEW q \in Queries, HandleRequest(q) PROVE FetchInv'
  <2>1. <<>> \in Seq(BOOLEAN)
    OBVIOUS
  <2> QED
    BY <1>2, <2>1 DEF HandleRequest, NoCalls, NothingFetched, FetchInv, CallStates
<1>3. ASSUME UNCHANGED chainVars, groups' = groups,
             DOMAIN futures \subseteq DOMAIN futures'
      PROVE  FetchInv'
  BY <1>3 DEF FetchInv, chainVars
<1>4. CASE RequestStep /\ UNCHANGED chainVars
  <2>1. CASE GroupSelection
    <3>1. DOMAIN futures = {}
      BY <2>1 DEF GroupSelection, RequestInv, PhaseInv
    <3> QED
      BY <1>4, <3>1 DEF FetchInv, chainVars
  <2>2. CASE Submit
    <3>1. DOMAIN futures \subseteq DOMAIN futures'
      <4>1. Len(futures) \in Nat /\ DOMAIN futures = 1..Len(futures) /\ futures \in Seq(FutureType)
        BY Shapes DEF RequestInv
      <4>2. DOMAIN futures' = 1..Len(futures) + 1
        BY <2>2, <4>1 DEF Submit
      <4> QED
        BY <4>1, <4>2
    <3> QED
      BY <1>3, <1>4, <2>2, <3>1 DEF Submit
  <2>3. CASE PlanFails \/ PlanReady \/ AllSubmitted \/ Join \/ Merge
    BY <1>3, <1>4, <2>3 DEF PlanFails, Reject, PlanReady, AllSubmitted, Join, Merge
  <2> QED
    BY <1>4, <2>1, <2>2, <2>3 DEF RequestStep
<1>5. ASSUME NEW i \in Slots, CompleteCall(i) \/ (Send(i) /\ UNCHANGED chainVars)
      PROVE  FetchInv'
  <2>1. groups' = groups /\ DOMAIN futures' = DOMAIN futures /\ UNCHANGED chainVars
    BY <1>5 DEF CompleteCall, Complete, Send
  <2> QED
    BY <1>3, <2>1
<1>6. ASSUME NEW i \in Slots, CallAsset(i) PROVE FetchInv'
  <2>1. /\ i \in DOMAIN futures /\ Len(fetched[i]) # Len(groups[i].selections)
        /\ call' = [call EXCEPT ![i] = IF assetUp THEN "sent" ELSE "unavailable"]
        /\ UNCHANGED <<groups, futures, assetUp, fetched>>
    BY <1>6 DEF CallAsset, Working, ToArtwork, AllFetched, vars
  <2>2. Len(groups[i].selections) \in Nat
    <3>1. i \in DOMAIN groups
      BY <2>1, Shapes DEF RequestInv
    <3> QED
      BY <3>1, GroupAt DEF RequestInv
  <2>3. Len(fetched[i]) < Len(groups[i].selections)
    <3>1. Len(fetched[i]) \in Nat /\ (fetched[i] = <<>> => Len(fetched[i]) = 0)
      BY DEF FetchInv
    <3> QED
      BY <2>1, <2>2, <3>1 DEF FetchInv
  <2>4. call' \in [Slots -> CallStates] /\ \A j \in Slots \ {i} : call'[j] = call[j]
    BY <2>1 DEF FetchInv, CallStates
  <2> QED
    BY <2>1, <2>3, <2>4 DEF FetchInv
<1>7. ASSUME NEW i \in Slots, FetcherReturns(i) PROVE FetchInv'
  <2>1. /\ call[i] # "none" /\ call' = [call EXCEPT ![i] = "none"]
        /\ fetched' = [fetched EXCEPT ![i] = Append(fetched[i], call[i] = "completed")]
        /\ UNCHANGED <<groups, futures, assetUp>>
    BY <1>7 DEF FetcherReturns, vars
  <2>2. i \in DOMAIN futures /\ Len(fetched[i]) < Len(groups[i].selections)
    BY <2>1 DEF FetchInv
  <2>3. Len(groups[i].selections) \in Nat
    <3>1. i \in DOMAIN groups
      BY <2>2, Shapes DEF RequestInv
    <3> QED
      BY <3>1, GroupAt DEF RequestInv
  <2> DEFINE more == Append(fetched[i], call[i] = "completed")
  <2>4. more \in Seq(BOOLEAN) /\ Len(more) = Len(fetched[i]) + 1 /\ Len(fetched[i]) \in Nat
    BY DEF FetchInv
  <2> HIDE DEF more
  <2>5. /\ call' \in [Slots -> CallStates] /\ fetched' \in [Slots -> Seq(BOOLEAN)]
        /\ call'[i] = "none" /\ fetched'[i] = more
        /\ \A j \in Slots \ {i} : call'[j] = call[j] /\ fetched'[j] = fetched[j]
    BY <2>1, <2>4 DEF FetchInv, CallStates, more
  <2>6. Len(more) <= Len(groups[i].selections)
    BY <2>2, <2>3, <2>4
  <2> QED
    BY <2>1, <2>2, <2>5, <2>6 DEF FetchInv
<1>8. ASSUME NEW i \in Slots, OnNext(i) \/ OnCompleted(i) PROVE FetchInv'
  <2>1. /\ call[i] # "none" /\ UNCHANGED <<groups, futures, assetUp, fetched>>
        /\ call' = [call EXCEPT ![i] = "message"] \/ call' = [call EXCEPT ![i] = "completed"]
    BY <1>8 DEF OnNext, OnCompleted, vars
  <2>2. call' \in [Slots -> CallStates] /\ \A j \in Slots : call'[j] # "none" => call[j] # "none"
    BY <2>1 DEF FetchInv, CallStates
  <2> QED
    BY <2>1, <2>2 DEF FetchInv
<1>9. ASSUME NEW i \in Slots, ConnectionBreaks(i) PROVE FetchInv'
  BY <1>9, BrokenCalls DEF ConnectionBreaks, FetchInv
<1>10. CASE AssetDies
  BY <1>10, BrokenCalls DEF AssetDies
<1>11. CASE AssetStarts
  BY <1>11 DEF AssetStarts, FetchInv, vars
<1> QED
  BY <1>1, <1>2, <1>4, <1>5, <1>6, <1>7, <1>8, <1>9, <1>10, <1>11 DEF ChainNext, FetchStep

(* Every variable stays in its range, and artwork-dgs never fetches more   *)
(* than the fields it was asked for, however calls and processes break.    *)
THEOREM ChainTypes == ChainSpec => []ChainTypeOK
<1>1. ChainInit => RequestInv /\ FetchInv
  <2> SUFFICES ASSUME ChainInit PROVE RequestInv /\ FetchInv
    OBVIOUS
  <2>1. RequestInv
    BY InitRequest DEF ChainInit
  <2>2. <<>> \in Seq(BOOLEAN)
    OBVIOUS
  <2>3. FetchInv
    BY <2>2 DEF ChainInit, NoCalls, NothingFetched, FetchInv, CallStates
  <2> QED
    BY <2>1, <2>3
<1>2. RequestInv /\ FetchInv /\ [ChainNext]_allVars => RequestInv' /\ FetchInv'
  BY ChainStep, RequestInvStep, FetchInvStep
<1>3. RequestInv /\ FetchInv => ChainTypeOK
  BY DEF RequestInv, FetchInv, ChainTypeOK, CallStates
<1> QED
  BY <1>1, <1>2, <1>3, PTL DEF ChainSpec
=============================================================================
