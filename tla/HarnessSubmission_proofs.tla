----------------------- MODULE HarnessSubmission_proofs -----------------------
(***************************************************************************)
(* Theorems about HarnessSubmission and the pipeline call in it, for every *)
(* number of fixtures, stages and outputs.                                 *)
(***************************************************************************)
EXTENDS HarnessSubmission, FoldInduction

-----------------------------------------------------------------------------
(***************************************************************************)
(* Routing: what resolve and the order of the outputs compute, for every   *)
(* batch and every configuration.                                          *)
(***************************************************************************)

(* One packet of the batch joins its group.                                *)
Joined(cfg, kinds, grp, i) ==
  [grp EXCEPT ![Group(cfg, kinds[i])] = Append(@, i)]

(* acc holds the groups after none, one, two, ... packets.                 *)
Resolving(acc, cfg, kinds, n) ==
  /\ acc[0] = [name \in GroupNames(cfg) |-> << >>]
  /\ \A k \in 1 .. n : acc[k] = Joined(cfg, kinds, acc[k - 1], k)

(* resolve, packet by packet.                                              *)
LEMMA ResolveSteps ==
  ASSUME NEW cfg, NEW n \in Nat, NEW kinds, DOMAIN kinds = 1 .. n,
         \A i \in 1 .. n : Group(cfg, kinds[i]) \in GroupNames(cfg)
  PROVE  \E acc : Resolving(acc, cfg, kinds, n) /\ Resolve(cfg, kinds) = acc[n]
<1> DEFINE A == [GroupNames(cfg) -> Seq(1 .. n)]
           base == [name \in GroupNames(cfg) |-> << >>]
           op(a, k) == Joined(cfg, kinds, a, k)
           step == [p \in (1 .. n) \X A |-> op(p[2], p[1])]
           seq == [i \in DOMAIN kinds |-> i]
           Iterates(h) == h = [s \in SUBSET DOMAIN seq |->
             IF s = {} THEN base ELSE op(h[s \ {Max(s)}], seq[Max(s)])]
           iter == CHOOSE h : Iterates(h)
<1>1. base \in A
  OBVIOUS
<1>2. \A k \in 1 .. n, a \in A : op(a, k) \in A
  BY DEF Joined
<1>3. Resolve(cfg, kinds) = iter[DOMAIN seq]
  BY DEF Resolve, FoldLeft, MapThenFoldSet, Joined
<1>4. /\ DOMAIN seq = 1 .. n
      /\ \A k \in 1 .. n : seq[k] = k
  OBVIOUS
<1>. HIDE DEF op, A, base, seq
<1>5. \A k \in 1 .. n, a \in A : step[<<k, a>>] = op(a, k)
  OBVIOUS
<1>6. StaysIn(step, 1 .. n, A)
  BY <1>2, <1>5 DEF StaysIn
<1>. HIDE DEF step
<1>7. Iterates(iter)
  <2>1. PICK g \in [SUBSET (1 .. n) -> A] : LeftFolds(g, n, base, step)
    BY <1>1, <1>6, LeftFoldExists
  <2>2. ASSUME NEW s \in SUBSET (1 .. n)
        PROVE  g[s] = IF s = {} THEN base ELSE op(g[s \ {Max(s)}], seq[Max(s)])
    BY <1>4, <1>5, <2>1, LastPosition DEF LeftFolds
  <2>3. Iterates(g)
    BY <1>4, <2>2
  <2>. QED
    BY <2>3
<1>. HIDE DEF iter
<1>8. LeftFoldsIn(iter, n, A, base, step)
  <2>1. ASSUME NEW s \in SUBSET (1 .. n)
        PROVE  iter[s] = IF s = {} THEN base ELSE op(iter[s \ {Max(s)}], seq[Max(s)])
    BY <1>4, <1>7
  <2>2. ASSUME NEW s \in SUBSET (1 .. n), s # {}
        PROVE  iter[s] = op(iter[s \ {Max(s)}], Max(s)) /\ Max(s) \in 1 .. n
    BY <1>4, <2>1, <2>2, LastPosition
  <2>. QED
    BY <1>5, <2>1, <2>2 DEF LeftFoldsIn
<1>9. PICK acc : Accumulates(acc, n, A, base, step) /\ acc[n] = iter[1 .. n]
  BY <1>1, <1>6, <1>8, LeftFoldAccumulates
<1>10. ASSUME NEW k \in 1 .. n
       PROVE  acc[k] = op(acc[k - 1], k)
  <2>1. acc[k] = step[<<k, acc[k - 1]>>] /\ acc[k - 1] \in A
    BY <1>9 DEF Accumulates
  <2>. QED
    BY <1>5, <2>1
<1>. QED
  BY <1>3, <1>4, <1>9, <1>10 DEF Accumulates, Resolving, base, op

(* acc holds the first none, one, two, ... output groups in a row.         *)
Ordering(acc, cfg, grp, m) ==
  /\ acc[0] = << >>
  /\ \A k \in 1 .. m : acc[k] = acc[k - 1] \o grp[cfg.outputs[k]]

(* The groups of the outputs, one after the other.                         *)
LEMMA OutputOrderSteps ==
  ASSUME NEW cfg, NEW m \in Nat, DOMAIN cfg.outputs = 1 .. m, NEW V, NEW grp,
         \A k \in 1 .. m : grp[cfg.outputs[k]] \in Seq(V)
  PROVE  \E acc : Ordering(acc, cfg, grp, m) /\ InOutputOrder(cfg, grp) = acc[m]
<1> DEFINE A == Seq(V)
           group(k) == grp[cfg.outputs[k]]
           op(a, k) == a \o group(k)
           step == [p \in (1 .. m) \X A |-> op(p[2], p[1])]
           Iterates(h) == h = [s \in SUBSET DOMAIN cfg.outputs |->
             IF s = {} THEN << >> ELSE op(h[s \ {Max(s)}], Max(s))]
           iter == CHOOSE h : Iterates(h)
<1>1. << >> \in A
  OBVIOUS
<1>2. \A k \in 1 .. m, a \in A : op(a, k) \in A
  OBVIOUS
<1>3. InOutputOrder(cfg, grp) = iter[DOMAIN cfg.outputs]
  BY DEF InOutputOrder, FoldLeft, MapThenFoldSet
<1>. HIDE DEF op, A
<1>5. \A k \in 1 .. m, a \in A : step[<<k, a>>] = op(a, k)
  OBVIOUS
<1>6. StaysIn(step, 1 .. m, A)
  BY <1>2, <1>5 DEF StaysIn
<1>. HIDE DEF step
<1>7. Iterates(iter)
  <2>1. PICK g \in [SUBSET (1 .. m) -> A] : LeftFolds(g, m, << >>, step)
    BY <1>1, <1>6, LeftFoldExists
  <2>2. ASSUME NEW s \in SUBSET (1 .. m)
        PROVE  g[s] = IF s = {} THEN << >> ELSE op(g[s \ {Max(s)}], Max(s))
    BY <1>5, <2>1, LastPosition DEF LeftFolds
  <2>3. Iterates(g)
    BY <2>2
  <2>. QED
    BY <2>3
<1>. HIDE DEF iter
<1>8. LeftFoldsIn(iter, m, A, << >>, step)
  <2>1. ASSUME NEW s \in SUBSET (1 .. m)
        PROVE  iter[s] = IF s = {} THEN << >> ELSE op(iter[s \ {Max(s)}], Max(s))
    BY <1>7
  <2>2. ASSUME NEW s \in SUBSET (1 .. m), s # {}
        PROVE  iter[s] = op(iter[s \ {Max(s)}], Max(s)) /\ Max(s) \in 1 .. m
    BY <2>1, <2>2, LastPosition
  <2>. QED
    BY <1>5, <2>1, <2>2 DEF LeftFoldsIn
<1>9. PICK acc : Accumulates(acc, m, A, << >>, step) /\ acc[m] = iter[1 .. m]
  BY <1>1, <1>6, <1>8, LeftFoldAccumulates
<1>10. ASSUME NEW k \in 1 .. m
       PROVE  acc[k] = op(acc[k - 1], k)
  <2>1. acc[k] = step[<<k, acc[k - 1]>>] /\ acc[k - 1] \in A
    BY <1>9 DEF Accumulates
  <2>. QED
    BY <1>5, <2>1
<1>. QED
  BY <1>3, <1>9, <1>10 DEF Accumulates, Ordering, op

(* The groups after the first k packets: who is in which, in receive order. *)
Grouped(cfg, kinds, n, grp, k) ==
  /\ grp \in [GroupNames(cfg) -> Seq(1 .. n)]
  /\ \A name \in GroupNames(cfg) :
       /\ \A p, q \in DOMAIN grp[name] : p < q => grp[name][p] < grp[name][q]
       /\ \A i \in 1 .. n :
            i \in ToSet(grp[name]) <=> i <= k /\ Group(cfg, kinds[i]) = name

LEMMA AppendToSet ==
  ASSUME NEW V, NEW s \in Seq(V), NEW x
  PROVE  ToSet(Append(s, x)) = ToSet(s) \cup {x}
<1>1. /\ DOMAIN Append(s, x) = DOMAIN s \cup {Len(s) + 1}
      /\ \A p \in DOMAIN s : Append(s, x)[p] = s[p]
      /\ Append(s, x)[Len(s) + 1] = x
  OBVIOUS
<1>. QED
  BY <1>1 DEF ToSet

LEMMA JoinedGrouped ==
  ASSUME NEW cfg, NEW n \in Nat, NEW kinds, NEW grp, NEW k \in 1 .. n,
         Group(cfg, kinds[k]) \in GroupNames(cfg),
         Grouped(cfg, kinds, n, grp, k - 1)
  PROVE  Grouped(cfg, kinds, n, Joined(cfg, kinds, grp, k), k)
<1> DEFINE mine == Group(cfg, kinds[k])
           new == Joined(cfg, kinds, grp, k)
<1>1. /\ grp \in [GroupNames(cfg) -> Seq(1 .. n)]
      /\ new \in [GroupNames(cfg) -> Seq(1 .. n)]
      /\ new[mine] = Append(grp[mine], k)
      /\ \A name \in GroupNames(cfg) : name # mine => new[name] = grp[name]
  BY DEF Grouped, Joined
<1>2. /\ \A p, q \in DOMAIN grp[mine] : p < q => grp[mine][p] < grp[mine][q]
      /\ \A i \in 1 .. n :
           i \in ToSet(grp[mine]) <=> i <= k - 1 /\ Group(cfg, kinds[i]) = mine
  BY DEF Grouped
<1>. HIDE DEF new
<1>3. ASSUME NEW p \in DOMAIN new[mine], NEW q \in DOMAIN new[mine], p < q
      PROVE  new[mine][p] < new[mine][q]
  <2>0. grp[mine] \in Seq(1 .. n) /\ Len(new[mine]) = Len(grp[mine]) + 1
    BY <1>1
  <2>1. p \in DOMAIN grp[mine] /\ new[mine][p] = grp[mine][p]
    BY <1>1, <1>3, <2>0
  <2>2. CASE q \in DOMAIN grp[mine]
    BY <1>1, <1>2, <1>3, <2>0, <2>1, <2>2
  <2>3. CASE q = Len(grp[mine]) + 1
    <3>1. new[mine][q] = k
      BY <1>1, <2>0, <2>3
    <3>2. grp[mine][p] \in 1 .. n /\ grp[mine][p] \in ToSet(grp[mine])
      BY <2>0, <2>1 DEF ToSet
    <3>3. grp[mine][p] <= k - 1
      BY <1>2, <3>2
    <3>. QED
      BY <2>1, <3>1, <3>2, <3>3
  <2>. QED
    BY <1>1, <2>0, <2>2, <2>3
<1>4. ASSUME NEW i \in 1 .. n
      PROVE  i \in ToSet(new[mine]) <=> i <= k /\ Group(cfg, kinds[i]) = mine
  <2>1. ToSet(new[mine]) = ToSet(grp[mine]) \cup {k}
    BY <1>1, AppendToSet
  <2>2. i \in ToSet(grp[mine]) <=> i <= k - 1 /\ Group(cfg, kinds[i]) = mine
    BY <1>2
  <2>. QED
    BY <2>1, <2>2
<1>5. ASSUME NEW name \in GroupNames(cfg), name # mine
      PROVE  /\ \A p, q \in DOMAIN new[name] : p < q => new[name][p] < new[name][q]
             /\ \A i \in 1 .. n :
                  i \in ToSet(new[name]) <=> i <= k /\ Group(cfg, kinds[i]) = name
  <2>1. new[name] = grp[name]
    BY <1>1, <1>5
  <2>2. /\ \A p, q \in DOMAIN grp[name] : p < q => grp[name][p] < grp[name][q]
        /\ \A i \in 1 .. n :
             i \in ToSet(grp[name]) <=> i <= k - 1 /\ Group(cfg, kinds[i]) = name
    BY DEF Grouped
  <2>3. \A i \in 1 .. n : Group(cfg, kinds[i]) = name =>
          (i <= k <=> i <= k - 1)
    BY <1>5
  <2>. QED
    BY <2>1, <2>2, <2>3
<1>. QED
  BY <1>1, <1>3, <1>4, <1>5 DEF Grouped, new

(* resolve puts every packet into the group of its disposition, and every  *)
(* group into receive order.                                               *)
LEMMA ResolveGroups ==
  ASSUME NEW cfg, NEW n \in Nat, NEW kinds, DOMAIN kinds = 1 .. n,
         \A i \in 1 .. n : Group(cfg, kinds[i]) \in GroupNames(cfg)
  PROVE  Grouped(cfg, kinds, n, Resolve(cfg, kinds), n)
<1>1. PICK acc : Resolving(acc, cfg, kinds, n) /\ Resolve(cfg, kinds) = acc[n]
  BY ResolveSteps
<1> DEFINE T == {k \in 0 .. n : Grouped(cfg, kinds, n, acc[k], k)}
<1>2. 0 \in T
  <2>1. /\ acc[0] \in [GroupNames(cfg) -> Seq(1 .. n)]
        /\ \A name \in GroupNames(cfg) : acc[0][name] = << >>
    BY <1>1 DEF Resolving
  <2>2. DOMAIN << >> = {} /\ ToSet(<< >>) = {}
    BY DEF ToSet
  <2>3. \A i \in 1 .. n : ~ (i <= 0)
    OBVIOUS
  <2>4. Grouped(cfg, kinds, n, acc[0], 0)
    BY <2>1, <2>2, <2>3 DEF Grouped
  <2>. QED
    BY <2>4
<1>3. \A k \in 1 .. n : k - 1 \in T => k \in T
  BY <1>1, JoinedGrouped DEF Resolving
<1>4. n \in T
  <2>. HIDE DEF T
  <2>. QED  BY <1>2, <1>3, InductionTo
<1>. QED
  BY <1>1, <1>4

(* The packets of the first m outputs, in configured output order and      *)
(* within an output in receive order.                                      *)
Ordered(cfg, kinds, n, order, m) ==
  /\ order \in Seq(1 .. n)
  /\ \A i \in 1 .. n :
       i \in ToSet(order) <=> \E j \in 1 .. m : cfg.outputs[j] = Group(cfg, kinds[i])
  /\ \A p, q \in DOMAIN order : p < q =>
       \E j, l \in 1 .. m :
         /\ cfg.outputs[j] = Group(cfg, kinds[order[p]])
         /\ cfg.outputs[l] = Group(cfg, kinds[order[q]])
         /\ j < l \/ (j = l /\ order[p] < order[q])

LEMMA Concat ==
  ASSUME NEW V, NEW s \in Seq(V), NEW t \in Seq(V)
  PROVE  /\ s \o t \in Seq(V)
         /\ \A p \in DOMAIN (s \o t) :
              \/ p \in DOMAIN s /\ (s \o t)[p] = s[p]
              \/ /\ p - Len(s) \in DOMAIN t /\ (s \o t)[p] = t[p - Len(s)]
                 /\ p \notin DOMAIN s
         /\ \A p \in DOMAIN s, q \in Int : q \notin DOMAIN s /\ q - Len(s) \in DOMAIN t => p < q
         /\ Len(s) \in Nat
         /\ DOMAIN (s \o t) \subseteq Nat
<1>1. /\ s \o t \in Seq(V)
      /\ Len(s) \in Nat
      /\ Len(t) \in Nat
      /\ DOMAIN (s \o t) = 1 .. Len(s) + Len(t)
      /\ DOMAIN s = 1 .. Len(s)
      /\ DOMAIN t = 1 .. Len(t)
      /\ \A p \in 1 .. Len(s) + Len(t) :
           (s \o t)[p] = IF p <= Len(s) THEN s[p] ELSE t[p - Len(s)]
  OBVIOUS
<1>. QED
  BY <1>1

LEMMA ConcatToSet ==
  ASSUME NEW V, NEW s \in Seq(V), NEW t \in Seq(V)
  PROVE  ToSet(s \o t) = ToSet(s) \cup ToSet(t)
<1>1. /\ s \o t \in Seq(V)
      /\ Len(s \o t) = Len(s) + Len(t)
      /\ \A p \in 1 .. Len(s) : (s \o t)[p] = s[p]
      /\ \A p \in 1 .. Len(t) : (s \o t)[Len(s) + p] = t[p]
  OBVIOUS
<1>2. ASSUME NEW p \in DOMAIN (s \o t)
      PROVE  (s \o t)[p] \in ToSet(s) \cup ToSet(t)
  <2>1. CASE p <= Len(s)
    BY <1>1, <2>1 DEF ToSet
  <2>2. CASE p > Len(s)
    <3>1. p - Len(s) \in 1 .. Len(t) /\ p = Len(s) + (p - Len(s))
      BY <1>1, <2>2
    <3>2. (s \o t)[p] = t[p - Len(s)]
      BY <1>1, <3>1
    <3>. QED
      BY <3>1, <3>2 DEF ToSet
  <2>. QED
    BY <1>1, <2>1, <2>2
<1>3. ASSUME NEW p \in DOMAIN s
      PROVE  s[p] \in ToSet(s \o t)
  BY <1>1 DEF ToSet
<1>4. ASSUME NEW p \in DOMAIN t
      PROVE  t[p] \in ToSet(s \o t)
  <2>1. Len(s) + p \in DOMAIN (s \o t) /\ (s \o t)[Len(s) + p] = t[p]
    BY <1>1
  <2>. QED
    BY <2>1 DEF ToSet
<1>. QED
  BY <1>2, <1>3, <1>4 DEF ToSet

LEMMA OrderedStep ==
  ASSUME NEW cfg, NEW n \in Nat, NEW kinds, NEW grp, NEW order,
         NEW m \in Nat, NEW k \in 1 .. m,
         cfg.outputs[k] \in GroupNames(cfg),
         Grouped(cfg, kinds, n, grp, n),
         Ordered(cfg, kinds, n, order, k - 1)
  PROVE  Ordered(cfg, kinds, n, order \o grp[cfg.outputs[k]], k)
<1> DEFINE more == grp[cfg.outputs[k]]
           new == order \o more
<1>1. more \in Seq(1 .. n) /\ order \in Seq(1 .. n)
  BY DEF Grouped, Ordered
<1>2. /\ new \in Seq(1 .. n)
      /\ \A p \in DOMAIN new :
           \/ p \in DOMAIN order /\ new[p] = order[p]
           \/ /\ p - Len(order) \in DOMAIN more /\ new[p] = more[p - Len(order)]
              /\ p \notin DOMAIN order
      /\ Len(order) \in Nat
      /\ DOMAIN new \subseteq Nat
  BY <1>1, Concat
<1>3. /\ \A p, q \in DOMAIN more : p < q => more[p] < more[q]
      /\ \A i \in 1 .. n : i \in ToSet(more) <=> Group(cfg, kinds[i]) = cfg.outputs[k]
  BY DEF Grouped
<1>4. ASSUME NEW i \in 1 .. n
      PROVE  i \in ToSet(new) <=>
               \E j \in 1 .. k : cfg.outputs[j] = Group(cfg, kinds[i])
  <2>1. i \in ToSet(new) <=> i \in ToSet(order) \/ i \in ToSet(more)
    BY <1>1, ConcatToSet
  <2>2. i \in ToSet(order) <=>
          \E j \in 1 .. k - 1 : cfg.outputs[j] = Group(cfg, kinds[i])
    BY DEF Ordered
  <2>. QED
    BY <1>3, <2>1, <2>2
<1>5. \A p \in DOMAIN order :
        order[p] \in 1 .. n /\ \E j \in 1 .. k - 1 : cfg.outputs[j] = Group(cfg, kinds[order[p]])
  <2>1. \A p \in DOMAIN order : order[p] \in 1 .. n /\ order[p] \in ToSet(order)
    BY <1>1 DEF ToSet
  <2>. QED
    BY <2>1 DEF Ordered
<1>6. \A p \in DOMAIN more : more[p] \in 1 .. n /\ Group(cfg, kinds[more[p]]) = cfg.outputs[k]
  <2>1. \A p \in DOMAIN more : more[p] \in 1 .. n /\ more[p] \in ToSet(more)
    BY <1>1 DEF ToSet
  <2>. QED
    BY <1>3, <2>1
<1>. HIDE DEF new, more
<1>7. ASSUME NEW p \in DOMAIN new, NEW q \in DOMAIN new, p < q
      PROVE  \E j, l \in 1 .. k :
               /\ cfg.outputs[j] = Group(cfg, kinds[new[p]])
               /\ cfg.outputs[l] = Group(cfg, kinds[new[q]])
               /\ j < l \/ (j = l /\ new[p] < new[q])
  <2>0. p \in Nat /\ q \in Nat
    BY <1>2
  <2>1. CASE p \in DOMAIN order /\ q \in DOMAIN order
    <3>1. \E j, l \in 1 .. k - 1 :
            /\ cfg.outputs[j] = Group(cfg, kinds[order[p]])
            /\ cfg.outputs[l] = Group(cfg, kinds[order[q]])
            /\ j < l \/ (j = l /\ order[p] < order[q])
      BY <1>7, <2>1 DEF Ordered
    <3>2. new[p] = order[p] /\ new[q] = order[q]
      BY <1>2, <2>1
    <3>. QED
      BY <3>1, <3>2
  <2>2. CASE p \in DOMAIN order /\ q \notin DOMAIN order
    <3>1. PICK j \in 1 .. k - 1 : cfg.outputs[j] = Group(cfg, kinds[new[p]])
      BY <1>2, <1>5, <2>2
    <3>2. q - Len(order) \in DOMAIN more /\ new[q] = more[q - Len(order)]
      BY <1>2, <2>2
    <3>3. Group(cfg, kinds[new[q]]) = cfg.outputs[k]
      BY <1>6, <3>2
    <3>4. j < k /\ k \in 1 .. k /\ j \in 1 .. k
      OBVIOUS
    <3>. QED
      BY <3>1, <3>3, <3>4
  <2>3. CASE p \notin DOMAIN order
    <3>1. /\ p - Len(order) \in DOMAIN more
          /\ new[p] = more[p - Len(order)]
      BY <1>2, <2>3
    <3>2. DOMAIN order = 1 .. Len(order) /\ q \notin DOMAIN order
      BY <1>1, <1>2, <1>7, <2>0, <2>3, <3>1
    <3>3. /\ q - Len(order) \in DOMAIN more
          /\ new[q] = more[q - Len(order)]
      BY <1>2, <3>2
    <3>4. p - Len(order) < q - Len(order)
      BY <1>2, <1>7, <2>0
    <3>5. new[p] < new[q]
      BY <1>3, <3>1, <3>3, <3>4
    <3>6. /\ Group(cfg, kinds[new[p]]) = cfg.outputs[k]
          /\ Group(cfg, kinds[new[q]]) = cfg.outputs[k]
      BY <1>6, <3>1, <3>3
    <3>7. k \in 1 .. k
      OBVIOUS
    <3>. QED
      BY <3>5, <3>6, <3>7
  <2>. QED
    BY <2>1, <2>2, <2>3
<1>. QED
  BY <1>2, <1>4, <1>7 DEF Ordered, new, more

(* What the outputs see of a resolved batch.                               *)
LEMMA OutputOrder ==
  ASSUME NEW cfg, NEW m \in Nat, DOMAIN cfg.outputs = 1 .. m,
         NEW n \in Nat, NEW kinds, NEW grp, Grouped(cfg, kinds, n, grp, n)
  PROVE  Ordered(cfg, kinds, n, InOutputOrder(cfg, grp), m)
<1>1. \A k \in 1 .. m : cfg.outputs[k] \in GroupNames(cfg)
  BY DEF GroupNames, ToSet
<1>2. \A k \in 1 .. m : grp[cfg.outputs[k]] \in Seq(1 .. n)
  BY <1>1 DEF Grouped
<1>3. PICK acc : Ordering(acc, cfg, grp, m) /\ InOutputOrder(cfg, grp) = acc[m]
  <2> DEFINE V == 1 .. n
  <2>1. \A k \in 1 .. m : grp[cfg.outputs[k]] \in Seq(V)
    BY <1>2
  <2>. HIDE DEF V
  <2>. QED
    BY <2>1, OutputOrderSteps
<1> DEFINE T == {k \in 0 .. m : Ordered(cfg, kinds, n, acc[k], k)}
<1>4. 0 \in T
  <2>1. acc[0] = << >> /\ DOMAIN << >> = {} /\ ToSet(<< >>) = {}
    BY <1>3 DEF Ordering, ToSet
  <2>2. 1 .. 0 = {}
    OBVIOUS
  <2>3. Ordered(cfg, kinds, n, acc[0], 0)
    BY <2>1, <2>2 DEF Ordered
  <2>. QED
    BY <2>3
<1>5. ASSUME NEW k \in 1 .. m, k - 1 \in T
      PROVE  k \in T
  <2>1. Ordered(cfg, kinds, n, acc[k - 1], k - 1)
    BY <1>5
  <2>2. Ordered(cfg, kinds, n, acc[k - 1] \o grp[cfg.outputs[k]], k)
    BY <1>1, <2>1, OrderedStep
  <2>3. acc[k] = acc[k - 1] \o grp[cfg.outputs[k]]
    BY <1>3 DEF Ordering
  <2>4. k \in 0 .. m
    OBVIOUS
  <2>. QED
    BY <2>2, <2>3, <2>4
<1>6. m \in T
  <2>. HIDE DEF T
  <2>1. \A k \in 0 .. m : k \in T
    BY <1>4, <1>5, InductionTo
  <2>2. m \in 0 .. m
    OBVIOUS
  <2>. QED  BY <2>1, <2>2
<1>. QED
  BY <1>3, <1>6

-----------------------------------------------------------------------------
(***************************************************************************)
(* The invariant.                                                          *)
(***************************************************************************)

(* What submit has opened by the time it is somewhere.                     *)
PlaceInv ==
  /\ at \in {"setup", "received"} =>
       /\ nextGeneration = 0
       /\ liveGeneration = 0
       /\ call.phase = "idle"
  /\ nextGeneration # 0 => slots = [i \in 1 .. fixtures |-> i]
  /\ at \in {"copying", "submitting", "returning"} => call.phase = "returned"
  /\ at = "processing" /\ call.phase # "failed" => liveGeneration # 0
  /\ at \in {"copying", "submitting", "returning"} => liveGeneration # 0
  /\ at \in {"reconciling", "ended"} => liveGeneration = 0

(* A call in progress has its batch, its writer and its configuration; an  *)
(* error after a callback leaves no batch, and only a result has groups.   *)
CallInv ==
  /\ call.phase = "idle" =>
       call = Idle /\ disposition = NoWriter /\ nextWriter = 0
  /\ call.phase \in {"stage", "callback"} =>
       /\ at = "processing"
       /\ call.batch = liveGeneration
       /\ WriterLive(call.writer)
       /\ ConfigAccepted
  /\ call.phase = "callback" => call.stage \in Stage /\ call.started
  /\ call.phase = "failed" /\ call.started => liveGeneration = 0
  /\ call.phase # "returned" => groups = << >>
  /\ call.phase = "returned" =>
       /\ ConfigAccepted
       /\ Resolvable(config, Kinds)
       /\ groups = Resolve(config, Kinds)
  /\ call.phase \in {"stage", "callback", "returned"} =>
       /\ nextGeneration # 0
       /\ disposition.length = Len(slots)

StatusInv == call.phase = "idle" => \A k \in Stage : status[k] = "not_run"

(* The stages behind the current one ran, and a stage that was skipped or  *)
(* applied a terminal policy left no packet active.                        *)
StageInv ==
  call.phase \in {"stage", "callback", "returned"} =>
    /\ \A k \in Stage :
         k < call.stage =>
           status[k] \in {"ok", "failed_continue", "failed_terminal", "failed_stop"}
    /\ \A k \in Stage :
         status[k] \in {"failed_terminal", "failed_stop", "skipped_empty"} =>
           disposition.active = {}
    /\ call.phase = "returned" => call.stage > NumStages \/ Halted

(* Active is what no stage decided, and what was decided was a processor's *)
(* to decide, the one whose callback runs included.                        *)
DecidedInv ==
  call.phase \in {"stage", "callback", "returned"} =>
    /\ disposition.active = {i \in 1 .. disposition.length : Kinds[i] = "continue"}
    /\ \A i \in 1 .. disposition.length :
         Kinds[i] # "continue" =>
           \/ Kinds[i] \in Authorized
           \/ call.phase = "callback" /\ Kinds[i] \in Recordable(Running)

Result == InOutputOrder(config, groups)

(* What the loops of submit have done and still have to do.                *)
LoopInv ==
  /\ at \in {"setup", "received", "processing", "copying"} => submitted = << >>
  /\ submitted \in Seq(1 .. Received)
  /\ submitted # << >> => call.phase = "returned" /\ IsPrefix(submitted, Result)
  /\ at = "submitting" => submitted \o todo = Result
  /\ at \in {"returning", "reconciling"} =>
       todo \in Seq(1 .. Received) /\ IsInjective(todo)
  /\ at = "returning" => ToSet(todo) \cap ToSet(submitted) = {}
  /\ at = "returning" \/ outcome = "ok" => submitted = Result
  /\ outcome = "ok" => at = "ended"

(* The tokens the worker has still to hand on.                             *)
Held(t) ==
  CASE at \in {"returning", "reconciling"} -> t \in ToSet(todo)
    [] at = "ended" -> FALSE
    [] OTHER -> TRUE

TokenInv ==
  /\ registered <= fixtures
  /\ received \in {0, fixtures}
  /\ at = "setup" => received = 0
  /\ received = 0 => \A t \in 1 .. registered : tokenState[t] = "input_owned"
  /\ received # 0 => registered = fixtures
  /\ nextGeneration # 0 \/ at = "received" =>
       received = fixtures /\ registered = fixtures
  /\ \A t \in 1 .. Received :
       tokenState[t] = IF t \in ToSet(submitted) THEN "completed"
                       ELSE IF Held(t) THEN "worker_owned" ELSE "returned_to_input"

(* Every token received is the worker's or counted as final.               *)
WorkerOwned == {t \in 1 .. Received : tokenState[t] = "worker_owned"}

CountInv == finalCompletions + Cardinality(WorkerOwned) = received

Inv ==
  /\ TypeOK
  /\ PlaceInv
  /\ CallInv
  /\ StatusInv
  /\ StageInv
  /\ DecidedInv
  /\ LoopInv
  /\ TokenInv
  /\ CountInv

-----------------------------------------------------------------------------
(***************************************************************************)
(* Type correctness, one component at a time.                              *)
(***************************************************************************)

LEMMA TransferType ==
  ASSUME TrackerTypeOK,
         NEW S, IsFiniteSet(S),
         NEW from, NEW to \in TokenState,
         Transfer(S, from, to)
  PROVE  TrackerTypeOK'
<1>1. Cardinality(S) \in Nat
  BY FS_CardinalityType
<1>. QED
  BY <1>1, NumTokensAssumption DEF TrackerTypeOK, Transfer

LEMMA RegisterType ==
  ASSUME TrackerTypeOK, RegisterInput
  PROVE  TrackerTypeOK'
BY NumTokensAssumption
   DEF TrackerTypeOK, RegisterInput, TokenState, Token

(* The transitions a submission makes with one token.                      *)
LEMMA SingleTransferType ==
  ASSUME TrackerTypeOK, NEW t,
         \/ ReturnToInput(t)
         \/ CompleteOutput(t)
         \/ CompleteRetention(t)
         \/ SubmitAndComplete(t)
  PROVE  TrackerTypeOK'
<1>1. IsFiniteSet({t})
  BY FS_Singleton
<1>2. {"returned_to_input", "completed"} \subseteq TokenState
  BY DEF TokenState, FinalState
<1>. QED
  BY <1>1, <1>2, TransferType
     DEF ReturnToInput, CompleteOutput, CompleteRetention, SubmitAndComplete

LEMMA ReconcileType ==
  ASSUME TrackerTypeOK, NEW t, Reconcile(t)
  PROVE  TrackerTypeOK'
<1>1. \/ ReturnToInput(t)
      \/ CompleteOutput(t)
      \/ CompleteRetention(t)
      \/ UNCHANGED trackerVars
  BY DEF Reconcile
<1>. QED
  BY <1>1, SingleTransferType DEF trackerVars, TrackerTypeOK

LEMMA BeginType ==
  ASSUME OwnerTypeOK, NEW s \in Seq(Token), Begin(s)
  PROVE  OwnerTypeOK'
<1>1. NoAuthority \in Authority
  BY BatchOwnerAssumption DEF NoAuthority, Authority
<1>2. Len(s) \in Nat
  OBVIOUS
<1>. QED
  BY <1>1, <1>2, BatchOwnerAssumption
     DEF OwnerTypeOK, Begin, Slot, SlotAccess, Journal

LEMMA InvalidateType ==
  ASSUME OwnerTypeOK, NEW g, Invalidate(g)
  PROVE  OwnerTypeOK'
BY DEF OwnerTypeOK, Invalidate

LEMMA JournalType ==
  ASSUME OwnerTypeOK, NEW g, NEW i \in Slot, Edit(g, i) \/ Finalize(g, i)
  PROVE  OwnerTypeOK'
BY DEF OwnerTypeOK, Edit, Finalize, JournalStep, Written, Finalized, Journal

LEMMA NoWriterType == NoWriter \in Disposition
BY DispositionWriterAssumption, BatchOwnerAssumption
   DEF NoWriter, Disposition, Continue, Value

LEMMA InitWriterType ==
  ASSUME OwnerTypeOK, WriterTypeOK, NEW g, InitWriter(g)
  PROVE  WriterTypeOK' /\ disposition'.handle \in 1 .. MaxWriterGeneration
<1>1. disposition' \in Disposition
  BY DispositionWriterAssumption, BatchOwnerAssumption
     DEF InitWriter, WriterTypeOK, OwnerTypeOK, Disposition, Continue, Value, Slot
<1>. QED
  BY <1>1, DispositionWriterAssumption DEF InitWriter, WriterTypeOK

LEMMA RecordType ==
  ASSUME WriterTypeOK, NEW w, NEW S \in SUBSET Slot, NEW kind \in Terminal,
         RecordTerminal(w, S, kind)
  PROVE  WriterTypeOK'
<1>1. [kind |-> kind] \in Value
  BY DEF Value
<1>. QED
  BY <1>1 DEF RecordTerminal, WriterTypeOK, Disposition

(* What the code's validation of the descriptors says of a running stage.  *)
LEMMA Recordables ==
  ASSUME NEW d \in Descriptors
  PROVE  /\ Recordable(d) \subseteq Terminal
         /\ "continue" \notin Recordable(d)
         /\ d.onError \in {"terminal_active", "terminal_active_and_stop"} =>
              d.terminal \in Recordable(d)
<1>1. d \in Descriptor /\ Admitted(d) /\ Terminal = Destination
  BY StaticPipelineAssumption
<1>2. d.outputs \subseteq Output
  BY <1>1 DEF Descriptor
<1>3. Recordable(d) \subseteq Terminal
  BY <1>1, <1>2 DEF Recordable, Destination
<1>. QED
  BY <1>1, <1>3, DispositionWriterAssumption DEF Admitted

-----------------------------------------------------------------------------
(***************************************************************************)
(* Routing is decided before the first callback.                           *)
(***************************************************************************)

(* Wherever an admitted stage, or the caller's continue policy, may send a *)
(* packet, the accepted configuration has a group for it.                  *)
LEMMA Routable ==
  ASSUME config \in Config, descriptors \in [Stage -> Descriptors],
         ConfigAccepted, NEW kind,
         kind = "continue" \/ \E k \in Stage : kind \in Recordable(descriptors[k])
  PROVE  Group(config, kind) \in ToSet(config.outputs) \cup {"drop", "complete"}
<1>1. Validated(config)
  BY DEF ConfigAccepted
<1>2. CASE kind = "continue"
  <2>1. Group(config, kind) = Target(config, config.onContinue)
    BY <1>2 DEF Group, Final
  <2>2. \/ config.onContinue \in {"drop", "complete"}
        \/ Target(config, config.onContinue) \in ToSet(config.outputs)
    BY <1>1 DEF Validated
  <2>. QED
    BY <2>1, <2>2 DEF Target
<1>3. CASE kind # "continue"
  <2>1. PICK k \in Stage : kind \in Recordable(descriptors[k])
    BY <1>3
  <2>2. Group(config, kind) = IF kind = "default" THEN config.default ELSE kind
    BY <1>3 DEF Group, Final, Target
  <2>3. /\ descriptors[k].outputs \subseteq ToSet(config.outputs)
        /\ "accept" \in descriptors[k].dispositions => config.default # "none"
    BY DEF ConfigAccepted
  <2>4. config.default # "none" => config.default \in ToSet(config.outputs)
    BY <1>1 DEF Validated
  <2>5. "default" \notin descriptors[k].outputs
    BY <2>1, StaticPipelineAssumption, DispositionRoutingAssumption DEF Descriptor
  <2>6. \/ kind = "default" /\ "accept" \in descriptors[k].dispositions
        \/ kind \in descriptors[k].outputs
        \/ kind \in {"drop", "complete"}
    BY <2>1 DEF Recordable
  <2>. QED
    BY <2>2, <2>3, <2>4, <2>5, <2>6
<1>. QED
  BY <1>2, <1>3

(* What the recorded dispositions are, for a call that has not failed.     *)
LEMMA KindsDecided ==
  ASSUME Inv, call.phase \in {"stage", "callback", "returned"}
  PROVE  \A i \in 1 .. disposition.length :
           \/ Kinds[i] = "continue"
           \/ \E k \in Stage : Kinds[i] \in Recordable(descriptors[k])
<1>1. ASSUME NEW i \in 1 .. disposition.length, Kinds[i] \in Authorized
      PROVE  \E k \in Stage : Kinds[i] \in Recordable(descriptors[k])
  BY <1>1 DEF Authorized
<1>2. call.phase = "callback" => call.stage \in Stage
  BY DEF Inv, CallInv
<1>. QED
  BY <1>1, <1>2 DEF Inv, DecidedInv, Running

(* resolve would not fail, whatever the stages have recorded so far.       *)
LEMMA RoutingDecided ==
  ASSUME Inv, call.phase \in {"stage", "callback"}
  PROVE  Resolvable(config, Kinds)
<1>1. config \in Config /\ descriptors \in [Stage -> Descriptors] /\ ConfigAccepted
  BY DEF Inv, TypeOK, PipelineTypeOK, CallInv
<1>2. DOMAIN Kinds = 1 .. disposition.length
  BY DEF Kinds
<1>3. \A i \in 1 .. disposition.length :
        Group(config, Kinds[i]) \in ToSet(config.outputs) \cup {"drop", "complete"}
  BY <1>1, KindsDecided, Routable
<1>. QED
  BY <1>1, <1>2, <1>3 DEF Resolvable, ConfigAccepted, GroupNames

(* A result: every packet is in the group of its disposition.              *)
LEMMA ResultGrouped ==
  ASSUME TypeOK, Resolvable(config, Kinds)
  PROVE  Grouped(config, Kinds, disposition.length, Resolve(config, Kinds),
                 disposition.length)
<1>1. disposition.length \in Nat
  BY BatchOwnerAssumption DEF TypeOK, WriterTypeOK, Disposition
<1>2. DOMAIN Kinds = 1 .. disposition.length
  BY DEF Kinds
<1>. QED
  BY <1>1, <1>2, ResolveGroups DEF Resolvable

-----------------------------------------------------------------------------
(* What is not touched stays well typed.                                   *)
LEMMA TrackerStands == TrackerTypeOK /\ UNCHANGED trackerVars => TrackerTypeOK'
BY DEF TrackerTypeOK, trackerVars

LEMMA OwnerStands == OwnerTypeOK /\ UNCHANGED ownerVars => OwnerTypeOK'
BY DEF OwnerTypeOK, ownerVars

LEMMA PoolStands == PoolTypeOK /\ UNCHANGED poolVars => PoolTypeOK'
BY DEF PoolTypeOK, poolVars

LEMMA WriterStands == WriterTypeOK /\ UNCHANGED writerVars => WriterTypeOK'
BY DEF WriterTypeOK, writerVars

LEMMA PipelineStands == PipelineTypeOK /\ UNCHANGED pipelineVars => PipelineTypeOK'
BY DEF PipelineTypeOK, pipelineVars

HarnessTypeOK ==
  /\ fixtures \in 0 .. MaxBatch
  /\ at \in Place
  /\ todo \in Seq(Slot)
  /\ submitted \in Seq(Slot)
  /\ outcome \in {"none", "ok", "error"}

LEMMA HarnessStands == HarnessTypeOK /\ UNCHANGED harnessVars => HarnessTypeOK'
BY DEF HarnessTypeOK, harnessVars

LEMMA FailCallType ==
  ASSUME TypeOK, FailCall
  PROVE  OwnerTypeOK' /\ WriterTypeOK' /\ PipelineTypeOK'
<1>1. OwnerTypeOK'
  BY InvalidateType, OwnerStands DEF FailCall, TypeOK
<1>2. WriterTypeOK'
  BY WriterStands DEF FailCall, TypeOK
<1>3. call' \in Call
  BY DEF FailCall, TypeOK, PipelineTypeOK, Call, Phase
<1>. QED
  BY <1>1, <1>2, <1>3 DEF FailCall, CallFrame, TypeOK, PipelineTypeOK

LEMMA SeqOfMore ==
  ASSUME NEW S, NEW T, S \subseteq T, NEW s \in Seq(S)
  PROVE  s \in Seq(T)
OBVIOUS

LEMMA FinishCallType ==
  ASSUME TypeOK, FinishCall
  PROVE  OwnerTypeOK' /\ WriterTypeOK' /\ PipelineTypeOK'
<1>1. CASE FailCall
  BY <1>1, FailCallType
<1>2. CASE /\ Resolvable(config, Kinds)
           /\ groups' = Resolve(config, Kinds)
           /\ call' = [call EXCEPT !.phase = "returned"]
           /\ UNCHANGED <<ownerVars, writerVars, status>>
           /\ CallFrame
  <2>1. Grouped(config, Kinds, disposition.length, groups', disposition.length)
    BY <1>2, ResultGrouped
  <2>2. disposition.length \in 0 .. MaxBatch
    BY DEF TypeOK, WriterTypeOK, Disposition
  <2>3. groups' \in [GroupNames(config) -> Seq(1 .. disposition.length)]
    BY <2>1 DEF Grouped
  <2>4. 1 .. disposition.length \subseteq Slot
    BY <2>2, BatchOwnerAssumption DEF Slot
  <2>5. \A name \in DOMAIN groups' : groups'[name] \in Seq(Slot)
    BY <2>3, <2>4, SeqOfMore
  <2>6. call' \in Call
    BY <1>2 DEF TypeOK, PipelineTypeOK, Call, Phase
  <2>. QED
    BY <1>2, <2>5, <2>6, OwnerStands, WriterStands
       DEF CallFrame, TypeOK, PipelineTypeOK
<1>. QED
  BY <1>1, <1>2 DEF FinishCall

LEMMA NextStageType ==
  ASSUME call \in Call, call.stage \in Stage
  PROVE  [call EXCEPT !.phase = "stage", !.stage = @ + 1] \in Call
<1>1. call.stage + 1 \in 1 .. NumStages + 1
  BY StaticPipelineAssumption DEF Stage
<1>. QED
  BY <1>1 DEF Call, Phase

LEMMA StageFailsType ==
  ASSUME Inv, StageFails
  PROVE  OwnerTypeOK' /\ WriterTypeOK' /\ PipelineTypeOK'
<1>1. call.stage \in Stage /\ descriptors[call.stage] \in Descriptors
  BY DEF Inv, CallInv, StageFails, TypeOK, PipelineTypeOK
<1>2. Running.onError \in ErrorPolicy \ {"infallible"}
  BY <1>1, StaticPipelineAssumption DEF Running, Descriptor, StageFails
<1>3. FailureStatus[Running.onError] \in StageStatus
  BY <1>2 DEF FailureStatus, StageStatus
<1>4. Running.onError # "continue_active" => Running.terminal \in Terminal
  BY <1>1, <1>2, Recordables DEF Running, ErrorPolicy
<1>5. disposition.active \in SUBSET Slot
  BY DEF Inv, TypeOK, WriterTypeOK, Disposition
<1>6. WriterTypeOK'
  BY <1>4, <1>5, RecordType, WriterStands DEF StageFails, ApplyFailure, Inv, TypeOK
<1>7. call' \in Call
  BY <1>1, NextStageType DEF StageFails, StageDone, Inv, TypeOK, PipelineTypeOK
<1>8. OwnerTypeOK'
  BY OwnerStands DEF StageFails, Inv, TypeOK
<1>. QED
  BY <1>3, <1>6, <1>7, <1>8
     DEF StageFails, StageDone, CallFrame, Inv, TypeOK, PipelineTypeOK

LEMMA CallPipelineType ==
  ASSUME Inv, CallPipeline \/ Worker \/ DuringCallback
  PROVE  TypeOK'
<1>0. /\ TrackerTypeOK
      /\ OwnerTypeOK
      /\ PoolTypeOK
      /\ WriterTypeOK
      /\ PipelineTypeOK
      /\ HarnessTypeOK
  BY DEF Inv, TypeOK, HarnessTypeOK
<1>1. UNCHANGED <<trackerVars, poolVars, harnessVars>>
  BY DEF CallPipeline, EnterCall, RejectCall, DuringCallback, CallbackStep,
         StageRecords, StageEdits, Worker, WorkerStep, BeginStage,
         InvocationFails, SkipStage, StageSucceeds, StageOverruns, StageFails,
         StageDone, FinishCall, FailCall, CallFrame
<1>2. OwnerTypeOK' /\ WriterTypeOK' /\ PipelineTypeOK'
  <2>1. ASSUME NEW n \in 0 .. MaxBatch, EnterCall(liveGeneration, n)
        PROVE  OwnerTypeOK' /\ WriterTypeOK' /\ PipelineTypeOK'
    <3>1. WriterTypeOK' /\ disposition'.handle \in 1 .. MaxWriterGeneration
      BY <1>0, <2>1, InitWriterType DEF EnterCall
    <3>2. liveGeneration \in 0 .. MaxGeneration
      BY <1>0, BatchOwnerAssumption DEF OwnerTypeOK
    <3>3. Idle \in Call
      BY StaticPipelineAssumption, BatchOwnerAssumption, DispositionWriterAssumption
         DEF Idle, Call, Phase
    <3>4. call' \in Call
      <4>1. disposition'.handle \in 0 .. MaxWriterGeneration
        BY <3>1, DispositionWriterAssumption
      <4>2. call' = [Idle EXCEPT !.phase = "stage", !.batch = liveGeneration,
                                 !.writer = disposition'.handle]
        BY <2>1 DEF EnterCall
      <4>. QED
        BY <3>2, <3>3, <4>1, <4>2 DEF Call, Phase
    <3>. QED
      BY <1>0, <2>1, <3>1, <3>4, OwnerStands DEF EnterCall, CallFrame, PipelineTypeOK
  <2>2. ASSUME NEW n \in 0 .. MaxBatch, RejectCall(liveGeneration, n)
        PROVE  OwnerTypeOK' /\ WriterTypeOK' /\ PipelineTypeOK'
    <3>1. call' \in Call
      BY <1>0, <2>2 DEF RejectCall, PipelineTypeOK, Call, Phase
    <3>. QED
      BY <1>0, <2>2, <3>1, OwnerStands, WriterStands
         DEF RejectCall, CallFrame, PipelineTypeOK
  <2>3. CASE BeginStage
    <3>1. call' \in Call
      BY <1>0, <2>3 DEF BeginStage, PipelineTypeOK, WriterTypeOK, Disposition,
                        Call, Phase
    <3>. QED
      BY <1>0, <2>3, <3>1, OwnerStands, WriterStands
         DEF BeginStage, CallFrame, PipelineTypeOK
  <2>4. CASE InvocationFails
    BY <2>4, FailCallType DEF InvocationFails, Inv
  <2>5. CASE SkipStage
    <3>1. call.stage \in Stage
      BY <1>0, <2>5 DEF SkipStage, StageDue, PipelineTypeOK, Call, Stage
    <3>. QED
      BY <1>0, <2>5, <3>1, OwnerStands, WriterStands
         DEF SkipStage, CallFrame, PipelineTypeOK, StageStatus
  <2>6. CASE StageSucceeds
    <3>1. call.stage \in Stage
      BY <2>6 DEF StageSucceeds, Inv, CallInv
    <3>2. call' \in Call
      BY <1>0, <2>6, <3>1, NextStageType DEF StageSucceeds, StageDone, PipelineTypeOK
    <3>. QED
      BY <1>0, <2>6, <3>1, <3>2, OwnerStands, WriterStands
         DEF StageSucceeds, StageDone, CallFrame, PipelineTypeOK, StageStatus
  <2>7. CASE StageOverruns
    BY <2>7, FailCallType DEF StageOverruns, Inv
  <2>8. CASE StageFails
    BY <2>8, StageFailsType
  <2>9. CASE FinishCall
    BY <2>9, FinishCallType DEF Inv
  <2>10. ASSUME NEW S \in SUBSET Slot, NEW kind \in Terminal, StageRecords(S, kind)
         PROVE  OwnerTypeOK' /\ WriterTypeOK' /\ PipelineTypeOK'
    BY <1>0, <2>10, RecordType, OwnerStands
       DEF StageRecords, CallFrame, PipelineTypeOK
  <2>11. ASSUME NEW i \in Slot, StageEdits(i)
         PROVE  OwnerTypeOK' /\ WriterTypeOK' /\ PipelineTypeOK'
    BY <1>0, <2>11, JournalType, WriterStands
       DEF StageEdits, CallFrame, PipelineTypeOK
  <2>. QED
    BY <2>1, <2>2, <2>3, <2>4, <2>5, <2>6, <2>7, <2>8, <2>9, <2>10, <2>11
       DEF CallPipeline, Worker, WorkerStep, DuringCallback, CallbackStep
<1>. QED
  BY <1>0, <1>1, <1>2, TrackerStands, PoolStands, HarnessStands
     DEF TypeOK, HarnessTypeOK

(* The steps of submit itself.                                             *)
LEMMA SubmissionType ==
  ASSUME Inv,
         \/ Enqueue \/ InputFails \/ ReceiveAll \/ OwnerFails \/ OpenBatch
         \/ CallFailed \/ CallReturned
         \/ CopyResults \/ CopyFails
         \/ SubmitNext \/ SubmitNextFails \/ OutputsDone
         \/ ReturnNext \/ ReturnsDone
         \/ Unwind \/ ReconcileNext \/ Reconciled
  PROVE  TypeOK'
<1>0. /\ TrackerTypeOK
      /\ OwnerTypeOK
      /\ PoolTypeOK
      /\ WriterTypeOK
      /\ PipelineTypeOK
      /\ HarnessTypeOK
  BY DEF Inv, TypeOK, HarnessTypeOK
<1>1. PipelineTypeOK' /\ PoolTypeOK'
  BY <1>0, PipelineStands, PoolStands
     DEF Enqueue, InputFails, ReceiveAll, OwnerFails, OpenBatch, CallFailed,
         CallReturned, CopyResults, CopyFails, SubmitNext, SubmitNextFails,
         OutputsDone, ReturnNext, ReturnsDone, Unwind, ReconcileNext, Reconciled
<1>2. CASE Enqueue
  BY <1>0, <1>1, <1>2, RegisterType, OwnerStands, WriterStands, HarnessStands
     DEF Enqueue, TypeOK, HarnessTypeOK
<1>3. CASE InputFails \/ OwnerFails \/ CallFailed \/ CopyFails \/ SubmitNextFails
  <2>1. HarnessTypeOK'
    BY <1>0, <1>3 DEF InputFails, OwnerFails, CallFailed, CopyFails,
                      SubmitNextFails, Raise, HarnessTypeOK, Place
  <2>. QED
    BY <1>0, <1>1, <1>3, <2>1, TrackerStands, OwnerStands, WriterStands
       DEF InputFails, OwnerFails, CallFailed, CopyFails, SubmitNextFails,
           TypeOK, HarnessTypeOK
<1>4. CASE ReceiveAll
  <2>1. IsFiniteSet(1 .. fixtures)
    BY <1>0, FS_Interval, BatchOwnerAssumption DEF HarnessTypeOK
  <2>2. TrackerTypeOK'
    BY <1>0, <1>4, <2>1, TransferType
       DEF ReceiveAll, ReceiveTokens, TokenState, OutstandingState
  <2>3. HarnessTypeOK'
    BY <1>0, <1>4 DEF ReceiveAll, Goto, HarnessTypeOK, Place
  <2>. QED
    BY <1>0, <1>1, <1>4, <2>2, <2>3, OwnerStands, WriterStands
       DEF ReceiveAll, TypeOK, HarnessTypeOK
<1>5. CASE OpenBatch
  <2>1. fixtures \in Nat /\ registered = fixtures
    BY <1>0, <1>5, BatchOwnerAssumption
       DEF OpenBatch, HarnessTypeOK, Inv, TokenInv
  <2>2. 1 .. fixtures \subseteq Token
    BY <1>0, <2>1, NumTokensAssumption DEF TrackerTypeOK, Token
  <2>3. [i \in 1 .. fixtures |-> i] \in Seq(Token)
    BY <2>1, <2>2
  <2>4. OwnerTypeOK'
    BY <1>0, <1>5, <2>3, BeginType DEF OpenBatch
  <2>5. WriterTypeOK'
    BY <1>0, <1>5, NoWriterType DEF OpenBatch, WriterTypeOK
  <2>6. HarnessTypeOK'
    BY <1>0, <1>5 DEF OpenBatch, Goto, HarnessTypeOK, Place
  <2>. QED
    BY <1>0, <1>1, <1>5, <2>4, <2>5, <2>6, TrackerStands
       DEF OpenBatch, TypeOK, HarnessTypeOK
<1>6. CASE CallReturned \/ Reconciled
  <2>1. HarnessTypeOK'
    BY <1>0, <1>6 DEF CallReturned, Reconciled, Goto, HarnessTypeOK, Place
  <2>. QED
    BY <1>0, <1>1, <1>6, <2>1, TrackerStands, OwnerStands, WriterStands
       DEF CallReturned, Reconciled, TypeOK, HarnessTypeOK
<1>7. CASE CopyResults
  <2>1. todo' \in Seq(Slot)
    <3>1. /\ call.phase = "returned"
          /\ Resolvable(config, Kinds)
          /\ groups = Resolve(config, Kinds)
      BY <1>7 DEF CopyResults, Inv, PlaceInv, CallInv
    <3>2. Grouped(config, Kinds, disposition.length, groups, disposition.length)
      BY <3>1, ResultGrouped DEF Inv
    <3>3. disposition.length \in 0 .. MaxBatch /\ disposition.length \in Nat
      BY <1>0, BatchOwnerAssumption DEF WriterTypeOK, Disposition
    <3>4. Len(config.outputs) \in Nat /\ DOMAIN config.outputs = 1 .. Len(config.outputs)
      BY <1>0 DEF PipelineTypeOK, Config
    <3>5. Result \in Seq(1 .. disposition.length)
      <4>1. Ordered(config, Kinds, disposition.length, Result, Len(config.outputs))
        BY <3>2, <3>3, <3>4, OutputOrder DEF Result
      <4>. QED
        BY <4>1 DEF Ordered
    <3>6. 1 .. disposition.length \subseteq Slot
      BY <3>3, BatchOwnerAssumption DEF Slot
    <3>. QED
      BY <1>7, <3>5, <3>6, SeqOfMore DEF CopyResults, Result
  <2>2. HarnessTypeOK'
    BY <1>0, <1>7, <2>1 DEF CopyResults, HarnessTypeOK, Place
  <2>. QED
    BY <1>0, <1>1, <1>7, <2>2, TrackerStands, OwnerStands, WriterStands
       DEF CopyResults, TypeOK, HarnessTypeOK
<1>8. CASE SubmitNext
  <2>1. TrackerTypeOK' /\ OwnerTypeOK'
    <3>1. TrackerTypeOK'
      BY <1>0, <1>8, SingleTransferType DEF SubmitNext
    <3>2. OwnerTypeOK'
      BY <1>0, <1>8 DEF SubmitNext, MarkEscaped, OwnerTypeOK
    <3>. QED  BY <3>1, <3>2
  <2>2. HarnessTypeOK'
    <3>1. Head(todo) \in Slot /\ Tail(todo) \in Seq(Slot)
      BY <1>0, <1>8 DEF SubmitNext, HarnessTypeOK
    <3>. QED
      BY <1>0, <1>8, <3>1 DEF SubmitNext, HarnessTypeOK
  <2>. QED
    BY <1>0, <1>1, <1>8, <2>1, <2>2, WriterStands DEF SubmitNext, TypeOK, HarnessTypeOK
<1>9. CASE OutputsDone
  <2>1. todo' \in Seq(Slot)
    <3>1. /\ call.phase = "returned"
          /\ Resolvable(config, Kinds)
          /\ groups = Resolve(config, Kinds)
      BY <1>9 DEF OutputsDone, Inv, PlaceInv, CallInv
    <3>2. Grouped(config, Kinds, disposition.length, groups, disposition.length)
      BY <3>1, ResultGrouped DEF Inv
    <3>3. {"drop", "complete"} \subseteq DOMAIN groups
      BY <3>2 DEF Grouped, GroupNames
    <3>4. groups["drop"] \in Seq(Slot) /\ groups["complete"] \in Seq(Slot)
      BY <1>0, <3>3 DEF PipelineTypeOK
    <3>. QED
      BY <1>9, <3>4 DEF OutputsDone
  <2>2. HarnessTypeOK'
    BY <1>0, <1>9, <2>1 DEF OutputsDone, HarnessTypeOK, Place
  <2>. QED
    BY <1>0, <1>1, <1>9, <2>2, TrackerStands, OwnerStands, WriterStands
       DEF OutputsDone, TypeOK, HarnessTypeOK
<1>10. CASE ReturnNext \/ ReconcileNext
  <2>1. TrackerTypeOK'
    BY <1>0, <1>10, SingleTransferType, ReconcileType DEF ReturnNext, ReconcileNext
  <2>2. HarnessTypeOK'
    <3>1. Tail(todo) \in Seq(Slot)
      BY <1>0, <1>10 DEF ReturnNext, ReconcileNext, HarnessTypeOK
    <3>. QED
      BY <1>0, <1>10, <3>1 DEF ReturnNext, ReconcileNext, HarnessTypeOK
  <2>. QED
    BY <1>0, <1>1, <1>10, <2>1, <2>2, OwnerStands, WriterStands
       DEF ReturnNext, ReconcileNext, TypeOK, HarnessTypeOK
<1>11. CASE ReturnsDone
  <2>1. OwnerTypeOK'
    BY <1>0, <1>11, InvalidateType DEF ReturnsDone
  <2>2. HarnessTypeOK'
    BY <1>0, <1>11 DEF ReturnsDone, HarnessTypeOK, Place
  <2>. QED
    BY <1>0, <1>1, <1>11, <2>1, <2>2, TrackerStands, WriterStands
       DEF ReturnsDone, TypeOK, HarnessTypeOK
<1>12. CASE Unwind
  <2>1. OwnerTypeOK'
    BY <1>0, <1>12, InvalidateType, OwnerStands DEF Unwind
  <2>2. Received \in 0 .. MaxBatch /\ Received \in Nat
    BY <1>0, BatchOwnerAssumption DEF Received, HarnessTypeOK
  <2>3. 1 .. Received \subseteq Slot
    BY <2>2, BatchOwnerAssumption DEF Slot
  <2>4. todo' \in Seq(Slot)
    BY <1>12, <2>2, <2>3 DEF Unwind
  <2>5. HarnessTypeOK'
    BY <1>0, <1>12, <2>4 DEF Unwind, HarnessTypeOK, Place
  <2>. QED
    BY <1>0, <1>1, <1>12, <2>1, <2>5, TrackerStands, WriterStands
       DEF Unwind, TypeOK, HarnessTypeOK
<1>. QED
  BY <1>2, <1>3, <1>4, <1>5, <1>6, <1>7, <1>8, <1>9, <1>10, <1>11, <1>12

-----------------------------------------------------------------------------
(***************************************************************************)
(* The steps of the pipeline call.                                         *)
(***************************************************************************)

(* What recording a selection changes, and that only active packets are    *)
(* in it.                                                                  *)
LEMMA RecordFields ==
  ASSUME WriterTypeOK, NEW w, NEW S, NEW kind, RecordTerminal(w, S, kind)
  PROVE  /\ S \subseteq disposition.active
         /\ disposition'.length = disposition.length
         /\ disposition'.handle = disposition.handle
         /\ disposition'.batch = disposition.batch
         /\ disposition'.active = disposition.active \ S
         /\ \A i \in 1 .. disposition.length :
              Kinds'[i] = IF i \in S THEN kind ELSE Kinds[i]
<1>1. disposition' = [disposition EXCEPT
         !.values = [i \in Slot |-> IF i \in S THEN [kind |-> kind] ELSE @[i]],
         !.active = @ \ S]
  BY DEF RecordTerminal
<1>2. /\ disposition'.length = disposition.length
      /\ disposition'.handle = disposition.handle
      /\ disposition'.batch = disposition.batch
      /\ disposition'.active = disposition.active \ S
      /\ disposition'.values =
           [i \in Slot |-> IF i \in S THEN [kind |-> kind] ELSE disposition.values[i]]
  BY <1>1 DEF WriterTypeOK, Disposition
<1>3. 1 .. disposition.length \subseteq Slot
  BY BatchOwnerAssumption DEF WriterTypeOK, Disposition, Slot
<1>4. ASSUME NEW i \in 1 .. disposition.length
      PROVE  Kinds'[i] = IF i \in S THEN kind ELSE Kinds[i]
  <2>1. Kinds'[i] = disposition'.values[i].kind
    BY <1>2 DEF Kinds
  <2>2. Kinds[i] = disposition.values[i].kind
    BY DEF Kinds
  <2>. QED
    BY <1>2, <1>3, <2>1, <2>2
<1>. QED
  BY <1>2, <1>4 DEF RecordTerminal

(* A stage that has run adds what it may record to what was authorized.    *)
LEMMA AuthorizedGrows ==
  ASSUME PipelineTypeOK, descriptors' = descriptors,
         NEW k \in Stage, NEW result, result # "not_run",
         status' = [status EXCEPT ![k] = result]
  PROVE  /\ Authorized \subseteq Authorized'
         /\ Recordable(descriptors[k]) \subseteq Authorized'
<1>1. \A j \in Stage : status[j] # "not_run" => status'[j] # "not_run"
  BY DEF PipelineTypeOK
<1>2. status'[k] # "not_run"
  BY DEF PipelineTypeOK
<1>. QED
  BY <1>1, <1>2 DEF Authorized

(* The parts of the invariant that speak of the call.                      *)
CallParts == PlaceInv /\ CallInv /\ StatusInv /\ StageInv /\ DecidedInv

LEMMA EnterCallInv ==
  ASSUME Inv, at = "processing", UNCHANGED harnessVars,
         NEW n, EnterCall(liveGeneration, n)
  PROVE  CallParts'
<1>1. /\ call.phase = "idle"
      /\ liveGeneration # 0
      /\ ConfigAccepted
      /\ nextGeneration # 0
  BY DEF EnterCall, CallAccepted, Inv, TypeOK, OwnerTypeOK, BatchLive
<1>2. /\ call'.phase = "stage"
      /\ call'.batch = liveGeneration
      /\ call'.writer = disposition'.handle
      /\ call'.stage = 1
      /\ call'.started = FALSE
  BY DEF EnterCall, Idle
<1>3. /\ disposition'.handle = nextWriter + 1
      /\ disposition'.batch = liveGeneration
      /\ disposition'.length = Len(slots)
      /\ disposition'.active = 1 .. Len(slots)
      /\ disposition'.values = [i \in Slot |-> Continue]
  BY DEF EnterCall, InitWriter
<1>4. nextWriter + 1 # 0
  BY DispositionWriterAssumption DEF Inv, TypeOK, WriterTypeOK
<1>5. UNCHANGED <<ownerVars, descriptors, config, status, groups>>
  BY DEF EnterCall, CallFrame
<1>6. PlaceInv'
  BY <1>1, <1>2, <1>5 DEF Inv, PlaceInv, harnessVars, ownerVars
<1>7. ConfigAccepted'
  BY <1>1, <1>5 DEF ConfigAccepted
<1>8. CallInv'
  BY <1>1, <1>2, <1>3, <1>4, <1>5, <1>7
     DEF Inv, CallInv, harnessVars, ownerVars, WriterLive
<1>9. StageInv'
  <2>1. \A k \in Stage : status[k] = "not_run"
    BY <1>1 DEF Inv, StatusInv
  <2>2. \A k \in Stage : ~ (k < 1)
    BY DEF Stage
  <2>. QED
    BY <1>2, <1>5, <2>1, <2>2 DEF StageInv
<1>10. DecidedInv'
  <2>1. 1 .. Len(slots) \subseteq Slot
    BY BatchOwnerAssumption DEF Inv, TypeOK, OwnerTypeOK, Slot
  <2>2. \A i \in 1 .. Len(slots) : Kinds'[i] = "continue"
    BY <1>3, <2>1 DEF Kinds, Continue
  <2>. QED
    BY <1>2, <1>3, <2>2 DEF DecidedInv
<1>. QED
  BY <1>2, <1>6, <1>8, <1>9, <1>10 DEF CallParts, StatusInv

LEMMA RejectCallInv ==
  ASSUME Inv, at = "processing", UNCHANGED harnessVars,
         NEW n, RejectCall(liveGeneration, n)
  PROVE  CallParts'
<1>1. /\ call.phase = "idle" /\ call'.phase = "failed" /\ call'.started = FALSE
      /\ UNCHANGED <<ownerVars, writerVars, status, groups>>
  BY DEF RejectCall, Inv, CallInv, Idle
<1>. QED
  BY <1>1 DEF Inv, CallParts, PlaceInv, CallInv, StatusInv, StageInv, DecidedInv,
              harnessVars, ownerVars

LEMMA FailCallInv ==
  ASSUME Inv, at = "processing", UNCHANGED harnessVars,
         call.phase \in {"stage", "callback"}, FailCall
  PROVE  CallParts' /\ (call.started => liveGeneration' = 0)
<1>1. /\ call'.phase = "failed" /\ call'.started = call.started
      /\ UNCHANGED <<writerVars, status, groups>>
  BY DEF FailCall, Inv, TypeOK, PipelineTypeOK, Call
<1>2. /\ call.started => liveGeneration' = 0
      /\ UNCHANGED <<nextGeneration, slots>>
  BY DEF FailCall, Invalidate, ownerVars
<1>. QED
  BY <1>1, <1>2 DEF Inv, CallParts, PlaceInv, CallInv, StatusInv, StageInv,
                    DecidedInv, harnessVars

LEMMA BeginStageInv ==
  ASSUME Inv, at = "processing", UNCHANGED harnessVars, BeginStage
  PROVE  CallParts'
<1>1. /\ call.phase = "stage" /\ call'.phase = "callback" /\ call'.started
      /\ call'.stage = call.stage /\ call'.batch = call.batch
      /\ call'.writer = call.writer
      /\ call.stage \in Stage
      /\ UNCHANGED <<ownerVars, writerVars, status, groups, descriptors, config>>
  BY DEF BeginStage, StageDue, CallFrame, Inv, TypeOK, PipelineTypeOK, Call, Stage
<1>2. Kinds' = Kinds /\ Authorized' = Authorized /\ (ConfigAccepted <=> ConfigAccepted')
  BY <1>1 DEF Kinds, Authorized, ConfigAccepted, writerVars
<1>3. PlaceInv'
  BY <1>1 DEF Inv, PlaceInv, harnessVars, ownerVars
<1>4. CallInv'
  BY <1>1, <1>2 DEF Inv, CallInv, WriterLive, harnessVars, ownerVars, writerVars
<1>5. StatusInv' /\ StageInv'
  BY <1>1 DEF Inv, StatusInv, StageInv, writerVars
<1>6. DecidedInv'
  BY <1>1, <1>2 DEF Inv, DecidedInv, writerVars
<1>. QED
  BY <1>3, <1>4, <1>5, <1>6 DEF CallParts

LEMMA SkipStageInv ==
  ASSUME Inv, at = "processing", UNCHANGED harnessVars, SkipStage
  PROVE  CallParts'
<1>1. /\ call.phase = "stage" /\ disposition.active = {}
      /\ call.stage \in Stage
      /\ status' = [status EXCEPT ![call.stage] = "skipped_empty"]
      /\ UNCHANGED <<ownerVars, writerVars, call, groups, descriptors, config>>
  BY DEF SkipStage, StageDue, CallFrame, Inv, TypeOK, PipelineTypeOK, Call, Stage
<1>2. Kinds' = Kinds /\ (ConfigAccepted <=> ConfigAccepted')
  BY <1>1 DEF Kinds, ConfigAccepted, writerVars
<1>3. Authorized \subseteq Authorized'
  BY <1>1, AuthorizedGrows DEF Inv, TypeOK
<1>4. PlaceInv'
  BY <1>1 DEF Inv, PlaceInv, harnessVars, ownerVars
<1>5. CallInv'
  BY <1>1, <1>2 DEF Inv, CallInv, WriterLive, harnessVars, ownerVars, writerVars
<1>6. StatusInv' /\ StageInv'
  <2>1. \A k \in Stage : k < call.stage => status'[k] = status[k]
    BY <1>1 DEF Inv, TypeOK, PipelineTypeOK, Stage
  <2>. QED
    BY <1>1, <2>1 DEF Inv, StatusInv, StageInv, writerVars
<1>7. DecidedInv'
  BY <1>1, <1>2, <1>3 DEF Inv, DecidedInv, writerVars
<1>. QED
  BY <1>4, <1>5, <1>6, <1>7 DEF CallParts

(* The callback returns and the stage has its status.                      *)
LEMMA StageDoneInv ==
  ASSUME Inv, at = "processing", UNCHANGED harnessVars, UNCHANGED ownerVars,
         NEW result \in {"ok", "failed_continue", "failed_terminal", "failed_stop"},
         call.phase = "callback", StageDone(result),
         \/ UNCHANGED writerVars
         \/ RecordTerminal(call.writer, disposition.active, Running.terminal)
              /\ Running.terminal \in Recordable(Running),
         result \in {"failed_terminal", "failed_stop"} => disposition'.active = {}
  PROVE  CallParts'
<1>0. TypeOK /\ WriterTypeOK /\ PipelineTypeOK
  BY DEF Inv, TypeOK
<1>1. /\ call'.phase = "stage" /\ call'.stage = call.stage + 1
      /\ call'.batch = call.batch /\ call'.writer = call.writer
      /\ call.stage \in Stage
      /\ status' = [status EXCEPT ![call.stage] = result]
      /\ UNCHANGED <<groups, descriptors, config>>
  BY <1>0 DEF StageDone, CallFrame, Inv, CallInv, PipelineTypeOK, Call
<1>2. /\ disposition'.length = disposition.length
      /\ disposition'.handle = disposition.handle
      /\ disposition'.batch = disposition.batch
      /\ disposition'.active \subseteq disposition.active
  BY <1>0, RecordFields DEF writerVars
<1>3. ConfigAccepted <=> ConfigAccepted'
  BY <1>1 DEF ConfigAccepted
<1>4. Authorized \subseteq Authorized' /\ Recordable(Running) \subseteq Authorized'
  BY <1>0, <1>1, AuthorizedGrows DEF Running
<1>5. PlaceInv'
  BY <1>1 DEF Inv, PlaceInv, harnessVars, ownerVars
<1>6. CallInv'
  BY <1>1, <1>2, <1>3 DEF Inv, CallInv, WriterLive, harnessVars, ownerVars
<1>7. StatusInv' /\ StageInv'
  <2>1. \A k \in Stage : k # call.stage => status'[k] = status[k]
    BY <1>0, <1>1 DEF PipelineTypeOK
  <2>2. status'[call.stage] = result
    BY <1>0, <1>1 DEF PipelineTypeOK
  <2>3. \A k \in Stage : k < call.stage + 1 => k = call.stage \/ k < call.stage
    BY <1>1 DEF Stage
  <2>4. ASSUME NEW k \in Stage, k < call'.stage
        PROVE  status'[k] \in {"ok", "failed_continue", "failed_terminal", "failed_stop"}
    BY <1>1, <2>1, <2>2, <2>3, <2>4 DEF Inv, StageInv
  <2>5. ASSUME NEW k \in Stage,
               status'[k] \in {"failed_terminal", "failed_stop", "skipped_empty"}
        PROVE  disposition'.active = {}
    <3>1. CASE k = call.stage
      BY <2>2, <2>5, <3>1
    <3>2. CASE k # call.stage
      BY <1>2, <2>1, <2>5, <3>2 DEF Inv, StageInv
    <3>. QED
      BY <3>1, <3>2
  <2>. QED
    BY <1>1, <2>4, <2>5 DEF StatusInv, StageInv
<1>8. DecidedInv'
  <2>1. CASE UNCHANGED writerVars
    <3>1. Kinds' = Kinds /\ disposition' = disposition
      BY <2>1 DEF Kinds, writerVars
    <3>. QED
      BY <1>1, <1>4, <3>1 DEF Inv, DecidedInv
  <2>2. CASE RecordTerminal(call.writer, disposition.active, Running.terminal)
               /\ Running.terminal \in Recordable(Running)
    <3>1. /\ disposition'.active = {}
          /\ \A i \in 1 .. disposition.length :
               Kinds'[i] = IF i \in disposition.active THEN Running.terminal ELSE Kinds[i]
      BY <1>0, <2>2, RecordFields
    <3>2. descriptors[call.stage] \in Descriptors
      BY <1>0, <1>1 DEF PipelineTypeOK
    <3>3. Running.terminal # "continue" /\ Running.terminal \in Authorized'
      BY <1>4, <2>2, <3>2, Recordables DEF Running
    <3>4. \A i \in 1 .. disposition.length :
            Kinds'[i] # "continue" /\ Kinds'[i] \in Authorized'
      BY <1>4, <3>1, <3>3 DEF Inv, DecidedInv
    <3>. QED
      BY <1>1, <1>2, <3>1, <3>4 DEF DecidedInv
  <2>. QED
    BY <2>1, <2>2
<1>. QED
  BY <1>5, <1>6, <1>7, <1>8 DEF CallParts

LEMMA StageSucceedsInv ==
  ASSUME Inv, at = "processing", UNCHANGED harnessVars, StageSucceeds
  PROVE  CallParts'
BY StageDoneInv DEF StageSucceeds

LEMMA StageFailsInv ==
  ASSUME Inv, at = "processing", UNCHANGED harnessVars, StageFails
  PROVE  CallParts'
<1>1. /\ call.phase = "callback"
      /\ Running.onError # "infallible"
      /\ ApplyFailure
      /\ StageDone(FailureStatus[Running.onError])
      /\ UNCHANGED ownerVars
  BY DEF StageFails
<1>2. descriptors[call.stage] \in Descriptors
  BY <1>1 DEF Inv, CallInv, TypeOK, PipelineTypeOK
<1>3. Running.onError \in ErrorPolicy \ {"infallible"}
  BY <1>1, <1>2, StaticPipelineAssumption DEF Running, Descriptor
<1>4. /\ Running.onError = "continue_active" =>
           FailureStatus[Running.onError] = "failed_continue"
      /\ Running.onError # "continue_active" =>
           /\ FailureStatus[Running.onError] \in {"failed_terminal", "failed_stop"}
           /\ Running.terminal \in Recordable(Running)
  BY <1>2, <1>3, Recordables DEF FailureStatus, Running, ErrorPolicy
<1>5. CASE Running.onError # "continue_active" /\ disposition.active # {}
  <2>1. RecordTerminal(call.writer, disposition.active, Running.terminal)
    BY <1>1, <1>5 DEF ApplyFailure
  <2>2. disposition'.active = {}
    BY <2>1, RecordFields DEF Inv, TypeOK
  <2>. QED
    BY <1>1, <1>4, <1>5, <2>1, <2>2, StageDoneInv
<1>6. CASE ~ (Running.onError # "continue_active" /\ disposition.active # {})
  <2>1. UNCHANGED writerVars
    BY <1>1, <1>6 DEF ApplyFailure
  <2>. QED
    BY <1>1, <1>4, <1>6, <2>1, StageDoneInv DEF writerVars
<1>. QED
  BY <1>5, <1>6

(* The loop ends with a result: routing cannot fail any more.              *)
LEMMA FinishCallResult ==
  ASSUME Inv, FinishCall
  PROVE  /\ groups' = Resolve(config, Kinds)
         /\ call' = [call EXCEPT !.phase = "returned"]
         /\ UNCHANGED <<ownerVars, writerVars, status>>
         /\ CallFrame
<1>1. WriterLive(call.writer)
  BY DEF FinishCall, Inv, CallInv
<1>2. Resolvable(config, Kinds)
  BY RoutingDecided DEF FinishCall
<1>. QED
  BY <1>1, <1>2 DEF FinishCall

LEMMA FinishCallInv ==
  ASSUME Inv, at = "processing", UNCHANGED harnessVars, FinishCall
  PROVE  CallParts'
<1>1. /\ call.phase = "stage" /\ call'.phase = "returned"
      /\ call'.stage = call.stage
      /\ call.stage > NumStages \/ Halted
      /\ groups' = Resolve(config, Kinds)
      /\ UNCHANGED <<ownerVars, writerVars, status, descriptors, config>>
  BY FinishCallResult DEF FinishCall, CallFrame, Inv, TypeOK, PipelineTypeOK, Call
<1>2. /\ Kinds' = Kinds /\ Authorized' = Authorized
      /\ (Halted' <=> Halted) /\ (ConfigAccepted' <=> ConfigAccepted)
  BY <1>1 DEF Kinds, Authorized, Halted, ConfigAccepted, writerVars
<1>3. Resolvable(config, Kinds)
  BY <1>1, RoutingDecided
<1>4. PlaceInv'
  BY <1>1 DEF Inv, PlaceInv, harnessVars, ownerVars
<1>5. CallInv'
  BY <1>1, <1>2, <1>3 DEF Inv, CallInv, ownerVars, writerVars
<1>6. StatusInv' /\ StageInv'
  BY <1>1, <1>2 DEF Inv, StatusInv, StageInv, writerVars
<1>7. DecidedInv'
  BY <1>1, <1>2 DEF Inv, DecidedInv, writerVars
<1>. QED
  BY <1>4, <1>5, <1>6, <1>7 DEF CallParts

LEMMA StageRecordsInv ==
  ASSUME Inv, at = "processing", UNCHANGED harnessVars,
         NEW S \in SUBSET Slot, NEW kind \in Terminal, StageRecords(S, kind)
  PROVE  CallParts'
<1>1. /\ call.phase = "callback" /\ kind \in Recordable(Running)
      /\ RecordTerminal(call.writer, S, kind)
      /\ UNCHANGED <<ownerVars, call, status, groups, descriptors, config>>
  BY DEF StageRecords, CallFrame
<1>2. /\ disposition'.length = disposition.length
      /\ disposition'.handle = disposition.handle
      /\ disposition'.batch = disposition.batch
      /\ disposition'.active = disposition.active \ S
      /\ \A i \in 1 .. disposition.length :
           Kinds'[i] = IF i \in S THEN kind ELSE Kinds[i]
  BY <1>1, RecordFields DEF Inv, TypeOK
<1>3. Authorized' = Authorized /\ Running' = Running
      /\ (ConfigAccepted' <=> ConfigAccepted)
  BY <1>1 DEF Authorized, Running, ConfigAccepted
<1>4. PlaceInv'
  BY <1>1 DEF Inv, PlaceInv, harnessVars, ownerVars
<1>5. CallInv'
  BY <1>1, <1>2, <1>3 DEF Inv, CallInv, WriterLive, harnessVars, ownerVars
<1>6. StatusInv' /\ StageInv'
  BY <1>1, <1>2 DEF Inv, StatusInv, StageInv
<1>7. DecidedInv'
  <2>1. kind # "continue"
    BY DispositionWriterAssumption
  <2>2. Recordable(Running') = Recordable(Running)
    BY <1>3
  <2>3. disposition'.active = {i \in 1 .. disposition.length : Kinds'[i] = "continue"}
    BY <1>1, <1>2, <2>1 DEF Inv, DecidedInv
  <2>4. ASSUME NEW i \in 1 .. disposition.length, Kinds'[i] # "continue"
        PROVE  Kinds'[i] \in Authorized \/ Kinds'[i] \in Recordable(Running)
    BY <1>1, <1>2, <2>4 DEF Inv, DecidedInv
  <2>. QED
    BY <1>1, <1>2, <1>3, <2>2, <2>3, <2>4 DEF DecidedInv
<1>. QED
  BY <1>4, <1>5, <1>6, <1>7 DEF CallParts

LEMMA StageEditsInv ==
  ASSUME Inv, at = "processing", UNCHANGED harnessVars,
         NEW i \in Slot, StageEdits(i)
  PROVE  CallParts'
<1>1. /\ UNCHANGED <<writerVars, call, status, groups, descriptors, config>>
      /\ UNCHANGED <<nextGeneration, liveGeneration, slots>>
  BY DEF StageEdits, Edit, Finalize, JournalStep, CallFrame
<1>2. /\ Kinds' = Kinds /\ Authorized' = Authorized /\ Running' = Running
      /\ (ConfigAccepted' <=> ConfigAccepted)
  BY <1>1 DEF Kinds, Authorized, Running, ConfigAccepted, writerVars
<1>3. PlaceInv'
  BY <1>1 DEF Inv, PlaceInv, harnessVars
<1>4. CallInv'
  BY <1>1, <1>2 DEF Inv, CallInv, WriterLive, harnessVars, writerVars
<1>5. StatusInv' /\ StageInv'
  BY <1>1 DEF Inv, StatusInv, StageInv, Halted, writerVars
<1>6. Recordable(Running') = Recordable(Running)
  BY <1>2
<1>7. DecidedInv'
  BY <1>1, <1>2, <1>6 DEF Inv, DecidedInv, writerVars
<1>. QED
  BY <1>3, <1>4, <1>5, <1>7 DEF CallParts

(* No step of the call moves a token or submits a packet.                  *)
LEMMA PipelineStepInv ==
  ASSUME Inv, CallPipeline \/ Worker \/ DuringCallback
  PROVE  Inv'
<1>1. at = "processing" /\ UNCHANGED harnessVars
  BY DEF CallPipeline, Worker, DuringCallback
<1>2. UNCHANGED trackerVars /\ (nextGeneration' = nextGeneration)
  BY DEF CallPipeline, EnterCall, RejectCall, DuringCallback, CallbackStep,
         StageRecords, StageEdits, Edit, Finalize, JournalStep, Worker,
         WorkerStep, BeginStage, InvocationFails, SkipStage, StageSucceeds,
         StageOverruns, StageFails, StageDone, FinishCall, FailCall,
         Invalidate, CallFrame, ownerVars
<1>3. CallParts'
  <2>1. CASE CallPipeline
    BY <1>1, <2>1, EnterCallInv, RejectCallInv DEF CallPipeline
  <2>2. CASE InvocationFails \/ StageOverruns
    BY <1>1, <2>2, FailCallInv DEF InvocationFails, StageOverruns, StageDue
  <2>3. CASE DuringCallback
    BY <1>1, <2>3, StageRecordsInv, StageEditsInv DEF DuringCallback, CallbackStep
  <2>4. CASE BeginStage \/ SkipStage \/ StageSucceeds \/ StageFails \/ FinishCall
    BY <1>1, <2>4, BeginStageInv, SkipStageInv, StageSucceedsInv, StageFailsInv,
       FinishCallInv
  <2>. QED
    BY <2>1, <2>2, <2>3, <2>4 DEF Worker, WorkerStep
<1>4. LoopInv'
  <2>1. submitted = << >> /\ outcome # "ok"
    BY <1>1 DEF Inv, LoopInv
  <2>2. Received' = Received
    BY <1>1, <1>2 DEF Received, trackerVars, harnessVars
  <2>. QED
    BY <1>1, <2>1, <2>2 DEF Inv, LoopInv, harnessVars
<1>5. TokenInv' /\ CountInv'
  BY <1>1, <1>2 DEF Inv, TokenInv, CountInv, Held, WorkerOwned, Received,
                    trackerVars, harnessVars
<1>. QED
  BY <1>3, <1>4, <1>5, CallPipelineType DEF Inv, CallParts

-----------------------------------------------------------------------------
(***************************************************************************)
(* The result, packet by packet.                                           *)
(***************************************************************************)

LEMMA HeadAndTail ==
  ASSUME NEW V, NEW s \in Seq(V), s # << >>
  PROVE  /\ Head(s) \in V
         /\ Tail(s) \in Seq(V)
         /\ ToSet(s) = {Head(s)} \cup ToSet(Tail(s))
         /\ IsInjective(s) => IsInjective(Tail(s)) /\ Head(s) \notin ToSet(Tail(s))
<1>1. /\ Head(s) = s[1] /\ Head(s) \in V
      /\ Tail(s) \in Seq(V)
      /\ Len(s) \in Nat /\ Len(s) >= 1
      /\ DOMAIN s = 1 .. Len(s)
      /\ DOMAIN Tail(s) = 1 .. Len(s) - 1
      /\ \A p \in 1 .. Len(s) - 1 : Tail(s)[p] = s[p + 1]
  OBVIOUS
<1>2. ToSet(s) = {Head(s)} \cup ToSet(Tail(s))
  <2>1. ASSUME NEW p \in DOMAIN s
        PROVE  s[p] \in {Head(s)} \cup ToSet(Tail(s))
    <3>1. CASE p = 1
      BY <1>1, <3>1
    <3>2. CASE p # 1
      <4>1. p - 1 \in DOMAIN Tail(s) /\ Tail(s)[p - 1] = s[p]
        BY <1>1, <3>2
      <4>. QED
        BY <4>1 DEF ToSet
    <3>. QED
      BY <3>1, <3>2
  <2>2. ASSUME NEW p \in DOMAIN Tail(s)
        PROVE  Tail(s)[p] \in ToSet(s)
    <3>1. p + 1 \in DOMAIN s /\ Tail(s)[p] = s[p + 1]
      BY <1>1
    <3>. QED
      BY <3>1 DEF ToSet
  <2>3. Head(s) \in ToSet(s)
    BY <1>1 DEF ToSet
  <2>. QED
    BY <2>1, <2>2, <2>3 DEF ToSet
<1>3. ASSUME IsInjective(s)
      PROVE  IsInjective(Tail(s)) /\ Head(s) \notin ToSet(Tail(s))
  <2>1. \A p, q \in DOMAIN s : s[p] = s[q] => p = q
    BY <1>3 DEF IsInjective
  <2>2. \A p \in DOMAIN Tail(s) : p + 1 \in DOMAIN s /\ p + 1 # 1 /\ Tail(s)[p] = s[p + 1]
    BY <1>1
  <2>3. ASSUME NEW p \in DOMAIN Tail(s), NEW q \in DOMAIN Tail(s),
               Tail(s)[p] = Tail(s)[q]
        PROVE  p = q
    <3>1. p + 1 = q + 1
      BY <2>1, <2>2, <2>3
    <3>. QED
      BY <1>1, <3>1
  <2>4. \A p \in DOMAIN Tail(s) : Tail(s)[p] # Head(s)
    BY <1>1, <2>1, <2>2
  <2>. QED
    BY <2>3, <2>4 DEF IsInjective, ToSet
<1>. QED
  BY <1>1, <1>2, <1>3

LEMMA PrefixOfConcat ==
  ASSUME NEW V, NEW s \in Seq(V), NEW t \in Seq(V)
  PROVE  IsPrefix(s, s \o t)
<1>1. /\ Len(s) \in Nat /\ Len(t) \in Nat
      /\ Len(s \o t) = Len(s) + Len(t)
      /\ \A p \in 1 .. Len(s) : (s \o t)[p] = s[p]
      /\ s \o t \in Seq(V)
  OBVIOUS
<1>2. SubSeq(s, 1, Len(s)) = s
  OBVIOUS
<1>3. SubSeq(s \o t, 1, Len(s)) = s
  BY <1>1
<1>. QED
  BY <1>1, <1>2, <1>3 DEF IsPrefix

(* In the order of distinct outputs no packet occurs twice.                *)
LEMMA OrderedOnce ==
  ASSUME NEW cfg, NEW m \in Nat, DOMAIN cfg.outputs = 1 .. m,
         IsInjective(cfg.outputs),
         NEW n \in Nat, NEW kinds, NEW order, Ordered(cfg, kinds, n, order, m)
  PROVE  IsInjective(order)
<1>1. ASSUME NEW p \in DOMAIN order, NEW q \in DOMAIN order, p < q
      PROVE  order[p] # order[q]
  <2>1. PICK j \in 1 .. m, l \in 1 .. m :
          /\ cfg.outputs[j] = Group(cfg, kinds[order[p]])
          /\ cfg.outputs[l] = Group(cfg, kinds[order[q]])
          /\ j < l \/ (j = l /\ order[p] < order[q])
    BY <1>1 DEF Ordered
  <2>2. order[p] \in 1 .. n /\ order[q] \in 1 .. n
    BY DEF Ordered
  <2>3. order[p] = order[q] => j = l
    BY <2>1 DEF IsInjective
  <2>. QED
    BY <2>1, <2>2, <2>3
<1>2. DOMAIN order \subseteq Int
  BY DEF Ordered
<1>3. ASSUME NEW p \in DOMAIN order, NEW q \in DOMAIN order, order[p] = order[q]
      PROVE  p = q
  BY <1>1, <1>2, <1>3
<1>. QED
  BY <1>3 DEF IsInjective

LEMMA ResultFacts ==
  ASSUME Inv, call.phase = "returned"
  PROVE  /\ fixtures \in Nat
         /\ Received = fixtures /\ disposition.length = fixtures
         /\ Grouped(config, Kinds, fixtures, groups, fixtures)
         /\ Len(config.outputs) \in Nat
         /\ DOMAIN config.outputs = 1 .. Len(config.outputs)
         /\ Ordered(config, Kinds, fixtures, Result, Len(config.outputs))
         /\ IsInjective(config.outputs)
         /\ IsInjective(Result)
         /\ \A i \in 1 .. fixtures :
              Group(config, Kinds[i]) \in ToSet(config.outputs) \cup {"drop", "complete"}
<1>1. fixtures \in Nat
  BY BatchOwnerAssumption DEF Inv, TypeOK
<1>2. /\ disposition.length = Len(slots)
      /\ nextGeneration # 0
      /\ ConfigAccepted
      /\ Resolvable(config, Kinds)
      /\ groups = Resolve(config, Kinds)
  BY DEF Inv, CallInv
<1>3. Received = fixtures
  BY <1>2 DEF Inv, TokenInv, Received
<1>4. disposition.length = fixtures
  BY <1>1, <1>2 DEF Inv, PlaceInv
<1>5. Grouped(config, Kinds, fixtures, groups, fixtures)
  BY <1>2, <1>4, ResultGrouped DEF Inv
<1>6. config \in Config /\ descriptors \in [Stage -> Descriptors]
  BY DEF Inv, TypeOK, PipelineTypeOK
<1>7. /\ Len(config.outputs) \in Nat
      /\ DOMAIN config.outputs = 1 .. Len(config.outputs)
  BY <1>6 DEF Config
<1>8. IsInjective(config.outputs)
  BY <1>2 DEF ConfigAccepted, Validated
<1>9. Ordered(config, Kinds, fixtures, Result, Len(config.outputs))
  BY <1>1, <1>5, <1>7, OutputOrder DEF Result
<1>10. IsInjective(Result)
  BY <1>1, <1>7, <1>8, <1>9, OrderedOnce
<1>11. \A i \in 1 .. fixtures :
         Group(config, Kinds[i]) \in ToSet(config.outputs) \cup {"drop", "complete"}
  BY <1>2, <1>4, <1>6, KindsDecided, Routable
<1>. QED
  BY <1>1, <1>3, <1>4, <1>5, <1>7, <1>8, <1>9, <1>10, <1>11

(* What goes back to the input is what no output saw.                      *)
Returned == groups["drop"] \o groups["complete"]

LEMMA Elements ==
  ASSUME NEW V, NEW s \in Seq(V)
  PROVE  /\ \A p \in DOMAIN s : s[p] \in V /\ s[p] \in ToSet(s)
         /\ DOMAIN s \subseteq Int
BY DEF ToSet

LEMMA ReturnedFacts ==
  ASSUME Inv, call.phase = "returned"
  PROVE  /\ Returned \in Seq(1 .. fixtures)
         /\ IsInjective(Returned)
         /\ ToSet(Returned) \cap ToSet(Result) = {}
         /\ \A i \in 1 .. fixtures : i \in ToSet(Returned) \/ i \in ToSet(Result)
<1> DEFINE drop == groups["drop"]
           complete == groups["complete"]
<1>1. /\ fixtures \in Nat
      /\ Grouped(config, Kinds, fixtures, groups, fixtures)
      /\ Ordered(config, Kinds, fixtures, Result, Len(config.outputs))
      /\ DOMAIN config.outputs = 1 .. Len(config.outputs)
      /\ \A i \in 1 .. fixtures :
           Group(config, Kinds[i]) \in ToSet(config.outputs) \cup {"drop", "complete"}
  BY ResultFacts
<1>2. /\ drop \in Seq(1 .. fixtures) /\ complete \in Seq(1 .. fixtures)
      /\ \A p, q \in DOMAIN drop : p < q => drop[p] < drop[q]
      /\ \A p, q \in DOMAIN complete : p < q => complete[p] < complete[q]
      /\ \A i \in 1 .. fixtures :
           /\ i \in ToSet(drop) <=> Group(config, Kinds[i]) = "drop"
           /\ i \in ToSet(complete) <=> Group(config, Kinds[i]) = "complete"
  BY <1>1 DEF Grouped, GroupNames
<1>3. {"drop", "complete"} \cap ToSet(config.outputs) = {}
  <2>1. config.outputs \in Seq(Output)
    BY DEF Inv, TypeOK, PipelineTypeOK, Config
  <2>. QED
    BY <2>1, DispositionRoutingAssumption DEF ToSet
<1>. HIDE DEF drop, complete
<1>4. /\ drop \o complete \in Seq(1 .. fixtures)
      /\ ToSet(drop \o complete) = ToSet(drop) \cup ToSet(complete)
  BY <1>2, Concat, ConcatToSet
<1>5. /\ \A p \in DOMAIN drop : drop[p] \in 1 .. fixtures /\ drop[p] \in ToSet(drop)
      /\ \A p \in DOMAIN complete :
           complete[p] \in 1 .. fixtures /\ complete[p] \in ToSet(complete)
      /\ DOMAIN drop \subseteq Int /\ DOMAIN complete \subseteq Int
  BY <1>2, Elements
<1>6. ASSUME NEW p \in DOMAIN (drop \o complete), NEW q \in DOMAIN (drop \o complete),
             (drop \o complete)[p] = (drop \o complete)[q]
      PROVE  p = q
  <2>1. /\ p \in Nat /\ q \in Nat /\ Len(drop) \in Nat
        /\ \/ p \in DOMAIN drop /\ (drop \o complete)[p] = drop[p]
           \/ /\ p - Len(drop) \in DOMAIN complete
              /\ (drop \o complete)[p] = complete[p - Len(drop)]
        /\ \/ q \in DOMAIN drop /\ (drop \o complete)[q] = drop[q]
           \/ /\ q - Len(drop) \in DOMAIN complete
              /\ (drop \o complete)[q] = complete[q - Len(drop)]
    BY <1>2, Concat
  <2>2. \A u, v \in DOMAIN drop : drop[u] = drop[v] => u = v
    BY <1>2, <1>5
  <2>3. \A u, v \in DOMAIN complete : complete[u] = complete[v] => u = v
    BY <1>2, <1>5
  <2>4. \A u \in DOMAIN drop, v \in DOMAIN complete : drop[u] # complete[v]
    BY <1>2, <1>5
  <2>. QED
    BY <1>6, <2>1, <2>2, <2>3, <2>4
<1>7. IsInjective(drop \o complete)
  BY <1>6 DEF IsInjective
<1>8. \A i \in 1 .. fixtures :
        i \in ToSet(Result) <=> Group(config, Kinds[i]) \in ToSet(config.outputs)
  BY <1>1 DEF Ordered, ToSet
<1>9. \A i \in ToSet(Result) : i \in 1 .. fixtures
  BY <1>1 DEF Ordered, ToSet
<1>. QED
  BY <1>1, <1>2, <1>3, <1>4, <1>7, <1>8, <1>9 DEF Returned, drop, complete

-----------------------------------------------------------------------------
(***************************************************************************)
(* The steps of submit itself.                                             *)
(***************************************************************************)

(* The call is over or has not begun, and nothing but the end of the batch *)
(* touches what its parts of the invariant speak of.                       *)
LEMMA CallStands ==
  ASSUME Inv, call.phase \notin {"stage", "callback"},
         UNCHANGED <<pipelineVars, writerVars, nextGeneration, slots>>,
         liveGeneration' \in {liveGeneration, 0}
  PROVE  CallInv' /\ StatusInv' /\ StageInv' /\ DecidedInv'
<1>1. /\ UNCHANGED <<descriptors, config, call, status, groups>>
      /\ UNCHANGED <<disposition, nextWriter>>
  BY DEF pipelineVars, writerVars
<1>2. /\ Kinds' = Kinds /\ Authorized' = Authorized
      /\ (Halted' <=> Halted) /\ (ConfigAccepted' <=> ConfigAccepted)
  BY <1>1 DEF Kinds, Authorized, Halted, ConfigAccepted
<1>3. CallInv'
  BY <1>1, <1>2 DEF Inv, CallInv, TypeOK, OwnerTypeOK
<1>4. StatusInv' /\ StageInv'
  BY <1>1, <1>2 DEF Inv, StatusInv, StageInv
<1>5. DecidedInv'
  BY <1>1, <1>2 DEF Inv, DecidedInv
<1>. QED
  BY <1>3, <1>4, <1>5

SubmissionStep ==
  \/ Enqueue \/ InputFails \/ ReceiveAll \/ OwnerFails \/ OpenBatch
  \/ CallFailed \/ CallReturned
  \/ CopyResults \/ CopyFails
  \/ SubmitNext \/ SubmitNextFails \/ OutputsDone
  \/ ReturnNext \/ ReturnsDone
  \/ Unwind \/ ReconcileNext \/ Reconciled

(* Between the steps of the call, the phase tells how far submit is.       *)
LEMMA PhaseOutsideCall ==
  ASSUME Inv, SubmissionStep
  PROVE  call.phase \notin {"stage", "callback"}
BY DEF SubmissionStep, Inv, CallInv, Enqueue, InputFails, ReceiveAll,
       OwnerFails, OpenBatch, CallFailed, CallReturned, CopyResults, CopyFails,
       SubmitNext, SubmitNextFails, OutputsDone, ReturnNext, ReturnsDone,
       Unwind, ReconcileNext, Reconciled

LEMMA SubmissionCallParts ==
  ASSUME Inv, SubmissionStep
  PROVE  CallParts'
<1>1. call.phase \notin {"stage", "callback"}
  BY PhaseOutsideCall
<1>2. CASE OpenBatch
  <2>1. /\ call.phase = "idle" /\ nextGeneration' # 0 /\ liveGeneration' # 0
        /\ slots' = [i \in 1 .. fixtures |-> i]
        /\ at' = "processing" /\ fixtures' = fixtures
        /\ disposition' = NoWriter /\ nextWriter' = nextWriter
        /\ UNCHANGED pipelineVars
    BY <1>2, BatchOwnerAssumption
       DEF OpenBatch, Begin, Goto, Inv, PlaceInv, TypeOK, OwnerTypeOK
  <2>2. PlaceInv'
    BY <2>1 DEF PlaceInv, pipelineVars
  <2>3. CallInv' /\ StatusInv' /\ StageInv' /\ DecidedInv'
    BY <2>1 DEF Inv, CallInv, StatusInv, StageInv, DecidedInv, pipelineVars
  <2>. QED
    BY <2>2, <2>3 DEF CallParts
<1>3. CASE ~ OpenBatch
  <2>1. /\ UNCHANGED <<pipelineVars, writerVars, nextGeneration, slots>>
        /\ liveGeneration' \in {liveGeneration, 0}
        /\ fixtures' = fixtures
    BY <1>3 DEF SubmissionStep, Enqueue, InputFails, ReceiveAll, OwnerFails,
         CallFailed, CallReturned, CopyResults, CopyFails, SubmitNext,
         SubmitNextFails, OutputsDone, ReturnNext, ReturnsDone, Unwind,
         ReconcileNext, Reconciled, Raise, Goto, Invalidate, ownerVars,
         harnessVars
  <2>2. call' = call
    BY <2>1 DEF pipelineVars
  <2>3. PlaceInv'
    <3>1. CASE Enqueue \/ ReceiveAll
      BY <2>1, <2>2, <3>1 DEF Enqueue, ReceiveAll, Goto, Inv, PlaceInv, ownerVars,
                              harnessVars
    <3>2. CASE InputFails \/ OwnerFails \/ CallFailed \/ CopyFails \/ SubmitNextFails
      BY <2>1, <2>2, <3>2 DEF InputFails, OwnerFails, CallFailed, CopyFails,
                              SubmitNextFails, Raise, Inv, PlaceInv
    <3>3. CASE \/ CallReturned \/ CopyResults \/ SubmitNext \/ OutputsDone
               \/ ReturnNext \/ ReconcileNext \/ Reconciled
      BY <2>1, <2>2, <3>3 DEF CallReturned, CopyResults, SubmitNext, OutputsDone,
           ReturnNext, ReconcileNext, Reconciled, Goto, Inv, PlaceInv, ownerVars
    <3>4. CASE ReturnsDone \/ Unwind
      BY <2>1, <2>2, <3>4 DEF ReturnsDone, Unwind, Invalidate, Inv, PlaceInv, ownerVars
    <3>. QED
      BY <1>3, <3>1, <3>2, <3>3, <3>4 DEF SubmissionStep
  <2>. QED
    BY <1>1, <2>1, <2>3, CallStands DEF CallParts
<1>. QED
  BY <1>2, <1>3

(* One token finishes: the counter follows and no other token moves.       *)
LEMMA TransferOne ==
  ASSUME TrackerTypeOK, NEW t, NEW from, NEW to \in FinalState,
         Transfer({t}, from, to)
  PROVE  /\ t \in Token /\ tokenState[t] = from
         /\ \A u \in Token : tokenState'[u] = IF u = t THEN to ELSE tokenState[u]
         /\ finalCompletions' = finalCompletions + 1
         /\ UNCHANGED <<registered, received>>
<1>1. Cardinality({t}) = 1
  BY FS_Singleton
<1>2. t \in Token
  BY NumTokensAssumption DEF Transfer, TrackerTypeOK, Token
<1>. QED
  BY <1>1, <1>2 DEF Transfer, FinalState

(* A token that finishes is no longer among the worker's.                  *)
LEMMA CountOne ==
  ASSUME Inv, TrackerTypeOK', NEW t \in 1 .. Received, NEW to \in FinalState,
         Transfer({t}, "worker_owned", to), fixtures' = fixtures
  PROVE  CountInv'
<1>1. /\ t \in Token /\ tokenState[t] = "worker_owned"
      /\ \A u \in Token : tokenState'[u] = IF u = t THEN to ELSE tokenState[u]
      /\ finalCompletions' = finalCompletions + 1
      /\ UNCHANGED <<registered, received>>
  BY TransferOne DEF Inv, TypeOK
<1>2. Received' = Received /\ Received \in Nat
  BY <1>1, BatchOwnerAssumption DEF Received, Inv, TypeOK
<1>3. 1 .. Received \subseteq Token
  BY <1>2, NumTokensAssumption
     DEF Inv, TypeOK, TrackerTypeOK, TokenInv, Received, Token
<1>4. to # "worker_owned"
  BY DEF FinalState
<1>5. WorkerOwned' = WorkerOwned \ {t} /\ t \in WorkerOwned
  BY <1>1, <1>2, <1>3, <1>4 DEF WorkerOwned
<1>6. IsFiniteSet(WorkerOwned)
  <2>1. IsFiniteSet(1 .. Received)
    BY <1>2, FS_Interval
  <2>. QED
    BY <2>1, FS_Subset DEF WorkerOwned
<1>7. /\ Cardinality(WorkerOwned') = Cardinality(WorkerOwned) - 1
      /\ Cardinality(WorkerOwned) \in Nat
  BY <1>5, <1>6, FS_RemoveElement, FS_CardinalityType
<1>8. finalCompletions \in Nat
  BY DEF Inv, TypeOK, TrackerTypeOK
<1>. QED
  BY <1>1, <1>7, <1>8 DEF Inv, CountInv

(* Nothing moves but submit itself.                                        *)
LEMMA TokensStand ==
  ASSUME Inv, UNCHANGED trackerVars, fixtures' = fixtures
  PROVE  CountInv' /\ Received' = Received
BY DEF Inv, CountInv, WorkerOwned, Received, trackerVars

(* The parts of the invariant that speak of the loops of submit and of the *)
(* tokens.                                                                 *)
LoopParts == LoopInv /\ TokenInv /\ CountInv

LEMMA InputInv ==
  ASSUME Inv, Enqueue \/ ReceiveAll
  PROVE  LoopParts'
<1>1. /\ at = "setup" /\ received = 0 /\ nextGeneration = 0
      /\ submitted = << >> /\ outcome # "ok"
      /\ call.phase = "idle"
      /\ fixtures \in Nat /\ registered \in Nat
      /\ registered <= fixtures
      /\ \A t \in 1 .. registered : tokenState[t] = "input_owned"
  BY BatchOwnerAssumption, NumTokensAssumption
     DEF Enqueue, ReceiveAll, Inv, PlaceInv, LoopInv, TokenInv, TypeOK, TrackerTypeOK
<1>2. UNCHANGED <<nextGeneration, pipelineVars, fixtures, todo, submitted, outcome>>
  BY DEF Enqueue, ReceiveAll, Goto, ownerVars, harnessVars
<1>3. finalCompletions = 0
  <2>1. WorkerOwned = {}
    BY <1>1 DEF WorkerOwned, Received
  <2>2. Cardinality(WorkerOwned) = 0
    BY <2>1, FS_EmptySet
  <2>. QED
    BY <1>1, <2>2 DEF Inv, CountInv, TypeOK, TrackerTypeOK
<1>4. CASE Enqueue
  <2>1. /\ at' = "setup" /\ received' = 0 /\ finalCompletions' = 0
        /\ registered' = registered + 1 /\ registered < fixtures
        /\ tokenState' = [tokenState EXCEPT ![registered + 1] = "input_owned"]
    BY <1>1, <1>3, <1>4 DEF Enqueue, RegisterInput, harnessVars
  <2>2. registered + 1 \in Token
    BY <1>1, <1>4, NumTokensAssumption DEF Enqueue, RegisterInput, Token
  <2>3. \A t \in 1 .. registered + 1 : tokenState'[t] = "input_owned"
    BY <1>1, <2>1, <2>2 DEF Inv, TypeOK, TrackerTypeOK, Token
  <2>4. Received' = 0 /\ 1 .. 0 = {}
    BY <2>1 DEF Received
  <2>5. TokenInv'
    BY <1>1, <1>2, <2>1, <2>3, <2>4 DEF TokenInv
  <2>6. LoopInv'
    BY <1>1, <1>2, <2>1 DEF LoopInv
  <2>7. CountInv'
    <3>1. WorkerOwned' = {}
      BY <2>4 DEF WorkerOwned
    <3>2. Cardinality(WorkerOwned') = 0
      BY <3>1, FS_EmptySet
    <3>. QED
      BY <2>1, <3>2 DEF CountInv
  <2>. QED
    BY <2>5, <2>6, <2>7 DEF LoopParts
<1>5. CASE ReceiveAll
  <2>1. Cardinality(1 .. fixtures) = fixtures
    BY <1>1, FS_Interval
  <2>2. /\ at' = "received" /\ finalCompletions' = 0
        /\ registered = fixtures /\ registered' = registered
        /\ received' = fixtures
        /\ tokenState' = [t \in Token |-> IF t \in 1 .. fixtures THEN "worker_owned"
                                                                 ELSE tokenState[t]]
    BY <1>1, <1>3, <1>5, <2>1
       DEF ReceiveAll, ReceiveTokens, Transfer, Goto, FinalState
  <2>3. 1 .. fixtures \subseteq Token
    BY <1>1, <1>5, NumTokensAssumption
       DEF ReceiveAll, ReceiveTokens, Transfer, Inv, TypeOK, TrackerTypeOK, Token
  <2>4. Received' = fixtures
    BY <1>1, <1>2, <2>2 DEF Received
  <2>5. ToSet(submitted') = {}
    BY <1>1, <1>2 DEF ToSet
  <2>6. TokenInv'
    <3>1. \A t \in 1 .. fixtures : tokenState'[t] = "worker_owned"
      BY <2>2, <2>3
    <3>2. \A t : Held(t)'
      BY <2>2 DEF Held
    <3>3. received' = 0 => 1 .. registered' = {}
      BY <1>1, <2>2
    <3>. QED
      BY <1>1, <1>2, <2>2, <2>4, <2>5, <3>1, <3>2, <3>3 DEF TokenInv
  <2>7. LoopInv'
    BY <1>1, <1>2, <2>2 DEF LoopInv
  <2>8. CountInv'
    <3>1. WorkerOwned' = 1 .. fixtures
      BY <2>2, <2>3, <2>4 DEF WorkerOwned
    <3>. QED
      BY <1>1, <2>1, <2>2, <3>1 DEF CountInv
  <2>. QED
    BY <2>6, <2>7, <2>8 DEF LoopParts
<1>. QED
  BY <1>4, <1>5

LEMMA RaiseInv ==
  ASSUME Inv, InputFails \/ OwnerFails \/ CallFailed \/ CopyFails \/ SubmitNextFails
  PROVE  LoopParts'
<1>1. /\ at \in {"setup", "received", "processing", "copying", "submitting"}
      /\ at' = "unwinding" /\ outcome' = "error"
      /\ UNCHANGED <<fixtures, todo, submitted, trackerVars, nextGeneration,
                     call, config, groups>>
  BY DEF InputFails, OwnerFails, CallFailed, CopyFails, SubmitNextFails, Raise,
         ownerVars, pipelineVars
<1>2. CountInv' /\ Received' = Received
  BY <1>1, TokensStand
<1>3. Result' = Result
  BY <1>1 DEF Result
<1>4. LoopInv'
  BY <1>1, <1>2, <1>3 DEF Inv, LoopInv
<1>5. \A t : Held(t) /\ Held(t)'
  BY <1>1 DEF Held
<1>6. TokenInv'
  BY <1>1, <1>2, <1>5 DEF Inv, TokenInv, trackerVars
<1>. QED
  BY <1>2, <1>4, <1>6 DEF LoopParts

LEMMA OpenInv ==
  ASSUME Inv, OpenBatch \/ CallReturned
  PROVE  LoopParts'
<1>1. /\ at \in {"received", "processing"} /\ at' \in {"processing", "copying"}
      /\ UNCHANGED <<fixtures, todo, submitted, outcome, trackerVars>>
      /\ at = "processing" => nextGeneration # 0
  BY DEF OpenBatch, CallReturned, Goto, Inv, CallInv
<1>2. CountInv' /\ Received' = Received
  BY <1>1, TokensStand
<1>3. submitted = << >> /\ outcome # "ok"
  BY <1>1 DEF Inv, LoopInv
<1>4. LoopInv'
  BY <1>1, <1>2, <1>3 DEF Inv, LoopInv
<1>5. \A t : Held(t) /\ Held(t)'
  BY <1>1 DEF Held
<1>6. TokenInv'
  BY <1>1, <1>2, <1>5 DEF Inv, TokenInv, trackerVars
<1>. QED
  BY <1>2, <1>4, <1>6 DEF LoopParts

LEMMA CopyInv ==
  ASSUME Inv, CopyResults
  PROVE  LoopParts'
<1>1. /\ at = "copying" /\ at' = "submitting" /\ todo' = Result
      /\ UNCHANGED <<fixtures, submitted, outcome, trackerVars, nextGeneration,
                     call, config, groups>>
  BY DEF CopyResults, Result, ownerVars, pipelineVars
<1>2. CountInv' /\ Received' = Received
  BY <1>1, TokensStand
<1>3. submitted = << >> /\ outcome # "ok"
  BY <1>1 DEF Inv, LoopInv
<1>4. Result' = Result
  BY <1>1 DEF Result
<1>5. call.phase = "returned"
  BY <1>1 DEF Inv, PlaceInv
<1>6. Result \in Seq(1 .. fixtures)
  BY <1>5, ResultFacts DEF Ordered
<1>7. << >> \o Result = Result
  BY <1>6
<1>8. LoopInv'
  BY <1>1, <1>2, <1>3, <1>4, <1>7 DEF Inv, LoopInv
<1>9. \A t : Held(t) /\ Held(t)'
  BY <1>1 DEF Held
<1>10. TokenInv'
  BY <1>1, <1>2, <1>9 DEF Inv, TokenInv, trackerVars
<1>. QED
  BY <1>2, <1>8, <1>10 DEF LoopParts

(* The batch is the fixtures, and the token of a packet has its number.    *)
LEMMA SlotTokens ==
  ASSUME Inv, nextGeneration # 0
  PROVE  Received = fixtures /\ \A i \in 1 .. fixtures : slots[i] = i
BY DEF Inv, PlaceInv, TokenInv, Received

LEMMA SubmitNextInv ==
  ASSUME Inv, TrackerTypeOK', SubmitNext
  PROVE  LoopParts'
<1> DEFINE t == Head(todo)
<1>1. /\ at = "submitting" /\ at' = "submitting" /\ todo # << >>
      /\ submitted' = Append(submitted, t) /\ todo' = Tail(todo)
      /\ SubmitAndComplete(slots[t])
      /\ UNCHANGED <<fixtures, outcome, nextGeneration, call, config, groups>>
  BY DEF SubmitNext, pipelineVars
<1>2. /\ call.phase = "returned" /\ nextGeneration # 0
      /\ submitted \o todo = Result
      /\ submitted \in Seq(1 .. Received) /\ todo \in Seq(Slot)
      /\ outcome # "ok"
  BY <1>1 DEF Inv, PlaceInv, CallInv, LoopInv, TypeOK
<1>3. /\ fixtures \in Nat /\ Received = fixtures
      /\ Result \in Seq(1 .. fixtures)
  BY <1>2, ResultFacts DEF Ordered
<1>4. 1 .. fixtures \subseteq Slot
  BY BatchOwnerAssumption DEF Inv, TypeOK, Slot
<1>5. /\ t \in Slot /\ Tail(todo) \in Seq(Slot)
      /\ ToSet(todo) = {t} \cup ToSet(Tail(todo))
  BY <1>1, <1>2, HeadAndTail
<1>6. submitted \in Seq(Slot)
  BY <1>2, <1>3, <1>4, SeqOfMore
<1>7. t \in 1 .. fixtures
  <2>1. ToSet(Result) = ToSet(submitted) \cup ToSet(todo)
    BY <1>2, <1>6, ConcatToSet
  <2>2. \A x \in ToSet(Result) : x \in 1 .. fixtures
    BY <1>3 DEF ToSet
  <2>. QED
    BY <1>5, <2>1, <2>2
<1>8. slots[t] = t
  BY <1>2, <1>7, SlotTokens
<1>. HIDE DEF t
<1>9. Transfer({t}, "worker_owned", "completed")
  BY <1>1, <1>8 DEF SubmitAndComplete
<1>10. /\ t \in Token
       /\ \A u \in Token : tokenState'[u] = IF u = t THEN "completed" ELSE tokenState[u]
       /\ UNCHANGED <<registered, received>>
  BY <1>9, TransferOne DEF Inv, TypeOK, FinalState
<1>11. CountInv'
  BY <1>1, <1>3, <1>7, <1>9, CountOne DEF FinalState
<1>12. Received' = Received /\ Result' = Result
  BY <1>1, <1>10 DEF Received, Result
<1>13. /\ submitted' \in Seq(1 .. fixtures)
       /\ submitted' \in Seq(Slot)
       /\ submitted' \o Tail(todo) = Result
       /\ ToSet(submitted') = ToSet(submitted) \cup {t}
  <2>1. submitted' \in Seq(1 .. fixtures) /\ submitted' \in Seq(Slot)
    BY <1>1, <1>2, <1>3, <1>5, <1>6, <1>7
  <2>2. Append(submitted, t) \o Tail(todo) = submitted \o todo
    BY <1>1, <1>2, <1>6 DEF t
  <2>3. ToSet(Append(submitted, t)) = ToSet(submitted) \cup {t}
    BY <1>6, AppendToSet
  <2>. QED
    BY <1>1, <1>2, <2>1, <2>2, <2>3
<1>14. IsPrefix(submitted', Result)
  BY <1>5, <1>13, PrefixOfConcat
<1>15. LoopInv'
  BY <1>1, <1>2, <1>3, <1>12, <1>13, <1>14 DEF LoopInv
<1>16. \A u : Held(u) /\ Held(u)'
  BY <1>1 DEF Held
<1>17. TokenInv'
  <2>1. \A u \in 1 .. fixtures : u \in Token
    BY <1>3, <1>2, NumTokensAssumption
       DEF Inv, TypeOK, TrackerTypeOK, TokenInv, Token
  <2>2. ASSUME NEW u \in 1 .. fixtures
        PROVE  tokenState'[u] = IF u \in ToSet(submitted') THEN "completed"
                                                          ELSE "worker_owned"
    BY <1>3, <1>10, <1>13, <1>16, <2>1 DEF Inv, TokenInv
  <2>3. received' = 0 => 1 .. registered' = {}
    BY <1>2, <1>3, <1>10 DEF Inv, TokenInv
  <2>. QED
    BY <1>1, <1>3, <1>10, <1>12, <1>16, <2>2, <2>3 DEF Inv, TokenInv
<1>. QED
  BY <1>11, <1>15, <1>17 DEF LoopParts

LEMMA OutputsDoneInv ==
  ASSUME Inv, OutputsDone
  PROVE  LoopParts'
<1>1. /\ at = "submitting" /\ at' = "returning" /\ todo = << >>
      /\ todo' = Returned
      /\ UNCHANGED <<fixtures, submitted, outcome, trackerVars, nextGeneration,
                     call, config, groups>>
  BY DEF OutputsDone, Returned, ownerVars, pipelineVars
<1>2. CountInv' /\ Received' = Received
  BY <1>1, TokensStand
<1>3. Result' = Result
  BY <1>1 DEF Result
<1>4. /\ call.phase = "returned"
      /\ submitted \o << >> = Result
      /\ submitted \in Seq(1 .. Received)
      /\ outcome # "ok"
  BY <1>1 DEF Inv, PlaceInv, LoopInv
<1>5. submitted = Result
  BY <1>4
<1>6. /\ Received = fixtures
      /\ Returned \in Seq(1 .. fixtures) /\ IsInjective(Returned)
      /\ ToSet(Returned) \cap ToSet(submitted) = {}
      /\ \A i \in 1 .. fixtures : i \in ToSet(Returned) \/ i \in ToSet(submitted)
  BY <1>4, <1>5, ResultFacts, ReturnedFacts
<1>7. LoopInv'
  BY <1>1, <1>2, <1>3, <1>4, <1>5, <1>6 DEF Inv, LoopInv
<1>8. /\ \A t : Held(t)
      /\ \A t \in 1 .. Received : t \notin ToSet(submitted) => Held(t)'
  BY <1>1, <1>6 DEF Held
<1>9. TokenInv'
  BY <1>1, <1>2, <1>8 DEF Inv, TokenInv, trackerVars
<1>. QED
  BY <1>2, <1>7, <1>9 DEF LoopParts

(* One token goes back to the input.                                       *)
LEMMA GiveBackInv ==
  ASSUME Inv, TrackerTypeOK', at \in {"returning", "reconciling"}, todo # << >>,
         ReturnToInput(Head(todo)),
         todo' = Tail(todo),
         UNCHANGED <<fixtures, at, submitted, outcome, nextGeneration,
                     pipelineVars>>
  PROVE  LoopParts'
<1> DEFINE t == Head(todo)
<1>1. /\ todo \in Seq(1 .. Received) /\ IsInjective(todo)
      /\ at = "returning" => ToSet(todo) \cap ToSet(submitted) = {}
  BY DEF Inv, LoopInv
<1>2. /\ t \in 1 .. Received
      /\ Tail(todo) \in Seq(1 .. Received)
      /\ ToSet(todo) = {t} \cup ToSet(Tail(todo))
      /\ IsInjective(Tail(todo))
      /\ t \notin ToSet(Tail(todo))
  BY <1>1, HeadAndTail
<1>. HIDE DEF t
<1>3. Transfer({t}, "worker_owned", "returned_to_input")
  BY DEF ReturnToInput, t
<1>4. /\ t \in Token /\ tokenState[t] = "worker_owned"
      /\ \A u \in Token :
           tokenState'[u] = IF u = t THEN "returned_to_input" ELSE tokenState[u]
      /\ UNCHANGED <<registered, received>>
  BY <1>3, TransferOne DEF Inv, TypeOK, FinalState
<1>5. CountInv'
  BY <1>2, <1>3, CountOne DEF FinalState
<1>6. Received' = Received /\ Result' = Result
  BY <1>4 DEF Received, Result, pipelineVars
<1>7. LoopInv'
  BY <1>1, <1>2, <1>6 DEF Inv, LoopInv, pipelineVars
<1>8. \A u \in 1 .. Received : u \in Token
  BY BatchOwnerAssumption, NumTokensAssumption
     DEF Inv, TypeOK, TrackerTypeOK, TokenInv, Received, Token
<1>9. t \notin ToSet(submitted)
  BY <1>2, <1>4 DEF Inv, TokenInv
<1>10. /\ \A u : Held(u) <=> u \in ToSet(todo)
       /\ \A u : Held(u)' <=> u \in ToSet(Tail(todo))
  BY DEF Held
<1>11. ASSUME NEW u \in 1 .. Received
       PROVE  tokenState'[u] = IF u \in ToSet(submitted) THEN "completed"
                               ELSE IF Held(u)' THEN "worker_owned"
                               ELSE "returned_to_input"
  BY <1>2, <1>4, <1>8, <1>9, <1>10 DEF Inv, TokenInv
<1>12. received' = 0 => 1 .. Received = {}
  BY <1>4 DEF Received
<1>13. TokenInv'
  BY <1>2, <1>4, <1>6, <1>11, <1>12 DEF Inv, TokenInv
<1>. QED
  BY <1>5, <1>7, <1>13 DEF LoopParts

LEMMA ReturnNextInv ==
  ASSUME Inv, TrackerTypeOK', ReturnNext
  PROVE  LoopParts'
<1>1. /\ at = "returning" /\ todo # << >>
      /\ todo \in Seq(1 .. Received)
      /\ nextGeneration # 0
  BY DEF ReturnNext, Inv, LoopInv, PlaceInv, CallInv
<1>2. slots[Head(todo)] = Head(todo)
  BY <1>1, HeadAndTail, SlotTokens
<1>. QED
  BY <1>1, <1>2, GiveBackInv DEF ReturnNext, ownerVars

LEMMA ReconcileNextInv ==
  ASSUME Inv, TrackerTypeOK', ReconcileNext
  PROVE  LoopParts'
<1> DEFINE t == Head(todo)
<1>1. /\ at = "reconciling" /\ at' = at /\ todo # << >> /\ todo' = Tail(todo)
      /\ todo \in Seq(1 .. Received) /\ IsInjective(todo)
      /\ UNCHANGED <<fixtures, submitted, outcome, nextGeneration, pipelineVars>>
      /\ Reconcile(t)
  BY DEF ReconcileNext, Inv, LoopInv, ownerVars
<1>2. /\ t \in 1 .. Received
      /\ Tail(todo) \in Seq(1 .. Received)
      /\ ToSet(todo) = {t} \cup ToSet(Tail(todo))
      /\ IsInjective(Tail(todo))
  BY <1>1, HeadAndTail
<1>3. \A u : Held(u) <=> u \in ToSet(todo)
  BY <1>1 DEF Held
<1>4. tokenState[t] = IF t \in ToSet(submitted) THEN "completed" ELSE "worker_owned"
  BY <1>2, <1>3 DEF Inv, TokenInv
<1>5. CASE t \notin ToSet(submitted)
  <2>1. ReturnToInput(t)
    BY <1>1, <1>4, <1>5 DEF Reconcile
  <2>. QED
    BY <1>1, <2>1, GiveBackInv
<1>6. CASE t \in ToSet(submitted)
  <2>1. UNCHANGED trackerVars
    BY <1>1, <1>4, <1>6 DEF Reconcile
  <2>2. CountInv' /\ Received' = Received
    BY <1>1, <2>1, TokensStand
  <2>3. Result' = Result
    BY <1>1 DEF Result, pipelineVars
  <2>4. LoopInv'
    BY <1>1, <1>2, <2>2, <2>3 DEF Inv, LoopInv, pipelineVars
  <2>5. \A u : Held(u)' <=> u \in ToSet(Tail(todo))
    BY <1>1 DEF Held
  <2>6. TokenInv'
    BY <1>1, <1>2, <1>3, <1>6, <2>1, <2>2, <2>5 DEF Inv, TokenInv, trackerVars
  <2>. QED
    BY <2>2, <2>4, <2>6 DEF LoopParts
<1>. QED
  BY <1>5, <1>6

(* A loop has nothing left, or the next one has everything to do.          *)
LEMMA EndInv ==
  ASSUME Inv, ReturnsDone \/ Unwind \/ Reconciled
  PROVE  LoopParts'
<1>1. /\ UNCHANGED <<fixtures, submitted, trackerVars, nextGeneration,
                     call, config, groups>>
      /\ at \in {"returning", "unwinding", "reconciling"}
      /\ at' \in {"reconciling", "ended"}
  BY DEF ReturnsDone, Unwind, Reconciled, Goto, Invalidate, ownerVars, pipelineVars
<1>2. CountInv' /\ Received' = Received
  BY <1>1, TokensStand
<1>3. Result' = Result
  BY <1>1 DEF Result
<1>4. CASE ReturnsDone
  <2>1. /\ at = "returning" /\ at' = "ended" /\ outcome' = "ok"
        /\ submitted = Result /\ todo = << >>
    BY <1>4 DEF ReturnsDone, Inv, LoopInv
  <2>2. LoopInv'
    BY <1>1, <1>2, <1>3, <2>1 DEF Inv, LoopInv
  <2>3. \A t : ~ Held(t) /\ ~ Held(t)'
    BY <2>1 DEF Held, ToSet
  <2>4. TokenInv'
    BY <1>1, <1>2, <2>1, <2>3 DEF Inv, TokenInv, trackerVars
  <2>. QED
    BY <1>2, <2>2, <2>4 DEF LoopParts
<1>5. CASE Reconciled
  <2>1. at = "reconciling" /\ at' = "ended" /\ todo = << >> /\ outcome' = outcome
    BY <1>5 DEF Reconciled, Goto
  <2>2. LoopInv'
    BY <1>1, <1>2, <1>3, <2>1 DEF Inv, LoopInv
  <2>3. \A t : ~ Held(t) /\ ~ Held(t)'
    BY <2>1 DEF Held, ToSet
  <2>4. TokenInv'
    BY <1>1, <1>2, <2>1, <2>3 DEF Inv, TokenInv, trackerVars
  <2>. QED
    BY <1>2, <2>2, <2>4 DEF LoopParts
<1>6. CASE Unwind
  <2>1. /\ at = "unwinding" /\ at' = "reconciling" /\ outcome' = outcome
        /\ todo' = [i \in 1 .. Received |-> i]
        /\ outcome # "ok"
    BY <1>6 DEF Unwind, Inv, LoopInv
  <2>2. Received \in Nat
    BY BatchOwnerAssumption DEF Inv, TypeOK, Received
  <2>3. /\ todo' \in Seq(1 .. Received)
        /\ IsInjective(todo')
        /\ \A t \in 1 .. Received : t \in ToSet(todo')
    BY <2>1, <2>2 DEF IsInjective, ToSet
  <2>4. LoopInv'
    BY <1>1, <1>2, <1>3, <2>1, <2>3 DEF Inv, LoopInv
  <2>5. \A t \in 1 .. Received : Held(t) /\ Held(t)'
    BY <2>1, <2>3 DEF Held
  <2>6. TokenInv'
    BY <1>1, <1>2, <2>1, <2>5 DEF Inv, TokenInv, trackerVars
  <2>. QED
    BY <1>2, <2>4, <2>6 DEF LoopParts
<1>. QED
  BY <1>4, <1>5, <1>6

-----------------------------------------------------------------------------
(***************************************************************************)
(* The invariant holds.                                                    *)
(***************************************************************************)

LEMMA InitInv == Init => Inv
<1>. SUFFICES ASSUME Init PROVE Inv
  OBVIOUS
<1>1. TrackerTypeOK
  BY NumTokensAssumption DEF Init, TrackerInit, TrackerTypeOK, TokenState
<1>2. OwnerTypeOK
  BY BatchOwnerAssumption
     DEF Init, OwnerInit, OwnerTypeOK, NoAuthority, Authority, SlotAccess, Journal
<1>3. PoolTypeOK
  BY RetentionPoolAssumption, BatchOwnerAssumption, NumTokensAssumption
     DEF Init, PoolInit, PoolTypeOK, RetentionRecord
<1>4. WriterTypeOK
  BY NoWriterType, DispositionWriterAssumption DEF Init, WriterInit, WriterTypeOK
<1>5. PipelineTypeOK
  <2>1. Idle \in Call
    BY StaticPipelineAssumption, BatchOwnerAssumption, DispositionWriterAssumption
       DEF Idle, Call, Phase
  <2>2. DOMAIN groups = {}
    BY DEF Init, PipelineInit
  <2>. QED
    BY <2>1, <2>2, HarnessSubmissionAssumption
       DEF Init, PipelineInit, PipelineTypeOK, StageStatus
<1>6. TypeOK
  BY <1>1, <1>2, <1>3, <1>4, <1>5 DEF Init, TypeOK, Place
<1>7. CallParts
  BY DEF Init, OwnerInit, WriterInit, PipelineInit, CallParts, PlaceInv, CallInv,
         StatusInv, StageInv, DecidedInv, Idle
<1>8. Received = 0 /\ 1 .. 0 = {}
  BY DEF Init, TrackerInit, Received
<1>9. LoopInv /\ TokenInv
  BY <1>8, BatchOwnerAssumption
     DEF Init, TrackerInit, OwnerInit, LoopInv, TokenInv
<1>10. CountInv
  <2>1. WorkerOwned = {}
    BY <1>8 DEF WorkerOwned
  <2>2. Cardinality(WorkerOwned) = 0
    BY <2>1, FS_EmptySet
  <2>. QED
    BY <2>2 DEF Init, TrackerInit, CountInv
<1>. QED
  BY <1>6, <1>7, <1>9, <1>10 DEF Inv, CallParts

LEMMA SubmissionStepInv ==
  ASSUME Inv, SubmissionStep
  PROVE  Inv'
<1>1. TypeOK'
  BY SubmissionType DEF SubmissionStep
<1>2. CallParts'
  BY SubmissionCallParts
<1>3. LoopParts'
  BY <1>1, InputInv, RaiseInv, OpenInv, CopyInv, SubmitNextInv, OutputsDoneInv,
     ReturnNextInv, ReconcileNextInv, EndInv DEF SubmissionStep, TypeOK
<1>. QED
  BY <1>1, <1>2, <1>3 DEF Inv, CallParts, LoopParts

LEMMA StutterInv ==
  ASSUME Inv, UNCHANGED vars
  PROVE  Inv'
<1>1. UNCHANGED <<trackerVars, ownerVars, poolVars, writerVars, pipelineVars,
                  harnessVars>>
  BY DEF vars
<1>2. TypeOK'
  BY <1>1, TrackerStands, OwnerStands, PoolStands, WriterStands, PipelineStands
     DEF Inv, TypeOK, harnessVars
<1>3. /\ Kinds' = Kinds /\ Authorized' = Authorized /\ Running' = Running
      /\ (Halted' <=> Halted) /\ (ConfigAccepted' <=> ConfigAccepted)
      /\ Result' = Result /\ Received' = Received /\ WorkerOwned' = WorkerOwned
  BY <1>1 DEF Kinds, Authorized, Running, Halted, ConfigAccepted, Result,
              Received, WorkerOwned, trackerVars, writerVars, pipelineVars,
              harnessVars
<1>4. PlaceInv'
  BY <1>1 DEF Inv, PlaceInv, ownerVars, pipelineVars, harnessVars
<1>5. CallInv'
  BY <1>1, <1>3 DEF Inv, CallInv, WriterLive, ownerVars, writerVars,
                    pipelineVars, harnessVars
<1>6. StatusInv' /\ StageInv'
  BY <1>1, <1>3 DEF Inv, StatusInv, StageInv, writerVars, pipelineVars
<1>7. DecidedInv'
  <2>1. Recordable(Running') = Recordable(Running)
    BY <1>3
  <2>. QED
    BY <1>1, <1>3, <2>1 DEF Inv, DecidedInv, writerVars, pipelineVars
<1>8. LoopInv' /\ TokenInv' /\ CountInv'
  BY <1>1, <1>3 DEF Inv, LoopInv, TokenInv, Held, CountInv, trackerVars,
                    ownerVars, pipelineVars, harnessVars
<1>. QED
  BY <1>2, <1>4, <1>5, <1>6, <1>7, <1>8 DEF Inv

LEMMA NextInv == Inv /\ [Next]_vars => Inv'
<1>1. ASSUME Inv, Next
      PROVE  Inv'
  BY <1>1, PipelineStepInv, SubmissionStepInv, StutterInv
     DEF Next, Progress, SubmissionStep, Over
<1>. QED
  BY <1>1, StutterInv

(* The strengthened invariant the theorems below rest on: where submit is, *)
(* what the call has decided, and what the worker has still to hand on.    *)
THEOREM SubmissionInvariant == Spec => []Inv
BY InitInv, NextInv, PTL DEF Spec

-----------------------------------------------------------------------------
(***************************************************************************)
(* What a caller of submit and of processBatch relies on.                  *)
(***************************************************************************)

(* submit and the pipeline call keep every counter, handle, status and     *)
(* group in range, whatever the processors do.                             *)
THEOREM TypeCorrect == Spec => []TypeOK
<1>1. Inv => TypeOK
  BY DEF Inv
<1>. QED
  BY <1>1, SubmissionInvariant, PTL

LEMMA InvRevokes == Inv => FailureRevokesBatch
<1>. SUFFICES ASSUME Inv PROVE FailureRevokesBatch
  OBVIOUS
<1>1. RoutingDecidedBeforeCallbacks
  BY RoutingDecided DEF RoutingDecidedBeforeCallbacks, Inv, CallInv
<1>2. ASSUME call.phase = "failed", call.started
      PROVE  liveGeneration = 0 /\ ~ WriterLive(call.writer) /\ groups = << >>
  BY <1>2 DEF Inv, CallInv, WriterLive
<1>. QED
  BY <1>1, <1>2 DEF FailureRevokesBatch

(* processBatch decides before the first callback that routing will not    *)
(* fail, and an error after a callback revokes the batch, the writer and   *)
(* the result, for every set of processors and every configuration.        *)
THEOREM FailuresRevoke == Spec => []FailureRevokesBatch
BY SubmissionInvariant, InvRevokes, PTL

LEMMA InvLeftovers == Inv => LeftoversPassedEveryStage
<1>. SUFFICES ASSUME Inv, call.phase = "returned",
                     NEW i \in DOMAIN Kinds, Kinds[i] = "continue",
                     NEW k \in Stage
              PROVE  status[k] \in {"ok", "failed_continue"}
  BY DEF LeftoversPassedEveryStage
<1>1. i \in disposition.active
  BY DEF Inv, DecidedInv, Kinds
<1>2. \A j \in Stage :
        status[j] \notin {"failed_terminal", "failed_stop", "skipped_empty"}
  BY <1>1 DEF Inv, StageInv
<1>3. call.stage > NumStages
  BY <1>2 DEF Inv, StageInv, Halted
<1>4. call.stage \in Nat
  BY StaticPipelineAssumption DEF Inv, TypeOK, PipelineTypeOK, Call
<1>5. k < call.stage
  BY <1>3, <1>4, StaticPipelineAssumption DEF Stage
<1>. QED
  BY <1>2, <1>5 DEF Inv, StageInv

LEMMA InvGroups == Inv => GroupsAccountForBatch
<1>. SUFFICES ASSUME Inv PROVE GroupsAccountForBatch
  OBVIOUS
<1>1. LeftoversPassedEveryStage
  BY InvLeftovers
<1>2. ASSUME call.phase = "returned"
      PROVE  /\ \A name \in DOMAIN groups :
                  \A m, n \in DOMAIN groups[name] :
                    m < n => groups[name][m] < groups[name][n]
             /\ \A i \in 1 .. Len(slots) :
                  \E name \in DOMAIN groups :
                    /\ i \in ToSet(groups[name])
                    /\ \A other \in DOMAIN groups \ {name} :
                         i \notin ToSet(groups[other])
                    /\ IF Kinds[i] = "continue"
                         THEN name = Target(config, config.onContinue)
                         ELSE name \in {Target(config, kind) : kind \in Authorized}
  <2>1. /\ Grouped(config, Kinds, fixtures, groups, fixtures)
        /\ \A i \in 1 .. fixtures :
             Group(config, Kinds[i]) \in ToSet(config.outputs) \cup {"drop", "complete"}
        /\ fixtures \in Nat /\ disposition.length = fixtures
    BY <1>2, ResultFacts
  <2>2. DOMAIN groups = GroupNames(config)
    BY <2>1 DEF Grouped
  <2>3. Len(slots) = fixtures
    BY <1>2, <2>1 DEF Inv, CallInv
  <2>4. ASSUME NEW i \in 1 .. fixtures
        PROVE  LET name == Group(config, Kinds[i])
               IN  /\ name \in DOMAIN groups
                   /\ i \in ToSet(groups[name])
                   /\ \A other \in DOMAIN groups \ {name} :
                        i \notin ToSet(groups[other])
                   /\ IF Kinds[i] = "continue"
                        THEN name = Target(config, config.onContinue)
                        ELSE name \in {Target(config, kind) : kind \in Authorized}
    <3>1. Group(config, Kinds[i]) \in DOMAIN groups
      BY <2>1, <2>2 DEF GroupNames
    <3>2. \A name \in DOMAIN groups :
            i \in ToSet(groups[name]) <=> Group(config, Kinds[i]) = name
      <4>1. i <= fixtures
        BY <2>1
      <4>. QED
        BY <2>1, <2>2, <4>1 DEF Grouped
    <3>3. Kinds[i] # "continue" => Kinds[i] \in Authorized
      BY <1>2, <2>1 DEF Inv, DecidedInv
    <3>4. IF Kinds[i] = "continue"
            THEN Group(config, Kinds[i]) = Target(config, config.onContinue)
            ELSE Group(config, Kinds[i]) \in {Target(config, kind) : kind \in Authorized}
      BY <3>3 DEF Group, Final
    <3>. QED
      BY <3>1, <3>2, <3>4
  <2>5. \A name \in DOMAIN groups :
          \A m, n \in DOMAIN groups[name] : m < n => groups[name][m] < groups[name][n]
    BY <2>1, <2>2 DEF Grouped
  <2>. QED
    BY <2>3, <2>4, <2>5
<1>. QED
  BY <1>1, <1>2 DEF GroupsAccountForBatch

(* The groups of every result hold every packet of the batch once, in      *)
(* receive order, where a stage that ran was entitled to send it or where  *)
(* the caller's continue policy says.                                      *)
THEOREM GroupsAccount == Spec => []GroupsAccountForBatch
BY SubmissionInvariant, InvGroups, PTL

LEMMA InvPrefix == Inv => OutputIsPrefixOfResult
<1>. SUFFICES ASSUME Inv, submitted # << >>
              PROVE  /\ IsPrefix(submitted, Result)
                     /\ outcome = "ok" => submitted = Result
                     /\ \A m, n \in DOMAIN submitted :
                          LET Rank(i) == CHOOSE k \in DOMAIN config.outputs :
                                config.outputs[k] = Group(config, Kinds[i])
                          IN  m < n => \/ Rank(submitted[m]) < Rank(submitted[n])
                                       \/ /\ Rank(submitted[m]) = Rank(submitted[n])
                                          /\ submitted[m] < submitted[n]
  BY DEF OutputIsPrefixOfResult, Result
<1>1. /\ call.phase = "returned"
      /\ IsPrefix(submitted, Result)
      /\ outcome = "ok" => submitted = Result
      /\ submitted \in Seq(1 .. Received)
  BY DEF Inv, LoopInv
<1>2. /\ Ordered(config, Kinds, fixtures, Result, Len(config.outputs))
      /\ Result \in Seq(1 .. fixtures)
      /\ DOMAIN config.outputs = 1 .. Len(config.outputs)
      /\ IsInjective(config.outputs)
  BY <1>1, ResultFacts DEF Ordered
<1>3. \A m \in DOMAIN submitted : m \in DOMAIN Result /\ submitted[m] = Result[m]
  <2>1. /\ Len(submitted) \in Nat /\ Len(Result) \in Nat
        /\ Len(submitted) <= Len(Result)
        /\ SubSeq(submitted, 1, Len(submitted)) = SubSeq(Result, 1, Len(submitted))
    BY <1>1, <1>2 DEF IsPrefix
  <2>2. \A m \in 1 .. Len(submitted) :
          SubSeq(submitted, 1, Len(submitted))[m] = submitted[m]
    BY <1>1, <2>1
  <2>3. \A m \in 1 .. Len(submitted) : SubSeq(Result, 1, Len(submitted))[m] = Result[m]
    BY <1>2, <2>1
  <2>. QED
    BY <1>1, <1>2, <2>1, <2>2, <2>3
<1> DEFINE Rank(i) == CHOOSE k \in DOMAIN config.outputs :
                        config.outputs[k] = Group(config, Kinds[i])
<1>4. ASSUME NEW i, NEW k \in DOMAIN config.outputs,
             config.outputs[k] = Group(config, Kinds[i])
      PROVE  Rank(i) = k
  BY <1>2, <1>4 DEF IsInjective
<1>. HIDE DEF Rank
<1>5. ASSUME NEW m \in DOMAIN submitted, NEW n \in DOMAIN submitted, m < n
      PROVE  \/ Rank(submitted[m]) < Rank(submitted[n])
             \/ /\ Rank(submitted[m]) = Rank(submitted[n])
                /\ submitted[m] < submitted[n]
  <2>1. PICK j \in DOMAIN config.outputs, l \in DOMAIN config.outputs :
          /\ config.outputs[j] = Group(config, Kinds[submitted[m]])
          /\ config.outputs[l] = Group(config, Kinds[submitted[n]])
          /\ j < l \/ (j = l /\ submitted[m] < submitted[n])
    <3>1. /\ m \in DOMAIN Result /\ n \in DOMAIN Result
          /\ submitted[m] = Result[m] /\ submitted[n] = Result[n]
      BY <1>3
    <3>2. \A p, q \in DOMAIN Result : p < q =>
            \E j, l \in 1 .. Len(config.outputs) :
              /\ config.outputs[j] = Group(config, Kinds[Result[p]])
              /\ config.outputs[l] = Group(config, Kinds[Result[q]])
              /\ j < l \/ (j = l /\ Result[p] < Result[q])
      BY <1>2 DEF Ordered
    <3>3. \E j, l \in DOMAIN config.outputs :
            /\ config.outputs[j] = Group(config, Kinds[Result[m]])
            /\ config.outputs[l] = Group(config, Kinds[Result[n]])
            /\ j < l \/ (j = l /\ Result[m] < Result[n])
      BY <1>2, <1>5, <3>1, <3>2, Zenon
    <3>. QED
      BY <3>1, <3>3, Zenon
  <2>2. Rank(submitted[m]) = j /\ Rank(submitted[n]) = l
    BY <1>4, <2>1
  <2>. QED
    BY <2>1, <2>2
<1>. QED
  BY <1>1, <1>5 DEF Rank

LEMMA InvReconciled == Inv => EveryTokenReconciled
<1>. SUFFICES ASSUME Inv PROVE EveryTokenReconciled
  OBVIOUS
<1>1. ASSUME at = "ended"
      PROVE  /\ \A t \in 1 .. Received :
                  tokenState[t] = IF t \in ToSet(submitted) THEN "completed"
                                                            ELSE "returned_to_input"
             /\ finalCompletions = Received
             /\ ReceivedCompleted
             /\ liveGeneration = 0
  <2>1. \A t \in 1 .. Received :
          tokenState[t] = IF t \in ToSet(submitted) THEN "completed"
                                                    ELSE "returned_to_input"
    BY <1>1 DEF Inv, TokenInv, Held
  <2>2. finalCompletions = received
    <3>1. WorkerOwned = {}
      BY <2>1 DEF WorkerOwned
    <3>2. Cardinality(WorkerOwned) = 0
      BY <3>1, FS_EmptySet
    <3>. QED
      BY <3>2 DEF Inv, CountInv, TypeOK, TrackerTypeOK
  <2>3. received = Received
    BY DEF Inv, TokenInv, Received
  <2>4. \A t \in 1 .. registered : tokenState[t] \notin OutstandingState
    <3>1. CASE received = 0
      BY <3>1 DEF Inv, TokenInv, OutstandingState
    <3>2. CASE received # 0
      <4>1. registered = Received
        BY <2>3, <3>2 DEF Inv, TokenInv
      <4>. QED
        BY <2>1, <4>1 DEF OutstandingState
    <3>. QED
      BY <3>1, <3>2
  <2>5. liveGeneration = 0
    BY <1>1 DEF Inv, PlaceInv
  <2>. QED
    BY <2>1, <2>2, <2>3, <2>4, <2>5 DEF ReceivedCompleted
<1>. QED
  BY <1>1, InvPrefix DEF EveryTokenReconciled

(* However submit ends, every token it received is final, once, and what   *)
(* the outputs saw is an unbroken beginning of the result in configured    *)
(* output order.                                                           *)
THEOREM TokensReconciled == Spec => []EveryTokenReconciled
BY SubmissionInvariant, InvReconciled, PTL

-----------------------------------------------------------------------------
(* The packets decided so far keep their disposition and stay out of the   *)
(* active selection.                                                       *)
DecidedStand ==
  \A i \in 1 .. disposition.length : Kinds[i] # "continue" =>
    Kinds'[i] = Kinds[i] /\ i \notin disposition'.active

LEMMA RecordDecided ==
  ASSUME Inv, call.phase \in {"stage", "callback"},
         NEW w, NEW S, NEW kind, RecordTerminal(w, S, kind)
  PROVE  DecidedStand
<1>1. disposition.active = {i \in 1 .. disposition.length : Kinds[i] = "continue"}
  BY DEF Inv, DecidedInv
<1>2. /\ S \subseteq disposition.active
      /\ disposition'.active = disposition.active \ S
      /\ \A i \in 1 .. disposition.length :
           Kinds'[i] = IF i \in S THEN kind ELSE Kinds[i]
  BY RecordFields DEF Inv, TypeOK
<1>. QED
  BY <1>1, <1>2 DEF DecidedStand

LEMMA WriterStandsDecided ==
  ASSUME Inv, call.phase \in {"stage", "callback"}, UNCHANGED writerVars
  PROVE  DecidedStand
<1>1. disposition.active = {i \in 1 .. disposition.length : Kinds[i] = "continue"}
  BY DEF Inv, DecidedInv
<1>2. Kinds' = Kinds /\ disposition' = disposition
  BY DEF Kinds, writerVars
<1>. QED
  BY <1>1, <1>2 DEF DecidedStand

LEMMA StepDecided ==
  ASSUME Inv, Next, call.phase \in {"stage", "callback"}
  PROVE  DecidedStand
<1>1. at = "processing"
  BY DEF Inv, CallInv
<1>2. CASE UNCHANGED writerVars
  BY <1>2, WriterStandsDecided
<1>3. CASE \E S \in SUBSET Slot, kind \in Terminal : StageRecords(S, kind)
  BY <1>3, RecordDecided DEF StageRecords
<1>4. CASE StageFails
  BY <1>2, <1>4, RecordDecided DEF StageFails, ApplyFailure
<1>5. CASE DuringCallback
  <2>1. CASE \E i \in Slot : StageEdits(i)
    BY <1>2, <2>1 DEF StageEdits
  <2>. QED
    BY <1>3, <1>5, <2>1 DEF DuringCallback, CallbackStep
<1>6. CASE CallPipeline
  BY <1>2, <1>6 DEF CallPipeline, EnterCall, RejectCall
<1>7. CASE Worker
  BY <1>2, <1>4, <1>7
     DEF Worker, WorkerStep, BeginStage, InvocationFails, SkipStage,
         StageSucceeds, StageOverruns, FinishCall, FailCall
<1>8. CASE SubmissionStep
  BY <1>8, PhaseOutsideCall
<1>9. CASE Over
  BY <1>2, <1>9 DEF Over, vars
<1>. QED
  BY <1>5, <1>6, <1>7, <1>8, <1>9 DEF Next, Progress, SubmissionStep

(* Later stages and error policies change neither the disposition nor the  *)
(* routing of a packet a stage has decided: setSelection and applyFailure  *)
(* take active packets only, and nothing makes a decided packet active.    *)
THEOREM DecisionsOnce == Spec => DecisionsStand
<1>1. Inv /\ [Next]_vars =>
        [call.phase \in {"stage", "callback"} =>
           \A i \in 1 .. disposition.length : Kinds[i] # "continue" =>
             /\ Kinds'[i] = Kinds[i]
             /\ i \notin disposition'.active]_<<writerVars, call, groups>>
  <2>1. ASSUME Inv, Next
        PROVE  call.phase \in {"stage", "callback"} =>
                 \A i \in 1 .. disposition.length : Kinds[i] # "continue" =>
                   Kinds'[i] = Kinds[i] /\ i \notin disposition'.active
    BY <2>1, StepDecided DEF DecidedStand
  <2>2. UNCHANGED vars => UNCHANGED <<writerVars, call, groups>>
    BY DEF vars, pipelineVars
  <2>. QED
    BY <2>1, <2>2
<1>. QED
  BY <1>1, SubmissionInvariant, PTL DEF Spec, DecisionsStand

-----------------------------------------------------------------------------
(***************************************************************************)
(* Refinement: every step of a submission, its deferred cleanups included, *)
(* is a step of PacketOwnership under the mapping of HarnessSubmission, or *)
(* leaves PacketOwnership's state alone.                                   *)
(***************************************************************************)

(* The history variables of PacketOwnership, as the mapping reads them.    *)
Observed ==
  [n \in 1 .. Len(submitted) |-> [token |-> slots[submitted[n]], pending |-> FALSE]]

Batches ==
  IF nextGeneration = 0
    THEN << >>
    ELSE << [generation |-> nextGeneration, slots |-> slots] >>

Writers ==
  IF nextWriter = 0
    THEN << >>
    ELSE << [handle |-> nextWriter, generation |-> nextGeneration] >>

(* The history is unchanged unless a batch, a writer, a submission or the  *)
(* receive changes it.                                                     *)
LEMMA HistoryStands ==
  ASSUME UNCHANGED <<fixtures, submitted, slots, nextGeneration, nextWriter>>,
         (received' = 0) <=> (received = 0)
  PROVE  UNCHANGED <<Received, Observed, Batches, Writers>>
BY DEF Received, Observed, Batches, Writers

(* A live recorder is the last one opened.                                 *)
WriterInv == disposition.handle \in {0, nextWriter}

LEMMA WriterLast == Spec => []WriterInv
<1>1. Init => WriterInv
  BY DEF Init, WriterInit, NoWriter, WriterInv
<1>2. ASSUME Inv, WriterInv, [Next]_vars
      PROVE  WriterInv'
  <2>1. CASE UNCHANGED writerVars
    BY <1>2, <2>1 DEF WriterInv, writerVars
  <2>2. ASSUME NEW w, NEW S, NEW kind, RecordTerminal(w, S, kind)
        PROVE  WriterInv'
    <3>1. disposition'.handle = disposition.handle
      BY <1>2, <2>2, RecordFields DEF Inv, TypeOK
    <3>. QED
      BY <1>2, <2>2, <3>1 DEF RecordTerminal, WriterInv
  <2>3. CASE OpenBatch
    BY <2>3 DEF OpenBatch, NoWriter, WriterInv
  <2>4. CASE CallPipeline
    BY <2>1, <2>4 DEF CallPipeline, EnterCall, RejectCall, InitWriter, WriterInv
  <2>5. CASE DuringCallback
    BY <2>1, <2>2, <2>5 DEF DuringCallback, CallbackStep, StageRecords, StageEdits
  <2>6. CASE Worker
    BY <2>1, <2>2, <2>6
       DEF Worker, WorkerStep, BeginStage, InvocationFails, SkipStage,
           StageSucceeds, StageOverruns, StageFails, ApplyFailure, FinishCall,
           FailCall
  <2>7. CASE SubmissionStep /\ ~ OpenBatch
    BY <2>1, <2>7
       DEF SubmissionStep, Enqueue, InputFails, ReceiveAll, OwnerFails,
           CallFailed, CallReturned, CopyResults, CopyFails, SubmitNext,
           SubmitNextFails, OutputsDone, ReturnNext, ReturnsDone, Unwind,
           ReconcileNext, Reconciled
  <2>8. CASE Over \/ UNCHANGED vars
    BY <2>1, <2>8 DEF Over, vars
  <2>. QED
    BY <1>2, <2>3, <2>4, <2>5, <2>6, <2>7, <2>8 DEF Next, Progress, SubmissionStep
<1>. QED
  BY <1>1, <1>2, SubmissionInvariant, PTL DEF Spec

LEMMA MappedCardinality == \A S : Ownership!Cardinality(S) = Cardinality(S)
BY DEF Ownership!Cardinality, Cardinality

(* The operators a step of the submission and its image have in common.    *)
LEMMA MappedTransfer ==
  ASSUME NEW S, NEW from, NEW to, Transfer(S, from, to)
  PROVE  Ownership!Transfer(S, from, to)
BY MappedCardinality
   DEF Transfer, Ownership!Transfer, Token, Ownership!Token, FinalState,
       Ownership!FinalState

LEMMA MappedFrames ==
  /\ UNCHANGED trackerVars => UNCHANGED Ownership!trackerVars
  /\ UNCHANGED ownerVars => UNCHANGED Ownership!ownerVars
  /\ UNCHANGED poolVars => UNCHANGED Ownership!poolVars
  /\ UNCHANGED writerVars => UNCHANGED Ownership!writerVars
  /\ UNCHANGED <<Batches, Writers>> => UNCHANGED Ownership!issuedVars
BY DEF Ownership!trackerVars, trackerVars, Ownership!ownerVars, ownerVars,
       Ownership!poolVars, poolVars, Ownership!writerVars, writerVars,
       Ownership!issuedVars, Batches, Writers

LEMMA MappedStutter ==
  ASSUME UNCHANGED <<trackerVars, ownerVars, poolVars, writerVars, fixtures, submitted>>
  PROVE  UNCHANGED Ownership!vars
<1>1. UNCHANGED <<Received, Observed, Batches, Writers>>
  BY HistoryStands DEF trackerVars, ownerVars, writerVars
<1>. QED
  BY <1>1, MappedFrames DEF Ownership!vars, Observed

(* A finished token: SubmitNext's, and what the two returning loops do.    *)
LEMMA MappedGiveBack ==
  ASSUME NEW t \in 1 .. Received, ReturnToInput(t),
         UNCHANGED <<ownerVars, poolVars, writerVars, fixtures, submitted>>
  PROVE  Ownership!Next
<1>1. UNCHANGED <<Received, Observed, Batches, Writers>>
  BY HistoryStands DEF ownerVars, writerVars, ReturnToInput, Transfer
<1>2. Ownership!ReturnToInput(t)
  BY MappedTransfer DEF ReturnToInput, Ownership!ReturnToInput
<1>3. Ownership!GiveBack(t)
  BY <1>1, <1>2, MappedFrames DEF Ownership!GiveBack, Observed
<1>. QED
  BY <1>3 DEF Ownership!Next

LEMMA MappedEndBatch ==
  ASSUME OwnerTypeOK, NEW g, Invalidate(g),
         UNCHANGED <<trackerVars, poolVars, writerVars, fixtures, submitted>>
  PROVE  Ownership!Next
<1>1. UNCHANGED <<Received, Observed, Batches, Writers>>
  BY HistoryStands DEF Invalidate, trackerVars, writerVars
<1>2. Ownership!Invalidate(g)
  BY DEF Invalidate, Ownership!Invalidate, BatchLive, Ownership!BatchLive
<1>3. Ownership!EndBatch(g)
  BY <1>1, <1>2, MappedFrames DEF Ownership!EndBatch, Observed
<1>4. g = nextGeneration /\ g # 0
  BY DEF OwnerTypeOK, Invalidate, BatchLive
<1>5. g \in Ownership!IssuedGeneration
  BY <1>4 DEF Ownership!IssuedGeneration
<1>. QED
  BY <1>3, <1>5 DEF Ownership!Next

LEMMA MappedEnqueue ==
  ASSUME Inv, Enqueue
  PROVE  Ownership!Next
<1>1. UNCHANGED <<Received, Observed, Batches, Writers>>
  BY HistoryStands
     DEF Enqueue, RegisterInput, ownerVars, writerVars, harnessVars
<1>2. Ownership!RegisterInput
  BY DEF Enqueue, RegisterInput, Ownership!RegisterInput
<1>3. Ownership!Enqueue
  BY <1>1, <1>2, MappedFrames DEF Enqueue, Ownership!Enqueue, Observed
<1>. QED
  BY <1>3 DEF Ownership!Next

(* The receive takes every fixture at once; an empty one changes nothing.  *)
LEMMA MappedReceive ==
  ASSUME Inv, ReceiveAll
  PROVE  [Ownership!Next]_Ownership!vars
<1>1. /\ received = 0 /\ fixtures \in 0 .. MaxBatch /\ registered = fixtures
      /\ Transfer(1 .. fixtures, "input_owned", "worker_owned")
      /\ UNCHANGED <<fixtures, submitted>>
      /\ UNCHANGED <<ownerVars, poolVars, writerVars>>
      /\ received' = fixtures
  <2>1. Cardinality(1 .. fixtures) = fixtures
    BY FS_Interval, BatchOwnerAssumption DEF Inv, TypeOK
  <2>. QED
    BY <2>1, BatchOwnerAssumption
       DEF ReceiveAll, ReceiveTokens, Transfer, Goto, Inv, TokenInv, TypeOK
<1>2. CASE fixtures = 0
  <2>1. 1 .. fixtures = {}
    BY <1>2
  <2>2. UNCHANGED trackerVars
    <3>1. tokenState' = [t \in Token |-> tokenState[t]]
      BY <1>1, <2>1 DEF Transfer
    <3>2. tokenState = [t \in Token |-> tokenState[t]]
      BY DEF Inv, TypeOK, TrackerTypeOK
    <3>. QED
      BY <1>1, <1>2, <3>1, <3>2 DEF Transfer, FinalState, trackerVars
  <2>. QED
    BY <1>1, <2>2, MappedStutter
<1>3. CASE fixtures # 0
  <2>1. Received = 0 /\ Received' = fixtures
    BY <1>1, <1>3 DEF Received
  <2>2. Observed' = Observed /\ UNCHANGED <<Batches, Writers>>
    BY <1>1 DEF Observed, Batches, Writers, ownerVars, writerVars
  <2>3. /\ Received + fixtures = fixtures
        /\ Received + 1 .. Received + fixtures = 1 .. fixtures
        /\ fixtures \in 1 .. MaxBatch
    BY <1>1, <1>3, <2>1
  <2>4. Ownership!ReceiveTokens(Received + 1 .. Received + fixtures)
    BY <1>1, <2>3, MappedTransfer DEF Ownership!ReceiveTokens
  <2>5. Ownership!Receive(fixtures)
    BY <1>1, <2>1, <2>2, <2>3, <2>4, MappedFrames DEF Ownership!Receive, Observed
  <2>. QED
    BY <2>3, <2>5 DEF Ownership!Next
<1>. QED
  BY <1>2, <1>3

LEMMA MappedOpenBatch ==
  ASSUME Inv, OpenBatch
  PROVE  Ownership!Next
<1> DEFINE s == [i \in 1 .. fixtures |-> i]
<1>1. /\ at = "received" /\ nextGeneration = 0 /\ submitted = << >>
      /\ fixtures \in 0 .. MaxBatch /\ received = fixtures
      /\ Begin(s) /\ disposition' = NoWriter
      /\ UNCHANGED <<fixtures, submitted, trackerVars, poolVars, nextWriter>>
      /\ nextWriter = 0
  BY DEF OpenBatch, Goto, Inv, PlaceInv, CallInv, LoopInv, TokenInv, TypeOK
<1>2. fixtures \in Nat /\ Received = fixtures
  BY <1>1, BatchOwnerAssumption DEF Received
<1>3. s \in Seq(Nat) /\ Len(s) = fixtures /\ s \in [1 .. fixtures -> 1 .. Received]
  BY <1>2
<1>4. \A i \in 1 .. Len(s) : tokenState[s[i]] = "worker_owned"
  <2>1. \A t \in 1 .. Received : t \notin ToSet(submitted) /\ Held(t)
    BY <1>1 DEF ToSet, Held
  <2>. QED
    BY <1>2, <1>3, <2>1 DEF Inv, TokenInv
<1>5. s \in Ownership!BatchSlots
  BY <1>1, <1>2, <1>3 DEF Ownership!BatchSlots
<1>6. /\ nextGeneration' = nextGeneration + 1 /\ liveGeneration' = nextGeneration + 1
      /\ slots' = s
  BY <1>1 DEF Begin
<1>7. Received' = Received
  BY <1>1 DEF Received, trackerVars
<1>8. Observed = << >> /\ Observed' = << >>
  BY <1>1 DEF Observed
<1>9. Writers = << >> /\ Writers' = << >>
  BY <1>1 DEF Writers
<1>10. Batches = << >> /\ Batches' = << [generation |-> liveGeneration', slots |-> s] >>
  BY <1>1, <1>6 DEF Batches
<1>11. Ownership!Begin(s)
  BY <1>1 DEF Begin, Ownership!Begin, InReceiveOrder, Ownership!InReceiveOrder,
              Slot, Ownership!Slot, NoAuthority, Ownership!NoAuthority
<1>12. NoWriter = Ownership!NoWriter
  BY DEF NoWriter, Ownership!NoWriter, Continue, Ownership!Continue, Slot,
         Ownership!Slot
<1>. HIDE DEF s
<1>13. Batches' = Append(Batches, [generation |-> liveGeneration', slots |-> s])
  BY <1>10
<1>14. Ownership!BeginBatch(s)
  <2>1. UNCHANGED <<Ownership!trackerVars, Ownership!poolVars, nextWriter,
                    Received, Observed, Writers>>
    BY <1>1, <1>7, <1>8, <1>9, MappedFrames
  <2>2. /\ \A i \in 1 .. Len(s) : tokenState[s[i]] = "worker_owned"
        /\ Ownership!Begin(s)
        /\ disposition' = Ownership!NoWriter
        /\ Batches' = Append(Batches, [generation |-> liveGeneration', slots |-> s])
    BY <1>1, <1>4, <1>11, <1>12, <1>13
  <2>. QED
    BY <2>1, <2>2 DEF Ownership!BeginBatch, Observed, Batches, Writers
<1>. QED
  BY <1>5, <1>14 DEF Ownership!Next

LEMMA MappedEnterCall ==
  ASSUME Inv, NEW length, EnterCall(liveGeneration, length), UNCHANGED harnessVars
  PROVE  Ownership!Next
<1>1. /\ call.phase = "idle"
      /\ InitWriter(liveGeneration) /\ nextWriter = 0
      /\ UNCHANGED <<ownerVars, trackerVars, poolVars, fixtures, submitted>>
  BY DEF EnterCall, CallFrame, Inv, CallInv, harnessVars
<1>2. /\ liveGeneration = nextGeneration /\ nextGeneration # 0
  BY <1>1 DEF InitWriter, BatchLive, Inv, TypeOK, OwnerTypeOK
<1>3. /\ nextWriter' = 1 /\ disposition'.handle = 1
      /\ UNCHANGED <<slots, nextGeneration, received>>
  BY <1>1 DEF InitWriter, ownerVars, trackerVars
<1>4. Received' = Received /\ Observed' = Observed /\ Batches' = Batches
  BY <1>1, <1>3 DEF Received, Observed, Batches
<1>5. Writers = << >>
      /\ Writers' = << [handle |-> disposition'.handle, generation |-> liveGeneration] >>
  BY <1>1, <1>2, <1>3 DEF Writers
<1>6. Writers' = Append(Writers, [handle |-> disposition'.handle,
                                  generation |-> liveGeneration])
  BY <1>5
<1>7. Ownership!InitWriter(liveGeneration)
  BY <1>1 DEF InitWriter, Ownership!InitWriter, BatchLive, Ownership!BatchLive,
              Continue, Ownership!Continue, Slot, Ownership!Slot
<1>8. Ownership!OpenWriter(liveGeneration)
  BY <1>1, <1>4, <1>6, <1>7, MappedFrames
     DEF Ownership!OpenWriter, Observed, Batches, Writers
<1>9. liveGeneration \in Ownership!IssuedGeneration
  BY <1>2 DEF Ownership!IssuedGeneration
<1>. QED
  BY <1>8, <1>9 DEF Ownership!Next

(* The recorder and the packets, as a callback reaches them: the handles   *)
(* of the call are the ones issued last.                                   *)
LEMMA CallHandles ==
  ASSUME Inv, WriterInv, call.phase \in {"stage", "callback"}
  PROVE  /\ call.batch \in Ownership!IssuedGeneration
         /\ call.writer \in Ownership!IssuedWriter
<1>1. /\ call.batch = liveGeneration /\ WriterLive(call.writer)
      /\ nextGeneration # 0
      /\ liveGeneration \in {0, nextGeneration}
  BY DEF Inv, CallInv, TypeOK, OwnerTypeOK
<1>2. call.batch = nextGeneration /\ call.writer = nextWriter /\ nextWriter # 0
  BY <1>1 DEF WriterLive, WriterInv
<1>. QED
  BY <1>1, <1>2 DEF Ownership!IssuedGeneration, Ownership!IssuedWriter

LEMMA MappedRecord ==
  ASSUME Inv, WriterInv, call.phase \in {"stage", "callback"},
         NEW S \in SUBSET Slot, NEW kind \in Terminal,
         RecordTerminal(call.writer, S, kind),
         UNCHANGED <<trackerVars, ownerVars, poolVars, fixtures, submitted>>
  PROVE  Ownership!Next
<1>1. UNCHANGED <<Received, Observed, Batches, Writers>>
  BY HistoryStands DEF trackerVars, ownerVars, RecordTerminal
<1>2. Ownership!RecordTerminal(call.writer, S, kind)
  BY DEF RecordTerminal, Ownership!RecordTerminal, WriterLive,
         Ownership!WriterLive, Slot, Ownership!Slot
<1>3. Ownership!SetSelection(call.writer, S, kind)
  BY <1>1, <1>2, MappedFrames DEF Ownership!SetSelection, Observed
<1>4. S \in SUBSET Ownership!Slot
  BY DEF Slot, Ownership!Slot
<1>. QED
  BY <1>3, <1>4, CallHandles DEF Ownership!Next

LEMMA MappedEdits ==
  ASSUME Inv, WriterInv, NEW i \in Slot, StageEdits(i), UNCHANGED harnessVars
  PROVE  Ownership!Next
<1>1. /\ call.phase = "callback"
      /\ Edit(call.batch, i) \/ Finalize(call.batch, i)
      /\ UNCHANGED <<trackerVars, poolVars, writerVars, fixtures, submitted>>
  BY DEF StageEdits, CallFrame, harnessVars
<1>2. UNCHANGED <<nextGeneration, slots>>
  BY <1>1 DEF Edit, Finalize, JournalStep
<1>3. UNCHANGED <<Received, Observed, Batches, Writers>>
  BY <1>1, <1>2, HistoryStands DEF trackerVars, writerVars
<1>4. \A state : Written(state) = Ownership!Written(state)
                 /\ Finalized(state) = Ownership!Finalized(state)
  BY DEF Written, Finalized, Ownership!Written, Ownership!Finalized
<1>5. Ownership!Edit(call.batch, i) \/ Ownership!Finalize(call.batch, i)
  BY <1>1, <1>4
     DEF Edit, Finalize, JournalStep, Resolves, BatchLive, Ownership!Edit,
         Ownership!Finalize, Ownership!JournalStep, Ownership!Resolves,
         Ownership!BatchLive
<1>6. Ownership!PacketAccess(call.batch, i)
  BY <1>1, <1>3, <1>5, MappedFrames DEF Ownership!PacketAccess, Observed
<1>7. i \in Ownership!Slot /\ call.batch \in Ownership!IssuedGeneration
  BY <1>1, CallHandles DEF Slot, Ownership!Slot
<1>. QED
  BY <1>6, <1>7 DEF Ownership!Next

LEMMA MappedFailCall ==
  ASSUME Inv, FailCall, UNCHANGED harnessVars
  PROVE  [Ownership!Next]_Ownership!vars
<1>1. UNCHANGED <<trackerVars, poolVars, writerVars, fixtures, submitted>>
  BY DEF FailCall, CallFrame, harnessVars
<1>2. CASE call.started
  BY <1>1, <1>2, MappedEndBatch DEF FailCall, Inv, TypeOK
<1>3. CASE ~ call.started
  BY <1>1, <1>3, MappedStutter DEF FailCall
<1>. QED
  BY <1>2, <1>3

LEMMA Initial ==
  ASSUME NEW n \in Nat
  PROVE  IsFiniteSet(1 .. n) /\ Cardinality(1 .. n) = n
<1>1. Cardinality(1 .. n) = IF 1 > n THEN 0 ELSE n - 1 + 1
  BY FS_Interval
<1>. QED
  BY <1>1, FS_Interval

LEMMA FunctionIsSequence ==
  ASSUME NEW V, NEW n \in Nat, NEW f \in [1 .. n -> V]
  PROVE  f \in Seq(V) /\ Len(f) = n
OBVIOUS

(* A submission: the queue has room for every packet of the batch.         *)
LEMMA MappedSubmit ==
  ASSUME Inv, SubmitNext
  PROVE  Ownership!Next
<1>. SUFFICES ASSUME NEW i, i = Head(todo),
                     NEW g, g = liveGeneration
              PROVE  Ownership!Next
  OBVIOUS
<1>1. /\ at = "submitting" /\ todo # << >>
      /\ ValidForOutput(liveGeneration, i)
      /\ MarkEscaped(i)
      /\ SubmitAndComplete(slots[i])
      /\ submitted' = Append(submitted, i)
      /\ UNCHANGED <<fixtures, nextGeneration, liveGeneration, slots,
                     slotAccess, journal, authority, mintCounter, poolVars,
                     writerVars>>
  BY DEF SubmitNext
<1>2. /\ call.phase = "returned" /\ nextGeneration # 0
      /\ liveGeneration = nextGeneration
      /\ submitted \o todo = Result
      /\ submitted \in Seq(1 .. Received) /\ todo \in Seq(Slot)
      /\ fixtures <= MaxBatch
  BY <1>1 DEF Inv, PlaceInv, CallInv, LoopInv, TypeOK, OwnerTypeOK
<1>3. /\ fixtures \in Nat /\ Received = fixtures
      /\ Result \in Seq(1 .. fixtures) /\ IsInjective(Result)
  BY <1>2, ResultFacts DEF Ordered
<1>4. Len(Result) <= fixtures
  <2>1. Result \in [1 .. Len(Result) -> 1 .. fixtures] /\ Len(Result) \in Nat
    BY <1>3
  <2>2. /\ IsFiniteSet(1 .. fixtures) /\ Cardinality(1 .. fixtures) = fixtures
        /\ IsFiniteSet(1 .. Len(Result)) /\ Cardinality(1 .. Len(Result)) = Len(Result)
    BY <1>3, <2>1, Initial
  <2>3. ~ \E x, y \in 1 .. Len(Result) : x # y /\ Result[x] = Result[y]
    BY <1>3, <2>1 DEF IsInjective
  <2>4. ~ Cardinality(1 .. fixtures) < Cardinality(1 .. Len(Result))
    BY <2>1, <2>2, <2>3, FS_PigeonHole, Zenon
  <2>. QED
    BY <1>3, <2>1, <2>2, <2>4
<1>5. Len(submitted) < MaxBatch
  <2>1. Len(todo) \in Nat /\ Len(todo) # 0 /\ Len(submitted) \in Nat
    BY <1>1, <1>2
  <2>2. Len(submitted \o todo) = Len(submitted) + Len(todo)
    BY <1>2
  <2>. QED
    BY <1>2, <1>3, <1>4, <2>1, <2>2, BatchOwnerAssumption
<1>6. i \in Slot /\ submitted \in Seq(Slot)
  <2>1. 1 .. fixtures \subseteq Slot
    BY <1>2, <1>3, BatchOwnerAssumption DEF Slot
  <2>. QED
    BY <1>1, <1>2, <1>3, <2>1, HeadAndTail, SeqOfMore
<1>7. Received' = Received /\ Batches' = Batches /\ Writers' = Writers
  BY <1>1 DEF SubmitAndComplete, Transfer, Received, Batches, Writers, writerVars
<1>8. Len(Observed) = Len(submitted)
      /\ Observed' = Append(Observed, [token |-> slots[i], pending |-> FALSE])
  <2> DEFINE V == {[token |-> slots[j], pending |-> FALSE] : j \in Slot}
  <2>1. Len(submitted) \in Nat /\ \A n \in 1 .. Len(submitted) : submitted[n] \in Slot
    BY <1>6
  <2>2. Observed \in Seq(V) /\ Len(Observed) = Len(submitted)
    <3>1. Observed \in [1 .. Len(submitted) -> V]
      BY <2>1 DEF Observed
    <3>. QED
      BY <2>1, <3>1, FunctionIsSequence
  <2>3. /\ Len(submitted') = Len(submitted) + 1
        /\ \A n \in 1 .. Len(submitted) : submitted'[n] = submitted[n]
        /\ submitted'[Len(submitted) + 1] = i
    BY <1>1, <1>6
  <2>4. Observed' = [n \in 1 .. Len(submitted) + 1 |->
                       [token |-> slots[submitted'[n]], pending |-> FALSE]]
    BY <1>1, <2>3 DEF Observed
  <2>5. Append(Observed, [token |-> slots[i], pending |-> FALSE])
          = [n \in 1 .. Len(submitted) + 1 |->
               IF n = Len(submitted) + 1 THEN [token |-> slots[i], pending |-> FALSE]
                                         ELSE Observed[n]]
    BY <2>2
  <2>6. \A n \in 1 .. Len(submitted) + 1 :
          n # Len(submitted) + 1 =>
            n \in 1 .. Len(submitted)
            /\ Observed[n] = [token |-> slots[submitted'[n]], pending |-> FALSE]
    <3>1. \A n \in 1 .. Len(submitted) :
            Observed[n] = [token |-> slots[submitted[n]], pending |-> FALSE]
      BY DEF Observed
    <3>2. \A n \in 1 .. Len(submitted) :
            Observed[n] = [token |-> slots[submitted'[n]], pending |-> FALSE]
      BY <2>3, <3>1
    <3>. QED
      BY <2>1, <3>2
  <2>. QED
    BY <2>2, <2>3, <2>4, <2>5, <2>6
<1>9. /\ Ownership!ValidForOutput(g, i)
      /\ Ownership!MarkEscaped(i)
      /\ Ownership!SubmitAndComplete(slots[i])
  BY <1>1, MappedTransfer
     DEF ValidForOutput, Resolves, BatchLive, MarkEscaped, SubmitAndComplete,
         Ownership!ValidForOutput, Ownership!Resolves, Ownership!BatchLive,
         Ownership!MarkEscaped, Ownership!SubmitAndComplete
<1>10. Ownership!Observe(slots[i], FALSE)
  BY <1>8 DEF Ownership!Observe, Observed
<1>11. UNCHANGED <<Ownership!poolVars, Ownership!writerVars, Received,
                   Ownership!issuedVars>>
  BY <1>1, <1>7, MappedFrames
<1>12. Ownership!Submit(g, i)
  BY <1>1, <1>5, <1>8, <1>9, <1>10, <1>11 DEF Ownership!Submit, Observed
<1>13. i \in Ownership!Slot /\ g \in Ownership!IssuedGeneration
  BY <1>2, <1>6 DEF Slot, Ownership!Slot, Ownership!IssuedGeneration
<1>. QED
  BY <1>12, <1>13 DEF Ownership!Next

(* A token goes back to the input when it is the worker's, in the loop of  *)
(* the returns and in the cleanup alike.                                   *)
LEMMA MappedReturns ==
  ASSUME Inv, ReturnNext \/ ReconcileNext
  PROVE  [Ownership!Next]_Ownership!vars
<1>1. /\ todo # << >> /\ todo \in Seq(1 .. Received)
      /\ UNCHANGED <<ownerVars, poolVars, writerVars, fixtures, submitted>>
  BY DEF ReturnNext, ReconcileNext, Inv, LoopInv
<1>2. Head(todo) \in 1 .. Received
  BY <1>1, HeadAndTail
<1>3. CASE ReturnNext
  <2>1. nextGeneration # 0
    BY <1>3 DEF ReturnNext, Inv, PlaceInv, CallInv
  <2>2. slots[Head(todo)] = Head(todo)
    BY <1>2, <2>1, SlotTokens
  <2>. QED
    BY <1>1, <1>2, <1>3, <2>2, MappedGiveBack DEF ReturnNext
<1>4. CASE ReconcileNext
  <2>1. tokenState[Head(todo)] \in {"worker_owned", "completed", "returned_to_input"}
    BY <1>2 DEF Inv, TokenInv
  <2>2. ReturnToInput(Head(todo)) \/ UNCHANGED trackerVars
    BY <1>4, <2>1 DEF ReconcileNext, Reconcile
  <2>. QED
    BY <1>1, <1>2, <2>2, MappedGiveBack, MappedStutter
<1>. QED
  BY <1>3, <1>4

LEMMA MappedEnds ==
  ASSUME Inv, ReturnsDone \/ Unwind
  PROVE  [Ownership!Next]_Ownership!vars
<1>1. UNCHANGED <<trackerVars, poolVars, writerVars, fixtures, submitted>>
  BY DEF ReturnsDone, Unwind
<1>2. CASE Invalidate(liveGeneration)
  BY <1>1, <1>2, MappedEndBatch DEF Inv, TypeOK
<1>3. CASE UNCHANGED ownerVars
  BY <1>1, <1>3, MappedStutter
<1>. QED
  BY <1>2, <1>3 DEF ReturnsDone, Unwind

LEMMA MappedCall ==
  ASSUME Inv, WriterInv, CallPipeline \/ Worker \/ DuringCallback
  PROVE  [Ownership!Next]_Ownership!vars
<1>1. UNCHANGED harnessVars /\ UNCHANGED <<fixtures, submitted>>
  BY DEF CallPipeline, Worker, DuringCallback, harnessVars
<1>2. ASSUME UNCHANGED <<ownerVars, writerVars, trackerVars, poolVars>>
      PROVE  UNCHANGED Ownership!vars
  BY <1>1, <1>2, MappedStutter
<1>3. CASE CallPipeline
  <2>1. PICK length \in 0 .. MaxBatch :
          EnterCall(liveGeneration, length) \/ RejectCall(liveGeneration, length)
    BY <1>3 DEF CallPipeline
  <2>2. CASE EnterCall(liveGeneration, length)
    BY <1>1, <2>2, MappedEnterCall
  <2>3. CASE RejectCall(liveGeneration, length)
    BY <1>2, <2>3 DEF RejectCall, CallFrame
  <2>. QED
    BY <2>1, <2>2, <2>3
<1>4. CASE DuringCallback
  <2>1. ASSUME NEW S \in SUBSET Slot, NEW kind \in Terminal, StageRecords(S, kind)
        PROVE  Ownership!Next
    BY <1>1, <2>1, MappedRecord DEF StageRecords, CallFrame
  <2>. QED
    BY <1>1, <1>4, <2>1, MappedEdits DEF DuringCallback, CallbackStep
<1>5. CASE InvocationFails \/ StageOverruns
  BY <1>1, <1>5, MappedFailCall DEF InvocationFails, StageOverruns
<1>6. CASE StageFails
  <2>1. /\ call.phase = "callback" /\ Running.onError # "infallible" /\ ApplyFailure
        /\ UNCHANGED <<ownerVars, trackerVars, poolVars>>
    BY <1>6 DEF StageFails, StageDone, CallFrame
  <2>2. CASE UNCHANGED writerVars
    BY <1>2, <2>1, <2>2
  <2>3. CASE RecordTerminal(call.writer, disposition.active, Running.terminal)
    <3>1. descriptors[call.stage] \in Descriptors
      BY <2>1 DEF Inv, CallInv, TypeOK, PipelineTypeOK
    <3>2. Running.onError \in {"terminal_active", "terminal_active_and_stop"}
          \/ Running.onError = "continue_active"
      BY <2>1, <3>1, StaticPipelineAssumption DEF Running, Descriptor, ErrorPolicy
    <3>3. CASE Running.onError = "continue_active"
      BY <2>1, <2>2, <3>3 DEF ApplyFailure
    <3>4. CASE Running.onError \in {"terminal_active", "terminal_active_and_stop"}
      <4>1. Running.terminal \in Terminal
        BY <3>1, <3>4, Recordables DEF Running
      <4>2. disposition.active \in SUBSET Slot
        BY DEF Inv, TypeOK, WriterTypeOK, Disposition
      <4>. QED
        BY <1>1, <2>1, <2>3, <4>1, <4>2, MappedRecord
    <3>. QED
      BY <3>2, <3>3, <3>4
  <2>. QED
    BY <2>1, <2>2, <2>3 DEF ApplyFailure
<1>7. CASE FinishCall
  BY <1>2, <1>7, FinishCallResult DEF CallFrame
<1>8. CASE BeginStage \/ SkipStage \/ StageSucceeds
  BY <1>2, <1>8 DEF BeginStage, SkipStage, StageSucceeds, StageDone, CallFrame
<1>. QED
  BY <1>3, <1>4, <1>5, <1>6, <1>7, <1>8 DEF Worker, WorkerStep

LEMMA MappedInit == Init => Ownership!Init
<1>. SUFFICES ASSUME Init PROVE Ownership!Init
  OBVIOUS
<1>1. Ownership!TrackerInit /\ Ownership!OwnerInit /\ Ownership!PoolInit
  BY DEF Init, TrackerInit, OwnerInit, PoolInit, Ownership!TrackerInit,
         Ownership!OwnerInit, Ownership!PoolInit, Token, Ownership!Token, Slot,
         Ownership!Slot, NoAuthority, Ownership!NoAuthority, RecordIndex,
         Ownership!RecordIndex
<1>2. Ownership!WriterInit
  BY DEF Init, WriterInit, Ownership!WriterInit, NoWriter, Ownership!NoWriter,
         Continue, Ownership!Continue, Slot, Ownership!Slot
<1>3. Received = 0 /\ Observed = << >> /\ Batches = << >> /\ Writers = << >>
  BY DEF Init, TrackerInit, OwnerInit, WriterInit, Received, Observed, Batches, Writers
<1>. QED
  BY <1>1, <1>2, <1>3 DEF Ownership!Init, Observed, Batches, Writers

LEMMA MappedStep ==
  ASSUME Inv, WriterInv, [Next]_vars
  PROVE  [Ownership!Next]_Ownership!vars
<1>1. CASE Next
  <2>1. CASE Enqueue \/ ReceiveAll \/ OpenBatch
    BY <2>1, MappedEnqueue, MappedReceive, MappedOpenBatch
  <2>2. CASE CallPipeline \/ Worker \/ DuringCallback
    BY <2>2, MappedCall
  <2>3. CASE SubmitNext
    BY <2>3, MappedSubmit
  <2>4. CASE ReturnNext \/ ReconcileNext \/ ReturnsDone \/ Unwind
    BY <2>4, MappedReturns, MappedEnds
  <2>5. CASE \/ InputFails \/ OwnerFails \/ CallFailed \/ CallReturned
             \/ CopyResults \/ CopyFails \/ SubmitNextFails \/ OutputsDone
             \/ Reconciled \/ Over
    <3>1. UNCHANGED <<trackerVars, ownerVars, poolVars, writerVars, fixtures, submitted>>
      BY <2>5 DEF InputFails, OwnerFails, CallFailed, CallReturned, CopyResults,
           CopyFails, SubmitNextFails, OutputsDone, Reconciled, Over, Raise,
           Goto, vars, harnessVars
    <3>. QED
      BY <3>1, MappedStutter
  <2>. QED
    BY <1>1, <2>1, <2>2, <2>3, <2>4, <2>5 DEF Next, Progress
<1>2. CASE UNCHANGED vars
  BY <1>2, MappedStutter DEF vars, harnessVars
<1>. QED
  BY <1>1, <1>2

(* The submission uses the queues, the owner and the writer the way        *)
(* PacketOwnership lets any caller use them: whatever that module's        *)
(* invariants say of packets and handles holds in submit, the unwinding of *)
(* every failure included.                                                 *)
THEOREM RefinesOwnership == Spec => UsesOwnershipAsSpecified
<1>1. Spec => [][Ownership!Next]_Ownership!vars
  BY MappedStep, SubmissionInvariant, WriterLast, PTL DEF Spec
<1>. QED
  BY <1>1, MappedInit, PTL DEF Spec, UsesOwnershipAsSpecified, Ownership!Spec
=============================================================================
