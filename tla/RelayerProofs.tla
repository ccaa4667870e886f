--------------------------- MODULE RelayerProofs ---------------------------
(***************************************************************************)
(* Theorems about the relayer, for every configuration, set of requests,   *)
(* fee, budget and number of bridges: first the failover by itself, then   *)
(* the loop around it.                                                     *)
(***************************************************************************)
EXTENDS RelayerDaemon, FoldFacts

-----------------------------------------------------------------------------
(* The bridges a process starts with. *)

Names == {Normalize[n] : n \in DOMAIN Normalize}

\* Every fold of a sequence is one over its positions.
LEMMA Positions ==
  ASSUME NEW S, NEW seq \in Seq(S)
  PROVE  /\ DOMAIN seq = 1..Len(seq) /\ IsFiniteSet(DOMAIN seq)
         /\ DOMAIN seq \subseteq Int
         /\ \A i \in DOMAIN seq : seq[i] \in S
BY FS_Interval

LEMMA FunctionIsSeq ==
  ASSUME NEW S, NEW n \in Nat, NEW f \in [1..n -> S]
  PROVE  f \in Seq(S) /\ Len(f) = n
OBVIOUS

LEMMA AppendSet ==
  ASSUME NEW S, NEW q \in Seq(S), NEW x \in S
  PROVE  ToSet(Append(q, x)) = ToSet(q) \cup {x}
<1>1. /\ DOMAIN q = 1..Len(q) /\ DOMAIN Append(q, x) = 1..(Len(q) + 1)
      /\ Len(q) \in Nat /\ Append(q, x)[Len(q) + 1] = x
      /\ \A i \in 1..Len(q) : Append(q, x)[i] = q[i]
  OBVIOUS
<1> QED BY <1>1 DEF ToSet

\* The positions that hold a name, and the names they hold.
Named(written) == {i \in 1..Len(written) : Normalize[written[i]] # NoName}
Held(written) == [i \in 1..Len(written) |-> Normalize[written[i]]]

LEMMA NormalizedType ==
  ASSUME NEW written \in Seq(DOMAIN Normalize)
  PROVE  /\ NormalizedNames(written) \in Seq(Names)
         /\ Kept(NormalizedNames(written), Len(written), Named(written), Held(written))
<1> DEFINE n == Len(written)
           D == 1..n
           V == Seq(Names)
           Add(names, name) == IF Normalize[name] = NoName THEN names
                               ELSE Append(names, Normalize[name])
           op == [p \in D \X V |-> Add(p[2], written[p[1]])]
           Step(h) == [s \in SUBSET D |->
                         IF s = {} THEN << >>
                         ELSE LET i == Max(s) IN Add(h[s \ {i}], written[i])]
           H == CHOOSE h : h = Step(h)
<1>1. IsFiniteSet(D)
  BY Positions
<1>2. D \subseteq Int
  BY Positions
<1>3. ASSUME NEW i \in D, NEW v \in V
      PROVE  Add(v, written[i]) \in V
  BY Positions DEF Names
<1>4. << >> \in V
  OBVIOUS
<1>5. op \in [D \X V -> V]
  BY <1>3
<1>6. \A i \in D, v \in V : op[<<i, v>>] = Add(v, written[i])
  OBVIOUS
<1>7. NormalizedNames(written) = H[D]
  BY Positions DEF NormalizedNames, FoldLeft, MapThenFoldSet
<1> HIDE DEF op, D, V, Add, Step
<1>8. PICK g \in [SUBSET D -> V] : LeftFolds(g, D, << >>, op)
  BY <1>1, <1>2, <1>4, <1>5, LeftFoldExists
<1>9. g = Step(g)
  BY <1>6, <1>8 DEF Step, LeftFolds
<1>10. H = Step(H)
  BY <1>9
<1> HIDE DEF H
<1>11. LeftFollows(H, D, V, << >>, op)
  <2> SUFFICES ASSUME NEW s \in SUBSET D
               PROVE  /\ s = {} => H[s] = << >>
                      /\ s # {} /\ H[s \ {Max(s)}] \in V
                           => H[s] = op[<<Max(s), H[s \ {Max(s)}]>>]
    BY DEF LeftFollows
  <2>1. H[s] = IF s = {} THEN << >> ELSE Add(H[s \ {Max(s)}], written[Max(s)])
    BY <1>10, Zenon DEF Step
  <2>2. s # {} => Max(s) \in D
    BY <1>8 DEF LeftFolds
  <2> QED BY <1>6, <2>1, <2>2
<1>12. PICK v : LeftSteps(v, n, V, << >>, op) /\ H[D] = v[n]
  <2>1. LeftClosed(D, V, << >>, op)
    BY <1>4, <1>5 DEF LeftClosed
  <2>2. n \in Nat /\ D = 1..n
    BY DEF D
  <2> HIDE DEF n, D
  <2> QED BY <1>11, <2>1, <2>2, LeftPrefixes
<1>13. H[D] \in V
  BY <1>12 DEF LeftSteps
<1>14. Kept(H[D], n, Named(written), Held(written))
  <2>1. KeepsOrDrops(op, n, V, Named(written), Held(written))
    BY <1>6 DEF KeepsOrDrops, Add, Named, Held, D
  <2>2. n \in Nat /\ Named(written) \in SUBSET (1..n)
    BY DEF Named
  <2>3. \A i \in 1..n : Held(written)[i] \in Names
    BY DEF Held, Names
  <2>4. V = Seq(Names)
    BY DEF V
  <2> HIDE DEF n, D, V
  <2> QED BY <1>12, <2>1, <2>2, <2>3, <2>4, KeptPrefixes
<1> QED BY <1>7, <1>13, <1>14 DEF V

SwitchedOn(entries) == {i \in 1..Len(entries) : entries[i].enabled}
Spelled(entries) == [i \in 1..Len(entries) |-> entries[i].name]

LEMMA EnabledType ==
  ASSUME NEW entries \in Seq([name : DOMAIN Normalize, enabled : BOOLEAN])
  PROVE  /\ Enabled(entries) \in Seq(DOMAIN Normalize)
         /\ Kept(Enabled(entries), Len(entries), SwitchedOn(entries), Spelled(entries))
<1> DEFINE n == Len(entries)
           D == 1..n
           V == Seq(DOMAIN Normalize)
           Add(on, entry) == IF entry.enabled THEN Append(on, entry.name) ELSE on
           op == [p \in D \X V |-> Add(p[2], entries[p[1]])]
           Step(h) == [s \in SUBSET D |->
                         IF s = {} THEN << >>
                         ELSE LET i == Max(s) IN Add(h[s \ {i}], entries[i])]
           H == CHOOSE h : h = Step(h)
<1>1. IsFiniteSet(D)
  BY Positions
<1>2. D \subseteq Int
  BY Positions
<1>3. ASSUME NEW i \in D, NEW v \in V
      PROVE  Add(v, entries[i]) \in V
  <2>1. entries[i] \in [name : DOMAIN Normalize, enabled : BOOLEAN]
    BY Positions
  <2>2. entries[i].name \in DOMAIN Normalize
    BY <2>1
  <2>3. Append(v, entries[i].name) \in V
    BY <2>2
  <2> QED BY <2>3
<1>4. << >> \in V
  OBVIOUS
<1>5. op \in [D \X V -> V]
  BY <1>3
<1>6. \A i \in D, v \in V : op[<<i, v>>] = Add(v, entries[i])
  OBVIOUS
<1>7. Enabled(entries) = H[D]
  BY Positions DEF Enabled, FoldLeft, MapThenFoldSet
<1> HIDE DEF op, D, V, Add, Step
<1>8. PICK g \in [SUBSET D -> V] : LeftFolds(g, D, << >>, op)
  BY <1>1, <1>2, <1>4, <1>5, LeftFoldExists
<1>9. g = Step(g)
  BY <1>6, <1>8 DEF Step, LeftFolds
<1>10. H = Step(H)
  BY <1>9
<1> HIDE DEF H
<1>11. LeftFollows(H, D, V, << >>, op)
  <2> SUFFICES ASSUME NEW s \in SUBSET D
               PROVE  /\ s = {} => H[s] = << >>
                      /\ s # {} /\ H[s \ {Max(s)}] \in V
                           => H[s] = op[<<Max(s), H[s \ {Max(s)}]>>]
    BY DEF LeftFollows
  <2>1. H[s] = IF s = {} THEN << >> ELSE Add(H[s \ {Max(s)}], entries[Max(s)])
    BY <1>10, Zenon DEF Step
  <2>2. s # {} => Max(s) \in D
    BY <1>8 DEF LeftFolds
  <2> QED BY <1>6, <2>1, <2>2
<1>12. PICK v : LeftSteps(v, n, V, << >>, op) /\ H[D] = v[n]
  <2>1. LeftClosed(D, V, << >>, op)
    BY <1>4, <1>5 DEF LeftClosed
  <2>2. n \in Nat /\ D = 1..n
    BY DEF D
  <2> HIDE DEF n, D
  <2> QED BY <1>11, <2>1, <2>2, LeftPrefixes
<1>13. H[D] \in V
  BY <1>12 DEF LeftSteps
<1>14. Kept(H[D], n, SwitchedOn(entries), Spelled(entries))
  <2>1. KeepsOrDrops(op, n, V, SwitchedOn(entries), Spelled(entries))
    BY <1>6 DEF KeepsOrDrops, Add, SwitchedOn, Spelled, D
  <2>2. n \in Nat /\ SwitchedOn(entries) \in SUBSET (1..n)
    BY DEF SwitchedOn
  <2>3. \A i \in 1..n : Spelled(entries)[i] \in (DOMAIN Normalize)
    <3>1. \A i \in 1..n : entries[i] \in [name : DOMAIN Normalize, enabled : BOOLEAN]
      BY Positions
    <3>2. \A i \in 1..n : entries[i].name \in DOMAIN Normalize
      BY <3>1
    <3> QED BY <3>2 DEF Spelled
  <2>4. V = Seq((DOMAIN Normalize))
    BY DEF V
  <2> HIDE DEF n, D, V
  <2> QED BY <1>12, <2>1, <2>2, <2>3, <2>4, KeptPrefixes
<1> QED BY <1>7, <1>13, <1>14 DEF V

LEMMA PriorityType ==
  ASSUME NEW c \in Configurations, Starts(c)
  PROVE  ResolveBridgePriority(c) \in Seq(Names \cup BuiltIn)
<1>1. Seq(Names) \subseteq Seq(Names \cup BuiltIn) /\ Seq(BuiltIn) \subseteq Seq(Names \cup BuiltIn)
  OBVIOUS
<1>2. CASE EnvironmentDecides(c.env)
  <2>1. c.env \in Seq(DOMAIN Normalize)
    BY <1>2, ConfigurationAssumption DEF EnvironmentDecides
  <2> QED BY <1>1, <1>2, <2>1, NormalizedType DEF ResolveBridgePriority
<1>3. CASE ~EnvironmentDecides(c.env) /\ c.file \in {NoFile, BadFile}
  BY <1>1, <1>3, NameAssumption DEF ResolveBridgePriority, Starts
<1>4. CASE ~EnvironmentDecides(c.env) /\ c.file \notin {NoFile, BadFile}
  <2>1. CASE c.file.priority # Unset
    <3>1. NormalizedNames(c.file.priority) \in Seq(Names)
      BY <1>4, <2>1, ConfigurationAssumption, NormalizedType
    <3> QED BY <1>1, <1>4, <2>1, <3>1, NameAssumption DEF ResolveBridgePriority, ListedInFile
  <2>2. CASE c.file.priority = Unset /\ c.file.bridges # Unset
    <3>1. Enabled(c.file.bridges) \in Seq(DOMAIN Normalize)
      BY <1>4, <2>2, ConfigurationAssumption, EnabledType
    <3>2. NormalizedNames(Enabled(c.file.bridges)) \in Seq(Names)
      BY <3>1, NormalizedType
    <3> QED BY <1>1, <1>4, <2>2, <3>2, NameAssumption DEF ResolveBridgePriority, ListedInFile
  <2>3. CASE c.file.priority = Unset /\ c.file.bridges = Unset
    BY <1>1, <1>4, <2>3, NameAssumption DEF ResolveBridgePriority, ListedInFile
  <2> QED BY <2>1, <2>2, <2>3
<1> QED BY <1>2, <1>3, <1>4

\* Sequences that name nothing twice.
Listings(S) == {t \in Seq(S) : \A i, j \in DOMAIN t : t[i] = t[j] => i = j}

\* The positions at which an available name is mentioned first.
FirstMentions(names, available) ==
  {i \in 1..Len(names) :
     names[i] \in available /\ \A k \in 1..(i - 1) : names[k] # names[i]}

LEMMA SelectionType ==
  ASSUME NEW c \in Configurations, Starts(c)
  PROVE  /\ SelectRelayers(c) \in Listings(Available(c)) \ {<< >>}
         /\ ToSet(SelectRelayers(c))
              = {ResolveBridgePriority(c)[i] : i \in 1..Len(ResolveBridgePriority(c))}
                  \cap Available(c)
         /\ Kept(SelectRelayers(c), Len(ResolveBridgePriority(c)),
                 FirstMentions(ResolveBridgePriority(c), Available(c)),
                 ResolveBridgePriority(c))
<1> DEFINE n == Len(ResolveBridgePriority(c))
           D == 1..n
           V == Listings(Available(c))
           Add(taken, name) == IF name \in Available(c) \ ToSet(taken)
                               THEN Append(taken, name) ELSE taken
           op == [p \in D \X V |-> Add(p[2], ResolveBridgePriority(c)[p[1]])]
           Step(h) == [s \in SUBSET D |->
                         IF s = {} THEN << >>
                         ELSE LET i == Max(s) IN Add(h[s \ {i}], ResolveBridgePriority(c)[i])]
           H == CHOOSE h : h = Step(h)
<1>1. IsFiniteSet(D)
  BY PriorityType, Positions
<1>2. D \subseteq Int
  BY PriorityType, Positions
<1>3. ASSUME NEW i \in D, NEW v \in V
      PROVE  Add(v, ResolveBridgePriority(c)[i]) \in V
  <2> DEFINE name == ResolveBridgePriority(c)[i]
             t == Append(v, name)
  <2>1. v \in Seq(Available(c)) /\ \A k, m \in DOMAIN v : v[k] = v[m] => k = m
    BY DEF Listings
  <2>2. CASE name \in Available(c) \ ToSet(v)
    <3>1. t \in Seq(Available(c)) /\ DOMAIN t = 1..(Len(v) + 1)
      BY <2>1, <2>2
    <3>2. t[Len(v) + 1] = name /\ \A k \in 1..Len(v) : t[k] = v[k] /\ v[k] # name
      BY <2>1, <2>2 DEF ToSet
    <3>3. \A k, m \in DOMAIN t : t[k] = t[m] => k = m
      BY <2>1, <3>1, <3>2
    <3> QED BY <2>2, <3>1, <3>3 DEF Listings
  <2>3. CASE name \notin Available(c) \ ToSet(v)
    BY <2>3
  <2> QED BY <2>2, <2>3
<1>4. << >> \in V
  BY DEF Listings
<1>5. op \in [D \X V -> V]
  BY <1>3
<1>6. \A i \in D, v \in V : op[<<i, v>>] = Add(v, ResolveBridgePriority(c)[i])
  OBVIOUS
<1>7. SelectRelayers(c) = H[D]
  BY PriorityType, Positions DEF SelectRelayers, FoldLeft, MapThenFoldSet
<1> HIDE DEF op, D, V, Add, Step
<1>8. PICK g \in [SUBSET D -> V] : LeftFolds(g, D, << >>, op)
  BY <1>1, <1>2, <1>4, <1>5, LeftFoldExists
<1>9. g = Step(g)
  BY <1>6, <1>8 DEF Step, LeftFolds
<1>10. H = Step(H)
  BY <1>9
<1> HIDE DEF H
<1>11. LeftFollows(H, D, V, << >>, op)
  <2> SUFFICES ASSUME NEW s \in SUBSET D
               PROVE  /\ s = {} => H[s] = << >>
                      /\ s # {} /\ H[s \ {Max(s)}] \in V
                           => H[s] = op[<<Max(s), H[s \ {Max(s)}]>>]
    BY DEF LeftFollows
  <2>1. H[s] = IF s = {} THEN << >> ELSE Add(H[s \ {Max(s)}], ResolveBridgePriority(c)[Max(s)])
    BY <1>10, Zenon DEF Step
  <2>2. s # {} => Max(s) \in D
    BY <1>8 DEF LeftFolds
  <2> QED BY <1>6, <2>1, <2>2
<1>12. PICK v : LeftSteps(v, n, V, << >>, op) /\ H[D] = v[n]
  <2>1. LeftClosed(D, V, << >>, op)
    BY <1>4, <1>5 DEF LeftClosed
  <2>2. n \in Nat /\ D = 1..n
    BY PriorityType DEF D
  <2> HIDE DEF n, D
  <2> QED BY <1>11, <2>1, <2>2, LeftPrefixes
<1>13. H[D] \in V
  <2>1. n \in 0..n
    BY PriorityType
  <2> QED BY <1>12, <2>1 DEF LeftSteps
<1> DEFINE A == Available(c)
           P == ResolveBridgePriority(c)
           F == FirstMentions(P, A)
           C == {i \in 0..n : /\ Kept(v[i], i, F \cap (1..i), P)
                             /\ ToSet(v[i]) = {P[k] : k \in 1..i} \cap A}
<1>14. 0 \in C
  <2>1. v[0] = << >> /\ F \cap (1..0) = {} /\ 0 \in 0..n
    BY <1>12, PriorityType DEF LeftSteps
  <2>2. Kept(<< >>, 0, {}, P)
    BY KeptNothing
  <2>3. ToSet(<< >>) = {} /\ {P[k] : k \in 1..0} = {}
    BY DEF ToSet
  <2> HIDE DEF F, P
  <2> QED BY <2>1, <2>2, <2>3
<1>15. ASSUME NEW i \in 0..(n - 1), i \in C PROVE i + 1 \in C
  <2>1. i + 1 \in 1..n /\ i \in 0..n /\ i + 1 \in 0..n /\ i \in Nat /\ (i + 1) - 1 = i
    BY PriorityType
  <2> DEFINE name == P[i + 1]
             w == v[i]
             z == v[i + 1]
             before == {P[k] : k \in 1..i}
  <2>2. w \in V /\ z = op[<<i + 1, w>>]
    BY <1>12, <2>1 DEF LeftSteps
  <2>3. z = IF name \in A \ ToSet(w) THEN Append(w, name) ELSE w
    BY <1>6, <2>1, <2>2 DEF Add, D
  <2>4. /\ Kept(w, i, F \cap (1..i), P)
        /\ ToSet(w) = before \cap A
    BY <1>15
  <2>5. w \in Seq(A)
    BY <2>2 DEF V, Listings
  <2>6. i + 1 \in F <=> name \in A \ ToSet(w)
    <3>1. i + 1 \in F <=> name \in A /\ \A k \in 1..i : P[k] # name
      BY <2>1 DEF FirstMentions
    <3>2. name \in before <=> \E k \in 1..i : P[k] = name
      OBVIOUS
    <3> HIDE DEF before, name, F, P
    <3> QED BY <2>4, <3>1, <3>2
  <2>7. {P[k] : k \in 1..(i + 1)} = before \cup {name}
    <3>1. \A k : k \in 1..(i + 1) <=> k \in 1..i \/ k = i + 1
      BY <2>1
    <3> HIDE DEF P
    <3> QED BY <3>1
  <2> HIDE DEF name, w, z, before, F, P
  <2>8. CASE i + 1 \in F
    <3>1. name \in A /\ z = Append(w, name)
      BY <2>3, <2>6, <2>8
    <3>2. ToSet(z) = ToSet(w) \cup {name}
      BY <2>5, <3>1, AppendSet
    <3>3. ToSet(z) = (before \cup {name}) \cap A
      BY <2>4, <3>1, <3>2
    <3>4. Kept(z, i + 1, F \cap (1..(i + 1)), P)
      BY <2>1, <2>4, <2>5, <2>8, <3>1, KeptStep DEF name
    <3> QED BY <2>1, <2>7, <3>3, <3>4 DEF z
  <2>9. CASE i + 1 \notin F
    <3>1. z = w /\ name \notin A \ ToSet(w)
      BY <2>3, <2>6, <2>9
    <3>2. ToSet(z) = (before \cup {name}) \cap A
      BY <2>4, <3>1
    <3>3. F \cap (1..(i + 1)) = F \cap (1..i)
      BY <2>1, <2>9
    <3>4. Kept(z, i + 1, F \cap (1..(i + 1)), P)
      BY <2>1, <2>4, <2>5, <3>1, <3>3, KeptLonger
    <3> QED BY <2>1, <2>7, <3>2, <3>4 DEF z
  <2> QED BY <2>8, <2>9
<1>16. n \in C
  <2>1. n \in Nat
    BY PriorityType
  <2> HIDE DEF C, n
  <2>2. 0..n \subseteq C
    BY <1>14, <1>15, <2>1, IntervalInduction
  <2> QED BY <2>1, <2>2
<1>17. Kept(v[n], n, F, P) /\ ToSet(v[n]) = {P[k] : k \in 1..n} \cap A
  <2>1. F \cap (1..n) = F
    BY DEF FirstMentions
  <2> QED BY <1>16, <2>1
<1> QED BY <1>7, <1>12, <1>13, <1>17 DEF V, Starts

(* The written names that count, in the order in which they are resolved.  *)
MentionTypes == [name : DOMAIN Normalize, enabled : BOOLEAN]

Counted(mentions) ==
  {i \in 1..Len(mentions) :
     mentions[i].enabled /\ Normalize[mentions[i].name] # NoName}

Resolved(mentions) == [i \in 1..Len(mentions) |-> Normalize[mentions[i].name]]

\* names are what is left of the mentions of c, and decide its priority.
Reading(c, names) ==
  /\ names \in Seq(Names)
  /\ Kept(names, Len(Mentions(c)), Counted(Mentions(c)), Resolved(Mentions(c)))
  /\ ResolveBridgePriority(c) =
       IF names = << >> /\ ~EnvironmentDecides(c.env) THEN DefaultPriority ELSE names

LEMMA AllCount ==
  ASSUME NEW written \in Seq(DOMAIN Normalize), NEW mentions,
         mentions = [i \in DOMAIN written |-> [name |-> written[i], enabled |-> TRUE]]
  PROVE  /\ mentions \in Seq(MentionTypes)
         /\ Kept(NormalizedNames(written), Len(mentions), Counted(mentions),
                 Resolved(mentions))
<1> DEFINE n == Len(written)
<1>1. n \in Nat /\ DOMAIN written = 1..n /\ \A i \in 1..n : written[i] \in DOMAIN Normalize
  BY Positions
<1> HIDE DEF n
<1>2. /\ mentions = [i \in 1..n |-> [name |-> written[i], enabled |-> TRUE]]
      /\ \A i \in 1..n : /\ mentions[i].name = written[i]
                         /\ mentions[i].enabled = TRUE
  BY <1>1
<1>3. mentions \in [1..n -> MentionTypes]
  BY <1>1, <1>2 DEF MentionTypes
<1>4. mentions \in Seq(MentionTypes) /\ Len(mentions) = n
  BY <1>1, <1>3, FunctionIsSeq
<1>5. Counted(mentions) = Named(written)
  BY <1>2, <1>4 DEF Counted, Named, n
<1>6. Resolved(mentions) = Held(written)
  BY <1>2, <1>4 DEF Resolved, Held, n
<1>7. Kept(NormalizedNames(written), n, Named(written), Held(written))
  BY NormalizedType DEF n
<1> QED BY <1>4, <1>5, <1>6, <1>7

LEMMA EnabledCount ==
  ASSUME NEW entries \in Seq(MentionTypes)
  PROVE  Kept(NormalizedNames(Enabled(entries)), Len(entries), Counted(entries),
              Resolved(entries))
<1> DEFINE mid == Enabled(entries)
           out == NormalizedNames(mid)
           n == Len(entries)
<1>1. /\ mid \in Seq(DOMAIN Normalize)
      /\ Kept(mid, n, SwitchedOn(entries), Spelled(entries))
  BY EnabledType DEF MentionTypes
<1> HIDE DEF mid
<1>2. out \in Seq(Names) /\ Kept(out, Len(mid), Named(mid), Held(mid))
  BY <1>1, NormalizedType
<1>3. Passes(Named(mid), Held(mid), mid, Normalize, NoName)
  BY DEF Passes, Named, Held
<1>4. Counted(entries) = {i \in SwitchedOn(entries) : Normalize[Spelled(entries)[i]] # NoName}
  BY DEF Counted, SwitchedOn, Spelled
<1>5. \A i \in 1..n : Resolved(entries)[i] = Normalize[Spelled(entries)[i]]
  BY DEF Resolved, Spelled
<1>6. /\ n \in Nat /\ Len(mid) \in Nat /\ Len(out) \in Nat
      /\ SwitchedOn(entries) \in SUBSET (1..n)
  BY <1>1, <1>2 DEF SwitchedOn
<1> HIDE DEF n, out
<1>7. Kept(out, n, Counted(entries), Resolved(entries))
  BY <1>1, <1>2, <1>3, <1>4, <1>5, <1>6, KeptTwice
<1> QED BY <1>7 DEF mid, n, out

LEMMA ReadingExists ==
  ASSUME NEW c \in Configurations, Starts(c)
  PROVE  /\ Mentions(c) \in Seq(MentionTypes)
         /\ \E names : Reading(c, names)
<1>1. ASSUME EnvironmentDecides(c.env)
      PROVE  Mentions(c) \in Seq(MentionTypes) /\ Reading(c, NormalizedNames(c.env))
  <2>1. c.env \in Seq(DOMAIN Normalize)
    BY <1>1, ConfigurationAssumption DEF EnvironmentDecides
  <2>2. Mentions(c) = [i \in DOMAIN c.env |-> [name |-> c.env[i], enabled |-> TRUE]]
    BY <1>1 DEF Mentions
  <2>3. ResolveBridgePriority(c) = NormalizedNames(c.env)
    BY <1>1 DEF ResolveBridgePriority
  <2> QED BY <1>1, <2>1, <2>2, <2>3, AllCount, NormalizedType DEF Reading
<1>a. ASSUME Mentions(c) = << >>
      PROVE  /\ Mentions(c) \in Seq(MentionTypes)
             /\ Kept(<< >>, Len(Mentions(c)), Counted(Mentions(c)), Resolved(Mentions(c)))
             /\ << >> \in Seq(Names)
  <2>1. Len(<< >>) = 0 /\ 0 \in Nat /\ Counted(<< >>) = {}
    BY DEF Counted
  <2>2. Kept(<< >>, 0, {}, Resolved(<< >>))
    BY <2>1, KeptNothing
  <2> QED BY <1>a, <2>1, <2>2
<1>2. ASSUME ~EnvironmentDecides(c.env), c.file = NoFile
      PROVE  Mentions(c) \in Seq(MentionTypes) /\ Reading(c, << >>)
  <2>1. Mentions(c) = << >>
    BY <1>2 DEF Mentions
  <2>2. ResolveBridgePriority(c) = DefaultPriority
    BY <1>2 DEF ResolveBridgePriority
  <2> QED BY <1>a, <1>2, <2>1, <2>2 DEF Reading
<1>3. ASSUME ~EnvironmentDecides(c.env), c.file # NoFile
      PROVE  /\ c.file \notin {NoFile, BadFile}
             /\ ResolveBridgePriority(c) = IF ListedInFile(c.file) = << >>
                                           THEN DefaultPriority ELSE ListedInFile(c.file)
  BY <1>3 DEF Starts, ResolveBridgePriority
<1>4. ASSUME ~EnvironmentDecides(c.env), c.file # NoFile, c.file.priority # Unset
      PROVE  /\ Mentions(c) \in Seq(MentionTypes)
             /\ Reading(c, NormalizedNames(c.file.priority))
  <2>1. c.file.priority \in Seq(DOMAIN Normalize)
    BY <1>3, <1>4, ConfigurationAssumption
  <2>2. Mentions(c) = [i \in DOMAIN c.file.priority |->
                         [name |-> c.file.priority[i], enabled |-> TRUE]]
    BY <1>4 DEF Mentions
  <2>3. ListedInFile(c.file) = NormalizedNames(c.file.priority)
    BY <1>4 DEF ListedInFile
  <2> QED BY <1>3, <1>4, <2>1, <2>2, <2>3, AllCount, NormalizedType DEF Reading
<1>5. ASSUME ~EnvironmentDecides(c.env), c.file # NoFile, c.file.priority = Unset,
             c.file.bridges # Unset
      PROVE  /\ Mentions(c) \in Seq(MentionTypes)
             /\ Reading(c, NormalizedNames(Enabled(c.file.bridges)))
  <2>1. c.file.bridges \in Seq(MentionTypes)
    BY <1>3, <1>5, ConfigurationAssumption DEF MentionTypes
  <2>2. Mentions(c) = c.file.bridges
    BY <1>5 DEF Mentions
  <2>3. ListedInFile(c.file) = NormalizedNames(Enabled(c.file.bridges))
    BY <1>5 DEF ListedInFile
  <2>4. NormalizedNames(Enabled(c.file.bridges)) \in Seq(Names)
    BY <2>1, EnabledType, NormalizedType DEF MentionTypes
  <2> QED BY <1>3, <1>5, <2>1, <2>2, <2>3, <2>4, EnabledCount DEF Reading
<1>6. ASSUME ~EnvironmentDecides(c.env), c.file # NoFile, c.file.priority = Unset,
             c.file.bridges = Unset
      PROVE  Mentions(c) \in Seq(MentionTypes) /\ Reading(c, << >>)
  <2>1. Mentions(c) = << >>
    BY <1>6 DEF Mentions
  <2>2. ListedInFile(c.file) = << >>
    BY <1>6 DEF ListedInFile
  <2> QED BY <1>a, <1>3, <1>6, <2>1, <2>2 DEF Reading
<1> QED BY <1>1, <1>2, <1>4, <1>5, <1>6

LEMMA MinIs ==
  ASSUME NEW S, NEW m \in S, S \subseteq Int, \A i \in S : m <= i
  PROVE  Min(S) = m
<1>1. Min(S) \in S /\ \A i \in S : Min(S) <= i
  BY Zenon DEF Min
<1>2. Min(S) \in Int /\ m \in Int /\ Min(S) <= m /\ m <= Min(S)
  BY <1>1
<1> QED BY <1>2

LEMMA SelectionAsListed == ResolutionAsListed
<1> SUFFICES ASSUME NEW c \in Configurations, Starts(c), SelectRelayers(c) = relayers
             PROVE
    LET at(name) == {i \in DOMAIN Mentions(c) :
                       /\ Mentions(c)[i].enabled
                       /\ Normalize[Mentions(c)[i].name] = name}
        listed == {name \in Range(Normalize) \ {NoName} : at(name) # {}}
    IN  IF listed = {} THEN relayers = DefaultPriority
        ELSE /\ ToSet(relayers) = listed \cap Available(c)
             /\ \A i, j \in DOMAIN relayers :
                  i < j /\ relayers[i] # relayers[j]
                    => Min(at(relayers[i])) < Min(at(relayers[j]))
  BY DEF ResolutionAsListed
<1> DEFINE M == Mentions(c)
           at(name) == {i \in DOMAIN M : M[i].enabled /\ Normalize[M[i].name] = name}
           listed == {name \in Range(Normalize) \ {NoName} : at(name) # {}}
           P == ResolveBridgePriority(c)
           A == Available(c)
           n == Len(M)
           m == Len(P)
           l == Len(relayers)
<1>1. M \in Seq(MentionTypes)
  BY ReadingExists
<1>2. PICK names : Reading(c, names)
  BY ReadingExists
<1>3. /\ relayers \in Seq(A) /\ relayers # << >>
      /\ ToSet(relayers) = {P[k] : k \in 1..m} \cap A
      /\ Kept(relayers, m, FirstMentions(P, A), P)
  BY SelectionType DEF Listings
<1>4. /\ n \in Nat /\ DOMAIN M = 1..n
      /\ \A i \in 1..n : M[i].name \in DOMAIN Normalize
  <2>1. n \in Nat /\ DOMAIN M = 1..n /\ \A i \in 1..n : M[i] \in MentionTypes
    BY <1>1, Positions
  <2> QED BY <2>1 DEF MentionTypes
<1>5. names \in Seq(Names) /\ Kept(names, n, Counted(M), Resolved(M))
  BY <1>2 DEF Reading
<1>6. P = IF names = << >> /\ ~EnvironmentDecides(c.env) THEN DefaultPriority ELSE names
  BY <1>2 DEF Reading
<1>7. l \in Nat /\ DOMAIN relayers = 1..l /\ l # 0
  BY <1>3
<1> HIDE DEF M, n, l
<1>8. \A i : i \in Counted(M) <=>
          i \in 1..n /\ M[i].enabled /\ Normalize[M[i].name] # NoName
  BY DEF Counted, n
<1>9. \A i \in 1..n : Resolved(M)[i] = Normalize[M[i].name]
  BY DEF Resolved, n
<1>10. \A name, i : i \in at(name) <=>
          i \in 1..n /\ M[i].enabled /\ Normalize[M[i].name] = name
  BY <1>4
<1>11. \A name \in listed : \E i \in Counted(M) : Resolved(M)[i] = name
  BY <1>8, <1>9, <1>10
<1>12. \A i \in Counted(M) : Resolved(M)[i] \in listed
  <2> SUFFICES ASSUME NEW i \in Counted(M) PROVE Resolved(M)[i] \in listed
    OBVIOUS
  <2> DEFINE name == Normalize[M[i].name]
  <2>1. i \in 1..n /\ M[i].enabled /\ name # NoName /\ Resolved(M)[i] = name
    BY <1>8, <1>9
  <2>2. name \in Range(Normalize)
    BY <1>4, <2>1 DEF Range
  <2>3. i \in at(name)
    BY <1>10, <2>1
  <2> QED BY <2>1, <2>2, <2>3
<1> HIDE DEF at, listed
<1>13. PICK pos \in [1..Len(names) -> 1..n] :
         /\ Rises(pos)
         /\ \A k \in 1..Len(names) : pos[k] \in Counted(M) /\ names[k] = Resolved(M)[pos[k]]
         /\ \A i \in Counted(M) : \E k \in 1..Len(names) : pos[k] = i
  BY <1>5 DEF Kept
<1>14. CASE names = << >>
  <2>1. Len(names) = 0
    BY <1>14
  <2>2. Counted(M) = {}
    BY <1>13, <2>1
  <2>3. listed = {}
    BY <1>11, <2>2
  <2>4. P = DefaultPriority
    <3>1. ASSUME P = << >> PROVE FALSE
      <4>1. m = 0
        BY <3>1
      <4>2. relayers = << >>
        <5>1. ToSet(relayers) = {}
          BY <1>3, <4>1
        <5>2. 1 \in DOMAIN relayers
          BY <1>7
        <5> QED BY <5>1, <5>2 DEF ToSet
      <4> QED BY <1>3, <4>2
    <3> QED BY <1>6, <1>14, <3>1
  <2>5. relayers = DefaultPriority
    <3> DEFINE all == DefaultPriority
    <3>1. all \in Seq(BuiltIn) /\ \A i, j \in DOMAIN all : all[i] = all[j] => i = j
      BY NameAssumption
    <3>2. BuiltIn \subseteq A
      BY DEF Available
    <3>3. all \in Seq(A) /\ DOMAIN all = 1..Len(all) /\ Len(all) \in Nat
          /\ \A i \in 1..Len(all) : all[i] \in A
      BY <3>1, <3>2
    <3> HIDE DEF all, A
    <3>4. FirstMentions(all, A) = 1..Len(all)
      BY <3>1, <3>3 DEF FirstMentions
    <3>5. Kept(relayers, Len(all), 1..Len(all), all)
      BY <1>3, <2>4, <3>4 DEF all
    <3>6. relayers = all
      BY <1>3, <3>3, <3>5, KeptAll
    <3> QED BY <3>6 DEF all
  <2> QED BY <2>3, <2>5 DEF at, listed, M
<1>15. CASE names # << >>
  <2>1. P = names /\ m = Len(names)
    BY <1>6, <1>15
  <2>2. m \in Nat \ {0} /\ DOMAIN names = 1..m
    BY <1>5, <1>15, <2>1
  <2>3. listed = {P[k] : k \in 1..m}
    <3>1. \A k \in 1..m : P[k] \in listed
      BY <1>12, <1>13, <2>1
    <3>2. ASSUME NEW name \in listed PROVE \E k \in 1..m : P[k] = name
      <4>1. PICK i \in Counted(M) : Resolved(M)[i] = name
        BY <1>11
      <4>2. PICK k \in 1..m : pos[k] = i
        BY <1>13, <2>1
      <4> QED BY <1>13, <2>1, <4>1, <4>2
    <3> QED BY <3>1, <3>2
  <2>4. listed # {}
    <3>1. 1 \in 1..m
      BY <2>2
    <3> QED BY <2>3, <3>1
  <2>5. ToSet(relayers) = listed \cap A
    BY <1>3, <2>3
  <2>6. PICK sel \in [1..l -> 1..m] :
          /\ Rises(sel)
          /\ \A i \in 1..l : sel[i] \in FirstMentions(P, A) /\ relayers[i] = P[sel[i]]
    BY <1>3 DEF Kept, l
  <2>7. ASSUME NEW i \in 1..l
        PROVE  Min(at(relayers[i])) = pos[sel[i]]
    <3> DEFINE k == sel[i]
    <3>1. /\ k \in 1..m /\ relayers[i] = P[k]
          /\ \A j \in 1..(k - 1) : P[j] # P[k]
      BY <2>6 DEF FirstMentions
    <3> HIDE DEF k
    <3>2. pos[k] \in at(P[k])
      <4>1. pos[k] \in Counted(M) /\ P[k] = Resolved(M)[pos[k]]
        BY <1>13, <2>1, <3>1
      <4> QED BY <1>8, <1>9, <1>10, <4>1
    <3>3. ASSUME NEW e \in at(P[k]) PROVE pos[k] <= e
      <4>1. e \in Counted(M) /\ Resolved(M)[e] = P[k]
        <5>1. P[k] # NoName
          BY <1>8, <1>9, <1>13, <2>1, <3>1
        <5> QED BY <1>8, <1>9, <1>10, <3>3, <5>1
      <4>2. PICK j \in 1..m : pos[j] = e
        BY <1>13, <2>1, <4>1
      <4>3. P[j] = P[k]
        BY <1>13, <2>1, <4>1, <4>2
      <4>4. j >= k
        BY <2>2, <3>1, <4>3
      <4>5. k < j => pos[k] < pos[j]
        BY <1>13, <2>1, <3>1 DEF Rises
      <4>6. pos[k] \in 1..n /\ pos[j] \in 1..n
        BY <1>13, <2>1, <3>1
      <4> QED BY <2>2, <3>1, <4>2, <4>4, <4>5, <4>6
    <3>4. at(P[k]) \subseteq Int
      BY <1>4, <1>10
    <3>5. Min(at(P[k])) = pos[k]
      BY <3>2, <3>3, <3>4, MinIs
    <3> QED BY <3>1, <3>5 DEF k
  <2>8. ASSUME NEW i \in 1..l, NEW j \in 1..l, i < j
        PROVE  Min(at(relayers[i])) < Min(at(relayers[j]))
    <3>1. sel[i] < sel[j] /\ sel[i] \in 1..m /\ sel[j] \in 1..m
      BY <2>6, <2>8 DEF Rises
    <3>2. pos[sel[i]] < pos[sel[j]]
      BY <1>13, <2>1, <3>1 DEF Rises
    <3> QED BY <2>7, <3>2
  <2>9. /\ ToSet(relayers) = listed \cap A
        /\ \A i, j \in DOMAIN relayers :
             i < j /\ relayers[i] # relayers[j]
               => Min(at(relayers[i])) < Min(at(relayers[j]))
    <3> HIDE DEF A
    <3> QED BY <1>7, <2>5, <2>8
  <2> QED BY <2>4, <2>9, Zenon DEF at, listed, M
<1> QED BY <1>14, <1>15

-----------------------------------------------------------------------------
(* The failover.  A transaction is open until it is known to have failed;  *)
(* of a run none of whose attempts was abandoned at most one is open, and  *)
(* none while the next attempt is being made.                              *)

Open == sent \ rejected

Books ==
  /\ IsFiniteSet(sent)
  /\ mempool \cap (relayed \cup rejected) = {} /\ relayed \cap rejected = {}
  /\ \A tx \in sent : tx.run <= runs /\ tx.life <= life

\* What was sent in the current run went over bridges tried before.
CallBehind ==
  call.state # "idle" =>
    /\ call.run = runs
    /\ \A tx \in sent : tx.run = call.run =>
         /\ tx.request = call.request /\ tx.life = life
         /\ \E i \in 1..call.index :
              /\ tx.bridge = relayers[i]
              /\ i = call.index => call.state \notin {"estimating", "sending"}

OneOpen ==
  \A t, u \in Open : t.run = u.run /\ t.run \notin abandoned => t = u

CallOpen ==
  /\ call.state \in {"estimating", "sending", "failed"} /\ call.run \notin abandoned
       => \A tx \in Open : tx.run # call.run
  /\ call.state \in {"sending", "awaiting"} => relayers[call.index] # Dummy
  /\ call.state = "awaiting" =>
       /\ Tx \in sent
       /\ call.run \notin abandoned => \A tx \in Open : tx.run = call.run => tx = Tx
  /\ call.state = "ok" =>
       (\E tx \in relayed : tx.run = call.run) \/ relayers[call.index] = Dummy

FailoverInv == TypeOK /\ Books /\ EachBridgeOnce /\ CallBehind /\ OneOpen /\ CallOpen

LEMMA SelectionsAreListings ==
  ASSUME NEW s \in Selections
  PROVE  /\ s \in Seq(BuiltIn \cup {Dummy}) /\ s # << >>
         /\ \A i, j \in DOMAIN s : s[i] = s[j] => i = j
<1>1. PICK c \in Configurations : Starts(c) /\ s = SelectRelayers(c)
  BY DEF Selections
<1>2. Seq(Available(c)) \subseteq Seq(BuiltIn \cup {Dummy})
  BY DEF Available
<1> QED BY <1>1, <1>2, SelectionType DEF Listings

LEMMA RelayersOK ==
  ASSUME TypeOK
  PROVE  /\ DOMAIN relayers = 1..Len(relayers) /\ Len(relayers) \in Nat \ {0}
         /\ \A i \in DOMAIN relayers : relayers[i] \in BuiltIn \cup {Dummy}
         /\ \A i, j \in DOMAIN relayers : relayers[i] = relayers[j] => i = j
<1>1. /\ relayers \in Seq(BuiltIn \cup {Dummy}) /\ relayers # << >>
      /\ \A i, j \in DOMAIN relayers : relayers[i] = relayers[j] => i = j
  BY SelectionsAreListings DEF TypeOK
<1> QED BY <1>1

LEMMA FeeType ==
  ASSUME NEW e \in Estimates \cup {NoEstimate}
  PROVE  FeeToPay(e) \in Nat
<1>1. CASE e = NoEstimate
  BY <1>1, FeeAssumption DEF FeeToPay
<1>2. CASE e # NoEstimate
  <2>1. e \in Nat /\ FeeBufferBps \in Nat
    BY <1>2, FeeAssumption
  <2> DEFINE p == e * FeeBufferBps
  <2>2. p \in Nat
    BY <2>1
  <2> HIDE DEF p
  <2>3. p \div 10000 \in Nat
    BY <2>2
  <2> QED BY <1>2, <2>3 DEF FeeToPay, p
<1> QED BY <1>1, <1>2

(* The transaction of an attempt that has its fee, and that none like it   *)
(* was sent before.                                                        *)
LEMMA TxType ==
  ASSUME TypeOK, CallOpen, call.state \in {"sending", "awaiting"}
  PROVE  Tx \in Txs
<1>1. relayers[call.index] \in BuiltIn
  BY RelayersOK DEF TypeOK, CallOpen
<1> QED BY <1>1, FeeAssumption DEF TypeOK, Tx, Txs

LEMMA TxFields ==
  /\ Tx.request = call.request /\ Tx.run = call.run /\ Tx.life = life
  /\ Tx.bridge = relayers[call.index] /\ Tx.fee = call.fee /\ Tx.day = call.day
BY DEF Tx

LEMMA TxIsNew ==
  ASSUME TypeOK, CallBehind, call.state = "sending"
  PROVE  \A tx \in sent : tx.run = call.run => tx.bridge # relayers[call.index]
<1> SUFFICES ASSUME NEW tx \in sent, tx.run = call.run, tx.bridge = relayers[call.index]
             PROVE  FALSE
  OBVIOUS
<1>1. PICK i \in 1..call.index : tx.bridge = relayers[i] /\ i # call.index
  BY DEF CallBehind
<1>2. call.index \in DOMAIN relayers /\ i \in DOMAIN relayers
  BY RelayersOK DEF TypeOK
<1> QED BY <1>1, <1>2, RelayersOK

(* The next bridge, or the end.                                            *)
LEMMA TryNextFacts ==
  ASSUME TypeOK, call.state \in {"estimating", "sending", "awaiting"}, TryNext
  PROVE  /\ call' \in [state : {"estimating", "failed"}, request : Requests,
                       run : 1..runs, index : DOMAIN relayers, fee : Nat, day : 0..today]
         /\ call'.request = call.request /\ call'.run = call.run
         /\ \/ call'.state = "estimating" /\ call'.index = call.index + 1
            \/ call'.state = "failed" /\ call'.index = call.index
<1>1. /\ call \in [state : CallStates, request : Requests \cup {0}, run : 0..runs,
                   index : Nat, fee : Nat, day : 0..today]
      /\ call.request \in Requests /\ call.run \in 1..runs
      /\ call.index \in 1..Len(relayers)
      /\ Len(relayers) \in Nat /\ DOMAIN relayers = 1..Len(relayers)
  BY RelayersOK DEF TypeOK
<1>2. CASE call.index < Len(relayers)
  <2>1. call' = [call EXCEPT !.state = "estimating", !.index = @ + 1]
    BY <1>2 DEF TryNext
  <2>2. call.index + 1 \in DOMAIN relayers
    BY <1>1, <1>2
  <2> QED BY <1>1, <2>1, <2>2
<1>3. CASE ~(call.index < Len(relayers))
  <2>1. call' = [call EXCEPT !.state = "failed"]
    BY <1>3 DEF TryNext
  <2> QED BY <1>1, <2>1
<1> QED BY <1>2, <1>3

LEMMA QuoteType == TypeOK /\ (\E e \in Estimates \cup {NoEstimate} : Quote(e)) => TypeOK'
<1> SUFFICES ASSUME TypeOK, NEW e \in Estimates \cup {NoEstimate}, Quote(e)
             PROVE  TypeOK'
  OBVIOUS
<1> DEFINE fee == FeeToPay(e)
<1>1. fee \in Nat /\ SpentNow \in Nat /\ Projected(fee) \in Nat
  BY FeeType DEF SpentNow, Projected, TypeOK
<1> HIDE DEF fee
<1>2. /\ UNCHANGED <<relayers, runs, mempool, relayed, rejected, sent, today, life,
                     abandoned, faults>>
      /\ call.state = "estimating"
      /\ TryNext \/ ToSend(fee)
      /\ \/ UNCHANGED <<spentToday, budgetDay>>
         \/ budgetDay' = today /\ spentToday' \in {SpentNow, Projected(fee)}
  BY Zenon DEF Quote, txVars, budgetVars, fee
<1>3. spentToday' \in Nat /\ budgetDay' \in 0..today'
  BY <1>1, <1>2 DEF TypeOK
<1>4. /\ call' \in [state : CallStates, request : Requests \cup {0}, run : 0..runs',
                    index : Nat, fee : Nat, day : 0..today']
      /\ call'.request \in Requests /\ call'.run \in 1..runs'
      /\ call'.index \in DOMAIN relayers'
  <2>1. CASE TryNext
    BY <1>2, <2>1, TryNextFacts, RelayersOK DEF CallStates, TypeOK
  <2>2. CASE ToSend(fee)
    <3>1. call' = [call EXCEPT !.state = "sending", !.fee = fee, !.day = today]
      BY <2>2 DEF ToSend
    <3>2. today \in 0..today' /\ runs' = runs /\ today' = today /\ relayers' = relayers
      BY <1>2 DEF TypeOK
    <3> QED BY <1>1, <1>2, <3>1, <3>2 DEF CallStates, TypeOK
  <2> QED BY <1>2, <2>1, <2>2
<1> QED BY <1>2, <1>3, <1>4 DEF TypeOK

LEMMA GiveUpType ==
  ASSUME TypeOK, CallOpen, call.state \in {"estimating", "sending", "awaiting"},
         GiveUp, UNCHANGED <<mempool, sent>> \/ (call.state = "sending" /\ Broadcast)
  PROVE  TypeOK'
<1>1. /\ TryNext /\ faults' \in 0..MaxFaults
      /\ abandoned' \subseteq abandoned \cup {call.run}
      /\ UNCHANGED <<relayers, runs, relayed, rejected, spentToday, budgetDay, today, life>>
  BY FeeAssumption DEF GiveUp, Fault, TypeOK, budgetVars
<1>2. /\ call' \in [state : CallStates, request : Requests \cup {0}, run : 0..runs',
                    index : Nat, fee : Nat, day : 0..today']
      /\ call'.request \in Requests /\ call'.run \in 1..runs'
      /\ call'.index \in DOMAIN relayers'
  BY <1>1, TryNextFacts, RelayersOK DEF CallStates, TypeOK
<1>3. sent' \subseteq Txs /\ mempool' \cup relayed' \cup rejected' = sent'
  BY <1>1, TxType DEF Broadcast, TypeOK
<1>4. abandoned' \subseteq 1..runs'
  BY <1>1 DEF TypeOK
<1> QED BY <1>1, <1>2, <1>3, <1>4 DEF TypeOK

LEMMA TypeStep == TypeOK /\ CallOpen /\ [Next]_vars => TypeOK'
<1> SUFFICES ASSUME TypeOK, CallOpen, [Next]_vars PROVE TypeOK'
  OBVIOUS
<1>1. CASE NextDay
  BY <1>1, FeeAssumption DEF NextDay, TypeOK, txVars, budgetVars
<1>2. ASSUME NEW tx \in mempool, Mine(tx) PROVE TypeOK'
  BY <1>2 DEF Mine, TypeOK, budgetVars
<1>3. ASSUME NEW tx \in mempool, Lose(tx) PROVE TypeOK'
  BY <1>3, FeeAssumption DEF Lose, Fault, TypeOK, budgetVars
<1>4. ASSUME NEW r \in Requests, Begin(r) PROVE TypeOK'
  <2>1. /\ call' \in [state : CallStates, request : Requests \cup {0}, run : 0..runs',
                      index : Nat, fee : Nat, day : 0..today']
        /\ call'.request = r /\ call'.run = runs' /\ call'.index = 1
        /\ runs' \in 1..MaxRuns /\ runs' = runs + 1
    <3>1. runs' \in 1..MaxRuns /\ runs' = runs + 1
      BY <1>4, FeeAssumption DEF Begin, TypeOK
    <3>2. call' = [state |-> "estimating", request |-> r, run |-> runs + 1, index |-> 1,
                   fee |-> 0, day |-> 0]
      BY <1>4 DEF Begin, Idle
    <3>3. today' \in Nat
      BY <1>4 DEF Begin, TypeOK
    <3> QED BY <3>1, <3>2, <3>3 DEF CallStates
  <2>2. 1 \in DOMAIN relayers'
    BY <1>4, RelayersOK DEF Begin
  <2> QED BY <1>4, <2>1, <2>2 DEF Begin, TypeOK, txVars, budgetVars
<1>5. ASSUME NEW e \in Estimates \cup {NoEstimate}, Quote(e) PROVE TypeOK'
  BY <1>5, QuoteType
<1>6. CASE Send
  <2>1. call' = [call EXCEPT !.state = "awaiting"] /\ Tx \in Txs /\ Broadcast
    BY <1>6, TxType DEF Send
  <2> QED BY <1>6, <2>1 DEF Send, Broadcast, TypeOK, CallStates, budgetVars
<1>7. CASE SendFails \/ WaitFails \/ Timeout
  <2>1. /\ call.state \in {"estimating", "sending", "awaiting"} /\ GiveUp
        /\ UNCHANGED <<mempool, sent>> \/ (call.state = "sending" /\ Broadcast)
    BY <1>7 DEF SendFails, WaitFails, Timeout
  <2> QED BY <2>1, GiveUpType
<1>9. CASE Receipt
  <2>1. UNCHANGED <<relayers, runs, mempool, relayed, rejected, sent, spentToday,
                    budgetDay, today, life, abandoned, faults>>
    BY <1>9 DEF Receipt, txVars, budgetVars
  <2>2. CASE call' = [call EXCEPT !.state = "ok"]
    BY <1>9, <2>1, <2>2 DEF Receipt, TypeOK, CallStates
  <2>3. CASE TryNext
    <3>1. /\ call' \in [state : CallStates, request : Requests \cup {0}, run : 0..runs',
                        index : Nat, fee : Nat, day : 0..today']
          /\ call'.request \in Requests /\ call'.run \in 1..runs'
          /\ call'.index \in DOMAIN relayers'
      BY <1>9, <2>1, <2>3, TryNextFacts, RelayersOK DEF Receipt, CallStates, TypeOK
    <3> QED BY <2>1, <3>1 DEF TypeOK
  <2> QED BY <1>9, <2>2, <2>3 DEF Receipt
<1>11. CASE DummyRelay
  BY <1>11 DEF DummyRelay, TypeOK, CallStates, txVars, budgetVars
<1>12. CASE Return
  BY <1>12 DEF Return, Idle, TypeOK, CallStates, txVars, budgetVars
<1>13. CASE Restart
  BY <1>13, FeeAssumption DEF Restart, Idle, TypeOK, CallStates, txVars
<1>14. CASE UNCHANGED vars
  BY <1>14 DEF vars, TypeOK, CallStates, txVars, budgetVars
<1> QED BY <1>1, <1>2, <1>3, <1>4, <1>5, <1>6, <1>7, <1>9, <1>11, <1>12,
           <1>13, <1>14 DEF Next, Network, Attempt

Sequenced == Books /\ EachBridgeOnce /\ CallBehind /\ OneOpen /\ CallOpen

\* A transaction that is broadcast is a new one.
LEMMA BroadcastBooks ==
  ASSUME FailoverInv, UNCHANGED <<runs, relayed, rejected, life>>,
         UNCHANGED <<mempool, sent>> \/ (call.state = "sending" /\ Broadcast)
  PROVE  Books' /\ EachBridgeOnce'
<1>1. CASE UNCHANGED <<mempool, sent>>
  BY <1>1 DEF FailoverInv, Books, EachBridgeOnce
<1>2. CASE call.state = "sending" /\ Broadcast
  <2>1. mempool' = mempool \cup {Tx} /\ sent' = sent \cup {Tx}
    BY <1>2 DEF Broadcast
  <2>2. \A tx \in sent : tx.run = Tx.run => tx.bridge # Tx.bridge
    BY <1>2, TxIsNew, TxFields DEF FailoverInv
  <2>3. Tx \notin sent /\ Tx \notin relayed \cup rejected
    BY <2>2 DEF FailoverInv, TypeOK
  <2>4. IsFiniteSet(sent')
    BY <2>1, FS_AddElement DEF FailoverInv, Books
  <2>5. Tx.run <= runs /\ Tx.life <= life
    BY <1>2, TxFields DEF FailoverInv, TypeOK
  <2>6. Books'
    BY <2>1, <2>3, <2>4, <2>5 DEF FailoverInv, Books
  <2>7. EachBridgeOnce'
    BY <2>1, <2>2 DEF FailoverInv, EachBridgeOnce
  <2> QED BY <2>6, <2>7
<1> QED BY <1>1, <1>2

(* An attempt ends without success: nothing of its run is open or the run  *)
(* counts as abandoned.                                                    *)
LEMMA AttemptEnds ==
  ASSUME FailoverInv, call.state \in {"estimating", "sending", "awaiting"}, TryNext,
         UNCHANGED <<relayers, runs, relayed, rejected, life>>,
         UNCHANGED <<mempool, sent>> \/ (call.state = "sending" /\ Broadcast),
         abandoned \subseteq abandoned',
         call.run \notin abandoned' => \A tx \in Open' : tx.run # call.run
  PROVE  Sequenced'
<1>1. /\ call'.request = call.request /\ call'.run = call.run
      /\ call.index \in Nat
      /\ call'.state \in {"estimating", "failed"}
      /\ \/ call'.state = "estimating" /\ call'.index = call.index + 1
         \/ call'.state = "failed" /\ call'.index = call.index
  BY TryNextFacts DEF FailoverInv, TypeOK
<1>2. Books' /\ EachBridgeOnce'
  BY BroadcastBooks
<1>3. sent' \subseteq sent \cup {Tx}
  BY DEF Broadcast
<1>4. CallBehind'
  <2> SUFFICES ASSUME NEW tx \in sent', tx.run = call.run
               PROVE  /\ tx.request = call.request /\ tx.life = life
                      /\ \E i \in 1..call.index : tx.bridge = relayers[i]
    <3>1. call.run = runs
      BY DEF FailoverInv, CallBehind
    <3>2. ASSUME NEW i \in 1..call.index
          PROVE  /\ i \in 1..call'.index
                 /\ i = call'.index => call'.state \notin {"estimating", "sending"}
      BY <1>1
    <3> QED BY <1>1, <3>1, <3>2 DEF CallBehind
  <2>1. CASE tx \in sent
    BY <2>1 DEF FailoverInv, CallBehind
  <2>2. CASE tx = Tx
    <3>1. call.index \in 1..call.index
      BY RelayersOK DEF FailoverInv, TypeOK
    <3> QED BY <2>2, <3>1, TxFields
  <2> QED BY <1>3, <2>1, <2>2
<1>5. OneOpen'
  <2> SUFFICES ASSUME NEW t \in Open', NEW u \in Open', t.run = u.run,
                      t.run \notin abandoned'
               PROVE  t = u
    BY DEF OneOpen
  <2>1. t.run # call.run
    OBVIOUS
  <2>2. t \in Open /\ u \in Open
    BY <1>3, <2>1, TxFields DEF Open
  <2> QED BY <2>2 DEF FailoverInv, OneOpen
<1>6. CallOpen'
  BY <1>1 DEF CallOpen
<1> QED BY <1>2, <1>4, <1>5, <1>6 DEF Sequenced

LEMMA GiveUpSequenced ==
  ASSUME FailoverInv, call.state \in {"estimating", "sending", "awaiting"}, GiveUp,
         UNCHANGED <<mempool, sent>> \/ (call.state = "sending" /\ Broadcast)
  PROVE  Sequenced'
<1>1. /\ TryNext /\ UNCHANGED <<relayers, runs, relayed, rejected, life>>
      /\ abandoned' = IF Tx \in sent' THEN abandoned \cup {call.run} ELSE abandoned
  BY DEF GiveUp
<1>2. ASSUME call.run \notin abandoned', NEW tx \in Open'
      PROVE  tx.run # call.run
  <2>1. Tx \notin sent' /\ abandoned' = abandoned
    BY <1>1, <1>2
  <2>2. sent' = sent /\ call.state \in {"estimating", "sending"}
    BY <2>1 DEF Broadcast, FailoverInv, CallOpen
  <2> QED BY <1>1, <1>2, <2>1, <2>2 DEF Open, FailoverInv, CallOpen
<1> QED BY <1>1, <1>2, AttemptEnds

LEMMA QuoteSequenced ==
  ASSUME FailoverInv, NEW e \in Estimates \cup {NoEstimate}, Quote(e)
  PROVE  Sequenced'
<1>1. /\ UNCHANGED <<relayers, runs, mempool, relayed, rejected, sent, life, abandoned>>
      /\ call.state = "estimating" /\ relayers[call.index] # Dummy
      /\ TryNext \/ ToSend(FeeToPay(e))
  BY Zenon DEF Quote, txVars
<1>2. CASE TryNext
  <2>1. call.run \notin abandoned' => \A tx \in Open' : tx.run # call.run
    BY <1>1 DEF FailoverInv, CallOpen, Open
  <2> QED BY <1>1, <1>2, <2>1, AttemptEnds
<1>3. CASE ToSend(FeeToPay(e))
  <2>1. /\ call'.state = "sending" /\ call'.request = call.request
        /\ call'.run = call.run /\ call'.index = call.index
    BY <1>3 DEF ToSend, FailoverInv, TypeOK
  <2>2. Books' /\ EachBridgeOnce' /\ OneOpen'
    BY <1>1 DEF FailoverInv, Books, EachBridgeOnce, OneOpen, Open
  <2>3. CallBehind'
    BY <1>1, <2>1 DEF FailoverInv, CallBehind
  <2>4. CallOpen'
    BY <1>1, <2>1 DEF FailoverInv, CallOpen, Open
  <2> QED BY <2>2, <2>3, <2>4 DEF Sequenced
<1> QED BY <1>1, <1>2, <1>3

LEMMA SendSequenced == FailoverInv /\ Send => Sequenced'
<1> SUFFICES ASSUME FailoverInv, Send PROVE Sequenced'
  OBVIOUS
<1>1. /\ UNCHANGED <<relayers, runs, relayed, rejected, life, abandoned>>
      /\ call.state = "sending" /\ Broadcast /\ sent' = sent \cup {Tx}
      /\ call'.state = "awaiting" /\ call'.request = call.request
      /\ call'.run = call.run /\ call'.index = call.index /\ Tx' = Tx
  BY DEF Send, Broadcast, Tx, FailoverInv, TypeOK
<1>2. Books' /\ EachBridgeOnce'
  BY <1>1, BroadcastBooks
<1>3. CallBehind'
  <2> SUFFICES ASSUME NEW tx \in sent', tx.run = call.run
               PROVE  /\ tx.request = call.request /\ tx.life = life
                      /\ \E i \in 1..call.index : tx.bridge = relayers[i]
    BY <1>1 DEF CallBehind, FailoverInv
  <2>1. CASE tx \in sent
    BY <1>1, <2>1 DEF FailoverInv, CallBehind
  <2>2. CASE tx = Tx
    <3>1. call.index \in 1..call.index
      BY <1>1, RelayersOK DEF FailoverInv, TypeOK
    <3> QED BY <2>2, <3>1, TxFields
  <2> QED BY <1>1, <2>1, <2>2
<1>4. \A tx \in Open : tx.run = call.run => call.run \in abandoned
  BY <1>1 DEF FailoverInv, CallOpen
<1>5. Open' \subseteq Open \cup {Tx}
  BY <1>1 DEF Open
<1>6. OneOpen'
  BY <1>1, <1>4, <1>5, TxFields DEF FailoverInv, OneOpen
<1>7. CallOpen'
  <2>1. relayers'[call'.index] # Dummy
    BY <1>1 DEF FailoverInv, CallOpen
  <2>2. Tx' \in sent'
    BY <1>1
  <2>3. call'.run \notin abandoned' => \A tx \in Open' : tx.run = call'.run => tx = Tx'
    BY <1>1, <1>4, <1>5
  <2> QED BY <1>1, <2>1, <2>2, <2>3 DEF CallOpen
<1> QED BY <1>2, <1>3, <1>6, <1>7 DEF Sequenced

LEMMA NetworkSequenced == FailoverInv /\ Network => Sequenced'
<1> SUFFICES ASSUME FailoverInv, Network PROVE Sequenced'
  OBVIOUS
<1>1. CASE NextDay
  BY <1>1 DEF NextDay, txVars, FailoverInv, Sequenced, Books, EachBridgeOnce,
              CallBehind, OneOpen, CallOpen, Open, Tx
<1>2. ASSUME NEW tx \in mempool, Mine(tx) \/ Lose(tx) PROVE Sequenced'
  <2>1. /\ UNCHANGED <<relayers, call, runs, sent, life, abandoned>>
        /\ mempool' = mempool \ {tx}
        /\ \/ relayed' = relayed \cup {tx} /\ rejected' = rejected
           \/ relayed' = relayed /\ rejected' = rejected \cup {tx}
    BY <1>2 DEF Mine, Lose
  <2>2. Open' \subseteq Open /\ Tx' = Tx /\ relayed \subseteq relayed'
    BY <2>1 DEF Open, Tx
  <2>3. Books' /\ EachBridgeOnce'
    BY <2>1 DEF FailoverInv, Books, EachBridgeOnce
  <2>4. CallBehind' /\ OneOpen'
    BY <2>1, <2>2 DEF FailoverInv, CallBehind, OneOpen
  <2>5. CallOpen'
    BY <2>1, <2>2 DEF FailoverInv, CallOpen
  <2> QED BY <2>3, <2>4, <2>5 DEF Sequenced
<1> QED BY <1>1, <1>2 DEF Network

LEMMA ReceiptSequenced == FailoverInv /\ Receipt => Sequenced'
<1> SUFFICES ASSUME FailoverInv, Receipt PROVE Sequenced'
  OBVIOUS
<1>1. /\ UNCHANGED <<relayers, runs, mempool, relayed, rejected, sent, life, abandoned>>
      /\ call.state = "awaiting"
  BY DEF Receipt, txVars
<1>2. CASE Tx \in relayed /\ call' = [call EXCEPT !.state = "ok"]
  <2>1. /\ call'.state = "ok" /\ call'.request = call.request
        /\ call'.run = call.run /\ call'.index = call.index
    BY <1>2 DEF FailoverInv, TypeOK
  <2>2. Books' /\ EachBridgeOnce' /\ OneOpen'
    BY <1>1 DEF FailoverInv, Books, EachBridgeOnce, OneOpen, Open
  <2>3. CallBehind'
    BY <1>1, <2>1 DEF FailoverInv, CallBehind
  <2>4. CallOpen'
    BY <1>1, <1>2, <2>1, TxFields DEF CallOpen
  <2> QED BY <2>2, <2>3, <2>4 DEF Sequenced
<1>3. CASE Tx \in rejected /\ TryNext
  <2>1. ASSUME call.run \notin abandoned', NEW tx \in Open'
        PROVE  tx.run # call.run
    <3>1. tx \in Open /\ Tx \notin Open
      BY <1>1, <1>3, <2>1 DEF Open
    <3> QED BY <1>1, <2>1, <3>1 DEF FailoverInv, CallOpen
  <2> QED BY <1>1, <1>3, <2>1, AttemptEnds
<1> QED BY <1>2, <1>3 DEF Receipt

LEMMA CallerSequenced ==
  FailoverInv /\ ((\E r \in Requests : Begin(r)) \/ DummyRelay \/ Return \/ Restart)
    => Sequenced'
<1> SUFFICES ASSUME FailoverInv,
                    (\E r \in Requests : Begin(r)) \/ DummyRelay \/ Return \/ Restart
             PROVE  Sequenced'
  OBVIOUS
<1>0. /\ UNCHANGED <<mempool, relayed, rejected, sent, abandoned>>
      /\ runs' >= runs /\ life' >= life /\ runs \in Nat /\ life \in Nat
      /\ runs' \in Nat /\ life' \in Nat
  <2>1. runs \in Nat /\ life \in Nat
    BY FeeAssumption DEF FailoverInv, TypeOK
  <2>2. /\ UNCHANGED <<mempool, relayed, rejected, sent, abandoned>>
        /\ runs' \in {runs, runs + 1} /\ life' \in {life, life + 1}
    BY Zenon DEF Begin, DummyRelay, Return, Restart, txVars
  <2> QED BY <2>1, <2>2
<1>1. Books' /\ EachBridgeOnce' /\ OneOpen'
  <2>1. \A tx \in sent : tx.run \in Nat /\ tx.life \in Nat
    BY DEF FailoverInv, TypeOK, Txs
  <2> QED BY <1>0, <2>1 DEF FailoverInv, Books, EachBridgeOnce, OneOpen, Open
<1>2. ASSUME NEW r \in Requests, Begin(r) PROVE CallBehind' /\ CallOpen'
  <2>1. /\ call'.state = "estimating" /\ call'.run = runs + 1 /\ runs' = runs + 1
        /\ call'.index = 1
    BY <1>2 DEF Begin, Idle
  <2>2. \A tx \in sent' : tx.run # runs + 1
    BY <1>0 DEF FailoverInv, Books, TypeOK, Txs
  <2> QED BY <2>1, <2>2 DEF CallBehind, CallOpen, Open
<1>3. ASSUME DummyRelay PROVE CallBehind' /\ CallOpen'
  <2>1. /\ call'.state = "ok" /\ call'.request = call.request /\ call'.run = call.run
        /\ call'.index = call.index /\ UNCHANGED <<relayers, runs, life>>
        /\ relayers[call.index] = Dummy /\ call.state = "estimating"
    BY <1>3 DEF DummyRelay, FailoverInv, TypeOK
  <2>2. CallBehind'
    BY <1>0, <2>1 DEF FailoverInv, CallBehind
  <2>3. CallOpen'
    BY <2>1 DEF CallOpen
  <2> QED BY <2>2, <2>3
<1>4. ASSUME Return \/ Restart PROVE CallBehind' /\ CallOpen'
  <2>1. call'.state = "idle"
    BY <1>4 DEF Return, Restart, Idle
  <2> QED BY <2>1 DEF CallBehind, CallOpen
<1> QED BY <1>1, <1>2, <1>3, <1>4 DEF Sequenced

LEMMA FailoverStep == FailoverInv /\ [Next]_vars => FailoverInv'
<1> SUFFICES ASSUME FailoverInv, [Next]_vars PROVE FailoverInv'
  OBVIOUS
<1>1. TypeOK'
  BY TypeStep DEF FailoverInv
<1>2. CASE SendFails \/ WaitFails \/ Timeout
  <2>1. /\ call.state \in {"estimating", "sending", "awaiting"} /\ GiveUp
        /\ UNCHANGED <<mempool, sent>> \/ (call.state = "sending" /\ Broadcast)
    BY <1>2 DEF SendFails, WaitFails, Timeout
  <2> QED BY <1>1, <2>1, GiveUpSequenced DEF FailoverInv, Sequenced
<1>3. CASE UNCHANGED vars
  BY <1>1, <1>3 DEF vars, txVars, FailoverInv, Books, EachBridgeOnce, CallBehind,
                    OneOpen, CallOpen, Open, Tx
<1>4. CASE \E e \in Estimates \cup {NoEstimate} : Quote(e)
  BY <1>1, <1>4, QuoteSequenced DEF FailoverInv, Sequenced
<1>5. CASE Send
  BY <1>1, <1>5, SendSequenced DEF FailoverInv, Sequenced
<1>6. CASE Receipt
  BY <1>1, <1>6, ReceiptSequenced DEF FailoverInv, Sequenced
<1>7. CASE Network
  BY <1>1, <1>7, NetworkSequenced DEF FailoverInv, Sequenced
<1>8. CASE (\E r \in Requests : Begin(r)) \/ DummyRelay \/ Return \/ Restart
  BY <1>1, <1>8, CallerSequenced DEF FailoverInv, Sequenced
<1> QED BY <1>2, <1>3, <1>4, <1>5, <1>6, <1>7, <1>8 DEF Next, Attempt

LEMMA FailoverInit == Init => FailoverInv
<1> SUFFICES ASSUME Init PROVE FailoverInv
  OBVIOUS
<1>1. call = Idle /\ sent = {} /\ mempool = {} /\ relayed = {} /\ rejected = {}
      /\ abandoned = {}
  BY DEF Init
<1>2. TypeOK
  <2>1. /\ runs = 0 /\ faults = 0 /\ spentToday = 0 /\ today = 0 /\ budgetDay = 0
        /\ life = 1 /\ relayers \in Selections
    BY DEF Init
  <2>2. /\ 0 \in 0..MaxRuns /\ 0 \in 0..MaxFaults /\ 0 \in 0..MaxDay /\ 1 \in 1..MaxLives
    BY FeeAssumption
  <2>3. /\ call.state = "idle"
        /\ call \in [state : CallStates, request : Requests \cup {0}, run : 0..runs,
                     index : Nat, fee : Nat, day : 0..today]
    BY <1>1, <2>1 DEF Idle, CallStates
  <2> QED BY <1>1, <2>1, <2>2, <2>3 DEF TypeOK
<1>3. Books
  BY <1>1, FS_EmptySet DEF Books
<1> QED BY <1>1, <1>2, <1>3 DEF FailoverInv, Idle, EachBridgeOnce, CallBehind, OneOpen,
                              CallOpen, Open

LEMMA FailoverInvariant == Spec => []FailoverInv
BY FailoverInit, FailoverStep, PTL DEF Spec

(* Every variable of the failover keeps its type, for every configuration  *)
(* a process can start with; no attempt goes past the last bridge.         *)
THEOREM FailoverTypeCorrect == Spec => []TypeOK
<1>1. FailoverInv => TypeOK
  BY DEF FailoverInv
<1> QED BY <1>1, FailoverInvariant, PTL

(* The bridges a process starts with are the known ones its operator       *)
(* listed and did not disable, in the order of their first mention, and    *)
(* the defaults only if no name is listed, whatever is written             *)
(* (bridge_registry.rs:45-109, main.rs:229-246).                           *)
THEOREM PriorityIsAsListed == Spec => []ResolutionAsListed
  BY SelectionAsListed, PTL

(* For every configuration, with names repeated, unknown or disabled: one  *)
(* run sends at most one transaction over each bridge.                     *)
THEOREM BridgesAreTriedOnce == Spec => []EachBridgeOnce
<1>1. FailoverInv => EachBridgeOnce
  BY DEF FailoverInv
<1> QED BY <1>1, FailoverInvariant, PTL

(* Whatever is lost, reverted, late or timed out, and however often the    *)
(* process restarts: two relays of one run mean an abandoned attempt.      *)
THEOREM SecondRelayHasCause == Spec => []SecondRelayMeansAbandoned
<1>1. FailoverInv => SecondRelayMeansAbandoned
  BY DEF FailoverInv, TypeOK, Books, OneOpen, Open, SecondRelayMeansAbandoned
<1> QED BY <1>1, FailoverInvariant, PTL

(* The result of execute_with_failover is right about the chain, except    *)
(* for what the dummy bridge answers and abandoned attempts hide.          *)
THEOREM ResultIsTrue == Spec => []ResultTellsTheTruth
<1>1. FailoverInv => ResultTellsTheTruth
  BY DEF FailoverInv, TypeOK, Books, CallOpen, Open, ResultTellsTheTruth
<1> QED BY <1>1, FailoverInvariant, PTL

-----------------------------------------------------------------------------
(* The budget.  spent_today_wei covers what this process has sent and      *)
(* reserved on the day it counts for.                                      *)

SpentOf(S, d, l) ==
  SumFunctionOnSet([tx \in S |-> tx.fee],
                   {tx \in S : tx.bridge = Watched /\ tx.day = d /\ tx.life = l})

\* The attempt has a fee and has not sent the transaction.
Reserving == call.state = "sending" /\ relayers[call.index] = Watched

Reserved == IF Reserving THEN call.fee ELSE 0

BudgetCovers ==
  /\ spentToday <= DailyBudget
  /\ SpentOf(sent, budgetDay, life) + Reserved <= spentToday
  /\ Reserving => call.day = budgetDay
  /\ \A tx \in sent : tx.life = life /\ tx.bridge = Watched => tx.day <= budgetDay
  /\ \A d \in 0..MaxDay, l \in 1..MaxLives : SpentOf(sent, d, l) <= DailyBudget

LEMMA SpentNat ==
  ASSUME NEW S \in SUBSET Txs, IsFiniteSet(S), NEW d, NEW l
  PROVE  /\ SpentOf(S, d, l) \in Nat
         /\ (\A tx \in S : tx.bridge = Watched /\ tx.life = l => tx.day # d)
              => SpentOf(S, d, l) = 0
<1> DEFINE f == [tx \in S |-> tx.fee]
           T == {tx \in S : tx.bridge = Watched /\ tx.day = d /\ tx.life = l}
<1>1. \A x \in T : f[x] \in Nat /\ f[x] \in Int
  BY DEF Txs
<1>2. IsFiniteSet(T)
  BY FS_Subset
<1>3. (\A tx \in S : tx.bridge = Watched /\ tx.life = l => tx.day # d) => T = {}
  OBVIOUS
<1> HIDE DEF f, T
<1>4. SumFunctionOnSet(f, T) \in Nat /\ (T = {} => SumFunctionOnSet(f, T) = 0)
  BY <1>1, <1>2, SumNat, SumStep
<1> QED BY <1>3, <1>4 DEF SpentOf, f, T

LEMMA SpentMore ==
  ASSUME NEW S \in SUBSET Txs, IsFiniteSet(S), NEW new \in Txs, new \notin S,
         NEW d, NEW l
  PROVE  SpentOf(S \cup {new}, d, l)
           = SpentOf(S, d, l)
             + IF new.bridge = Watched /\ new.day = d /\ new.life = l THEN new.fee ELSE 0
<1> DEFINE f == [tx \in S |-> tx.fee]
           g == [tx \in S \cup {new} |-> tx.fee]
           T == {tx \in S : tx.bridge = Watched /\ tx.day = d /\ tx.life = l}
           U == {tx \in S \cup {new} :
                   tx.bridge = Watched /\ tx.day = d /\ tx.life = l}
<1>1. /\ \A x \in U : g[x] \in Int
      /\ \A x \in T : f[x] \in Int /\ g[x] = f[x]
      /\ g[new] = new.fee /\ new.fee \in Nat
  BY DEF Txs
<1>2. IsFiniteSet(T)
  BY FS_Subset
<1>3. IsFiniteSet(U)
  <2>1. IsFiniteSet(S \cup {new})
    BY FS_AddElement
  <2> QED BY <2>1, FS_Subset
<1>4. /\ SpentOf(S, d, l) = SumFunctionOnSet(f, T)
      /\ SpentOf(S \cup {new}, d, l) = SumFunctionOnSet(g, U)
  BY DEF SpentOf
<1>5. CASE new.bridge = Watched /\ new.day = d /\ new.life = l
  <2>1. new \in U /\ U \ {new} = T
    BY <1>5
  <2> HIDE DEF f, g, T, U
  <2>2. SumFunctionOnSet(g, U) = g[new] + SumFunctionOnSet(g, T)
    BY <1>1, <1>3, <2>1, SumSplit
  <2>3. SumFunctionOnSet(g, T) = SumFunctionOnSet(f, T)
    BY <1>1, <1>2, SumSame
  <2>4. SumFunctionOnSet(f, T) \in Int
    BY <1>1, <1>2, SumStep
  <2> QED BY <1>1, <1>4, <1>5, <2>2, <2>3, <2>4
<1>6. CASE ~(new.bridge = Watched /\ new.day = d /\ new.life = l)
  <2>1. U = T
    BY <1>6
  <2> HIDE DEF f, g, T, U
  <2>2. SumFunctionOnSet(g, T) = SumFunctionOnSet(f, T)
    BY <1>1, <1>2, SumSame
  <2>3. SumFunctionOnSet(f, T) \in Int
    BY <1>1, <1>2, SumStep
  <2> QED BY <1>4, <1>6, <2>1, <2>2, <2>3
<1> QED BY <1>5, <1>6

LEMMA SpentFacts ==
  ASSUME FailoverInv
  PROVE  /\ sent \in SUBSET Txs /\ IsFiniteSet(sent)
         /\ spentToday \in Nat /\ today \in 0..MaxDay /\ budgetDay \in 0..today
         /\ MaxDay \in Nat /\ DailyBudget \in Nat /\ life \in 1..MaxLives
         /\ Reserved \in Nat
         /\ \A d, l : SpentOf(sent, d, l) \in Nat
<1>1. sent \in SUBSET Txs /\ IsFiniteSet(sent)
  BY DEF FailoverInv, TypeOK, Books
<1>2. Reserved \in Nat
  BY DEF FailoverInv, TypeOK, Reserved
<1> QED BY <1>1, <1>2, SpentNat, FeeAssumption DEF FailoverInv, TypeOK

(* Nothing is sent and nothing more reserved.                              *)
LEMMA BudgetSame ==
  ASSUME FailoverInv, BudgetCovers,
         UNCHANGED <<sent, life, spentToday, budgetDay>>,
         call'.state # "sending" \/ UNCHANGED <<call, relayers>>
  PROVE  BudgetCovers'
<1>1. (Reserving' => Reserving /\ call' = call) /\ Reserved' <= Reserved /\ Reserved' \in Nat
  BY SpentFacts DEF Reserving, Reserved
<1>2. SpentOf(sent, budgetDay, life) \in Nat
  BY SpentFacts
<1> QED BY <1>1, <1>2, SpentFacts DEF BudgetCovers

(* The transaction is sent with the fee that was reserved for it.          *)
LEMMA BudgetBroadcast ==
  ASSUME FailoverInv, BudgetCovers, call.state = "sending", Broadcast,
         UNCHANGED <<life, spentToday, budgetDay>>, call'.state # "sending"
  PROVE  BudgetCovers'
<1>1. Tx \in Txs /\ Tx \notin sent /\ sent' = sent \cup {Tx}
  <2>1. \A tx \in sent : tx.run = Tx.run => tx.bridge # Tx.bridge
    BY TxIsNew, TxFields DEF FailoverInv
  <2> QED BY <2>1, TxType DEF FailoverInv, Broadcast
<1>2. ~Reserving' /\ Reserved' = 0
  BY DEF Reserving, Reserved
<1>3. \A d, l : SpentOf(sent', d, l)
                  = SpentOf(sent, d, l)
                    + IF Tx.bridge = Watched /\ Tx.day = d /\ Tx.life = l
                        THEN Tx.fee ELSE 0
  BY <1>1, SpentMore, SpentFacts
<1>4. CASE Tx.bridge = Watched
  <2>1. Reserving /\ Reserved = Tx.fee /\ Tx.day = budgetDay /\ Tx.life = life
    BY <1>4, TxFields DEF Reserving, Reserved, BudgetCovers
  <2>2. SpentOf(sent', budgetDay, life) <= spentToday
    BY <1>3, <1>4, <2>1, SpentFacts DEF BudgetCovers
  <2>3. ASSUME NEW d \in 0..MaxDay, NEW l \in 1..MaxLives
        PROVE  SpentOf(sent', d, l) <= DailyBudget
    <3>1. SpentOf(sent, d, l) \in Nat /\ SpentOf(sent, d, l) <= DailyBudget
      BY SpentFacts DEF BudgetCovers
    <3>2. CASE d = budgetDay /\ l = life
      <4>1. SpentOf(sent', d, l) = SpentOf(sent, budgetDay, life) + Reserved
        BY <1>3, <1>4, <2>1, <3>2
      <4> QED BY <4>1, SpentFacts DEF BudgetCovers
    <3>3. CASE ~(d = budgetDay /\ l = life)
      <4>1. SpentOf(sent', d, l) = SpentOf(sent, d, l)
        BY <1>3, <2>1, <3>1, <3>3
      <4> QED BY <3>1, <4>1
    <3> QED BY <3>2, <3>3
  <2>4. \A tx \in sent' : tx.life = life /\ tx.bridge = Watched => tx.day <= budgetDay
    BY <1>1, <2>1, SpentFacts DEF BudgetCovers
  <2>5. SpentOf(sent', budgetDay, life) + 0 <= spentToday
    BY <1>3, <1>4, <2>1, SpentFacts DEF BudgetCovers
  <2> QED BY <1>2, <2>3, <2>4, <2>5 DEF BudgetCovers
<1>5. CASE Tx.bridge # Watched
  <2>1. \A d, l : SpentOf(sent', d, l) = SpentOf(sent, d, l)
    BY <1>3, <1>5, SpentFacts
  <2>2. SpentOf(sent, budgetDay, life) + 0 <= spentToday
    BY SpentFacts DEF BudgetCovers
  <2> QED BY <1>1, <1>2, <1>5, <2>1, <2>2 DEF BudgetCovers
<1> QED BY <1>4, <1>5

(* The roll-over to a new day, on which this process has sent nothing, and *)
(* the reservation of a fee that fits.                                     *)
LEMMA BudgetCharge ==
  ASSUME FailoverInv, BudgetCovers, call.state = "estimating",
         UNCHANGED <<sent, life, relayers>>, budgetDay' = today, NEW fee \in Nat,
         \/ spentToday' = SpentNow /\ call'.state # "sending"
         \/ /\ spentToday' = Projected(fee) /\ Projected(fee) <= DailyBudget
            /\ ToSend(fee)
  PROVE  BudgetCovers'
<1>1. Reserved = 0
  BY DEF Reserved, Reserving
<1>2. /\ SpentNow \in Nat /\ SpentNow <= DailyBudget
      /\ SpentOf(sent, today, life) <= SpentNow
  <2>1. CASE budgetDay = today
    BY <1>1, <2>1, SpentFacts DEF SpentNow, BudgetCovers
  <2>2. CASE budgetDay # today
    <3>1. \A tx \in sent : tx.bridge = Watched /\ tx.life = life => tx.day # today
      BY <2>2, SpentFacts DEF BudgetCovers, Txs
    <3> QED BY <2>2, <3>1, SpentNat, SpentFacts DEF SpentNow
  <2> QED BY <2>1, <2>2
<1>3. \A tx \in sent : tx.life = life /\ tx.bridge = Watched => tx.day <= today
  BY SpentFacts DEF BudgetCovers, Txs
<1>4. CASE spentToday' = SpentNow /\ call'.state # "sending"
  <2>1. ~Reserving' /\ Reserved' = 0
    BY <1>4 DEF Reserved, Reserving
  <2> QED BY <1>2, <1>3, <1>4, <2>1, SpentFacts DEF BudgetCovers
<1>5. CASE /\ spentToday' = Projected(fee) /\ Projected(fee) <= DailyBudget
           /\ ToSend(fee)
  <2>1. call'.fee = fee /\ call'.day = today
    BY <1>5 DEF ToSend, FailoverInv, TypeOK
  <2>2. Reserved' \in Nat /\ Reserved' <= fee
    BY <2>1 DEF Reserved
  <2>3. SpentOf(sent, today, life) \in Nat /\ spentToday' = SpentNow + fee
    BY <1>5, SpentFacts DEF Projected
  <2>4. SpentOf(sent, today, life) + Reserved' <= spentToday'
    BY <1>2, <2>2, <2>3
  <2> QED BY <1>3, <1>5, <2>1, <2>4 DEF BudgetCovers
<1> QED BY <1>4, <1>5

LEMMA BudgetStep ==
  FailoverInv /\ BudgetCovers /\ DailyBudget > 0 /\ [Next]_vars => BudgetCovers'
<1> SUFFICES ASSUME FailoverInv, BudgetCovers, DailyBudget > 0, [Next]_vars
             PROVE  BudgetCovers'
  OBVIOUS
<1>1. ASSUME TryNext, call.state \in {"estimating", "sending", "awaiting"}
      PROVE  call'.state # "sending"
  BY <1>1, TryNextFacts DEF FailoverInv
<1>2. ASSUME NEW e \in Estimates \cup {NoEstimate}, Quote(e)
      PROVE  BudgetCovers'
  <2> DEFINE fee == FeeToPay(e)
  <2>1. fee \in Nat
    BY FeeType
  <2>2. /\ UNCHANGED <<relayers, sent, life>> /\ call.state = "estimating"
        /\ \/ TryNext /\ UNCHANGED <<spentToday, budgetDay>>
           \/ /\ ~IsWatched /\ ToSend(fee)
              /\ UNCHANGED <<spentToday, budgetDay>>
           \/ budgetDay' = today /\ spentToday' = SpentNow /\ TryNext
           \/ /\ budgetDay' = today /\ spentToday' = Projected(fee)
              /\ Projected(fee) <= DailyBudget /\ ToSend(fee)
    BY <1>2, Zenon DEF Quote, txVars, budgetVars
  <2> HIDE DEF fee
  <2>3. CASE TryNext /\ UNCHANGED <<spentToday, budgetDay>>
    BY <1>1, <2>2, <2>3, BudgetSame
  <2>4. CASE ~IsWatched /\ ToSend(fee) /\ UNCHANGED <<spentToday, budgetDay>>
    <3>1. ~Reserving' /\ Reserved' = 0 /\ Reserved = 0
      BY <2>2, <2>4 DEF IsWatched, ToSend, Reserving, Reserved, FailoverInv, TypeOK
    <3> QED BY <2>2, <2>4, <3>1 DEF BudgetCovers
  <2>5. CASE budgetDay' = today /\ spentToday' = SpentNow /\ TryNext
    BY <1>1, <2>1, <2>2, <2>5, BudgetCharge
  <2>6. CASE /\ budgetDay' = today /\ spentToday' = Projected(fee)
             /\ Projected(fee) <= DailyBudget /\ ToSend(fee)
    BY <2>1, <2>2, <2>6, BudgetCharge
  <2> QED BY <2>2, <2>3, <2>4, <2>5, <2>6
<1>3. ASSUME Send \/ SendFails \/ WaitFails \/ Timeout
      PROVE  BudgetCovers'
  <2>1. /\ UNCHANGED <<life, spentToday, budgetDay>>
        /\ call.state \in {"estimating", "sending", "awaiting"}
        /\ \/ UNCHANGED <<mempool, sent>>
           \/ call.state = "sending" /\ Broadcast
        /\ TryNext \/ call' = [call EXCEPT !.state = "awaiting"]
    BY <1>3, Zenon DEF Send, SendFails, WaitFails, Timeout, GiveUp, budgetVars
  <2>2. call'.state # "sending"
    BY <1>1, <2>1 DEF FailoverInv, TypeOK
  <2>3. CASE sent' = sent
    BY <2>1, <2>2, <2>3, BudgetSame
  <2>4. CASE call.state = "sending" /\ Broadcast
    BY <2>1, <2>2, <2>4, BudgetBroadcast
  <2> QED BY <2>1, <2>3, <2>4
<1>4. ASSUME Receipt \/ DummyRelay \/ Return \/ (\E r \in Requests : Begin(r))
      PROVE  BudgetCovers'
  <2>1. UNCHANGED <<sent, life, spentToday, budgetDay>>
    BY <1>4, Zenon DEF Receipt, DummyRelay, Return, Begin, txVars, budgetVars
  <2>2. ASSUME Receipt \/ DummyRelay PROVE call'.state # "sending"
    BY <1>1, <2>2 DEF Receipt, DummyRelay, FailoverInv, TypeOK
  <2>3. ASSUME NEW r \in Requests, Begin(r) PROVE call'.state # "sending"
    BY <2>3 DEF Begin, Idle
  <2>4. ASSUME Return PROVE call'.state # "sending"
    BY <2>4 DEF Return, Idle
  <2> QED BY <1>4, <2>1, <2>2, <2>3, <2>4, BudgetSame
<1>5. ASSUME Network \/ UNCHANGED vars
      PROVE  BudgetCovers'
  <2>1. UNCHANGED <<sent, life, spentToday, budgetDay, call, relayers>>
    BY <1>5, Zenon DEF Network, NextDay, Mine, Lose, vars, txVars, budgetVars
  <2> QED BY <2>1, BudgetSame
<1>6. ASSUME Restart
      PROVE  BudgetCovers'
  <2>1. /\ sent' = sent /\ call'.state = "idle" /\ life' = life + 1
        /\ spentToday' = 0
    BY <1>6 DEF Restart, txVars, Idle
  <2>2. \A tx \in sent' : tx.life # life'
    BY <2>1, SpentFacts DEF FailoverInv, Books, Txs
  <2>3. SpentOf(sent', budgetDay', life') = 0
    BY <2>1, <2>2, SpentNat, SpentFacts
  <2>4. ~Reserving' /\ Reserved' = 0
    BY <2>1 DEF Reserving, Reserved
  <2> QED BY <2>1, <2>2, <2>3, <2>4, SpentFacts DEF BudgetCovers
<1> QED BY <1>2, <1>3, <1>4, <1>5, <1>6 DEF Next, Attempt

LEMMA BudgetInit == Init => BudgetCovers
<1> SUFFICES ASSUME Init PROVE BudgetCovers
  OBVIOUS
<1>1. sent = {} /\ spentToday = 0 /\ ~Reserving /\ Reserved = 0
  BY DEF Init, Idle, Reserving, Reserved
<1>2. \A d, l : SpentOf(sent, d, l) = 0
  BY <1>1, SpentNat, FS_EmptySet
<1> QED BY <1>1, <1>2, FeeAssumption DEF BudgetCovers

(* Whatever the quotes, the faults, the day changes and the restarts: one  *)
(* process never sends more on a day than the budget it was given.         *)
THEOREM BudgetIsHeld == Spec => []BudgetHeld
<1>1. FailoverInv /\ (DailyBudget > 0 => BudgetCovers) => BudgetHeld
  <2> SUFFICES ASSUME FailoverInv, BudgetCovers, NEW d \in 0..today, NEW l \in 1..life
               PROVE  SpentOf(sent, d, l) <= DailyBudget
    BY DEF BudgetHeld, SpentOf
  <2>1. d \in 0..MaxDay /\ l \in 1..MaxLives
    BY SpentFacts, FeeAssumption
  <2> QED BY <2>1 DEF BudgetCovers
<1>2. Init => (DailyBudget > 0 => BudgetCovers)
  BY BudgetInit
<1>3. /\ FailoverInv /\ (DailyBudget > 0 => BudgetCovers) /\ [Next]_vars
      => (DailyBudget > 0 => BudgetCovers)'
  BY BudgetStep
<1> QED BY <1>1, <1>2, <1>3, FailoverInvariant, PTL DEF Spec

-----------------------------------------------------------------------------
(* The loop around the failover: the queue of fetched requests. *)

LEMMA HeadAndTail ==
  ASSUME NEW S, NEW q \in Seq(S), q # << >>
  PROVE  /\ Head(q) \in S /\ Tail(q) \in Seq(S)
         /\ ToSet(q) \subseteq {Head(q)} \cup ToSet(Tail(q))
<1>1. Head(q) \in S /\ Tail(q) \in Seq(S)
  OBVIOUS
<1>2. ASSUME NEW i \in 1..Len(q), i # 1
      PROVE  i - 1 \in 1..Len(Tail(q)) /\ Tail(q)[i - 1] = q[i]
  BY <1>2
<1>3. /\ DOMAIN q = 1..Len(q) /\ DOMAIN Tail(q) = 1..Len(Tail(q))
      /\ Head(q) = q[1]
  BY <1>1
<1> QED BY <1>1, <1>2, <1>3 DEF ToSet

LEMMA SeqWider ==
  ASSUME NEW S, NEW T, S \subseteq T, NEW q \in Seq(S)
  PROVE  q \in Seq(T)
OBVIOUS

LEMMA Concatenation ==
  ASSUME NEW S, NEW p \in Seq(S), NEW k \in Nat, NEW x \in S
  PROVE  LET q == p \o [i \in 1..k |-> x]
         IN  /\ q \in Seq(S) /\ DOMAIN q = 1..(Len(p) + k)
             /\ \A i \in DOMAIN q : q[i] = IF i \in DOMAIN p THEN p[i] ELSE x
<1> DEFINE more == [i \in 1..k |-> x]
<1>1. more \in Seq(S) /\ Len(more) = k /\ \A i \in 1..k : more[i] = x
  OBVIOUS
<1> HIDE DEF more
<1>2. /\ p \o more \in Seq(S) /\ Len(p \o more) = Len(p) + k
      /\ \A i \in 1..(Len(p) + k) :
           (p \o more)[i] = IF i <= Len(p) THEN p[i] ELSE more[i - Len(p)]
  BY <1>1
<1>3. /\ DOMAIN p = 1..Len(p) /\ Len(p) \in Nat
      /\ DOMAIN (p \o more) = 1..(Len(p) + k)
  BY <1>2
<1>4. ASSUME NEW i \in 1..(Len(p) + k)
      PROVE  (p \o more)[i] = IF i \in DOMAIN p THEN p[i] ELSE x
  <2>1. CASE i <= Len(p)
    BY <1>2, <1>3, <2>1
  <2>2. CASE ~(i <= Len(p))
    <3>1. i - Len(p) \in 1..k /\ i \notin DOMAIN p
      BY <1>3, <2>2
    <3> QED BY <1>1, <1>2, <2>2, <3>1
  <2> QED BY <2>1, <2>2
<1> QED BY <1>2, <1>3, <1>4 DEF more

(* A query returns every log of its range.                                *)
LEMMA LogsInRange ==
  ASSUME NEW S, logs \in Seq(S), NEW first, NEW last
  PROVE  /\ LogsIn(first, last) \in Seq(DOMAIN logs)
         /\ \A r \in DOMAIN logs :
              logs[r] \in first..last => r \in ToSet(LogsIn(first, last))
<1> DEFINE D == DOMAIN logs
           V == Seq(D)
           self == [i \in DOMAIN logs |-> i]
           Add(found, r) == IF logs[r] \in first..last THEN Append(found, r) ELSE found
           op == [p \in D \X V |-> Add(p[2], p[1])]
           Step(h) == [s \in SUBSET DOMAIN self |->
                         IF s = {} THEN << >>
                         ELSE LET i == Max(s) IN Add(h[s \ {i}], self[i])]
           H == CHOOSE h : h = Step(h)
<1>1. IsFiniteSet(D)
  BY Positions
<1>2. D \subseteq Int
  BY Positions
<1>3. ASSUME NEW i \in D, NEW v \in V
      PROVE  Add(v, i) \in V /\ ToSet(v) \subseteq ToSet(Add(v, i))
             /\ (logs[i] \in first..last => i \in ToSet(Add(v, i)))
  <2>1. CASE logs[i] \in first..last
    <3>1. Add(v, i) = Append(v, i) /\ Append(v, i) \in Seq(D)
      BY <2>1
    <3>2. ToSet(Append(v, i)) = ToSet(v) \cup {i}
      BY AppendSet
    <3> QED BY <3>1, <3>2
  <2>2. CASE logs[i] \notin first..last
    <3>1. Add(v, i) = v
      BY <2>2
    <3> QED BY <2>2, <3>1
  <2> QED BY <2>1, <2>2
<1>4. << >> \in V
  OBVIOUS
<1>5. op \in [D \X V -> V]
  BY <1>3
<1>6. \A i \in D, v \in V : op[<<i, v>>] = Add(v, i)
  OBVIOUS
<1>7. LogsIn(first, last) = H[DOMAIN self]
  BY DEF LogsIn, FoldLeftDomain, FoldLeft, MapThenFoldSet
<1>8. DOMAIN self = D /\ \A i \in D : self[i] = i
  OBVIOUS
<1> HIDE DEF op, D, V, Add, Step, self
<1>9. PICK g \in [SUBSET D -> V] : LeftFolds(g, D, << >>, op)
  BY <1>1, <1>2, <1>4, <1>5, LeftFoldExists
<1>10. g = Step(g)
  <2>1. ASSUME NEW t \in SUBSET D
        PROVE  g[t] = IF t = {} THEN << >> ELSE Add(g[t \ {Max(t)}], self[Max(t)])
    <3>1. t # {} => Max(t) \in D /\ self[Max(t)] = Max(t) /\ g[t \ {Max(t)}] \in V
      BY <1>8, <1>9 DEF LeftFolds
    <3> QED BY <1>6, <1>9, <3>1 DEF LeftFolds
  <2> QED BY <1>8, <1>9, <2>1 DEF Step
<1>11. H = Step(H)
  BY <1>10
<1> HIDE DEF H
<1>12. ASSUME NEW s \in SUBSET D, s # {}
       PROVE  /\ Max(s) \in s /\ H[s] = Add(H[s \ {Max(s)}], Max(s))
  <2>1. H[s] = IF s = {} THEN << >> ELSE Add(H[s \ {Max(s)}], self[Max(s)])
    BY <1>8, <1>11, Zenon DEF Step
  <2>2. Max(s) \in s
    BY <1>9, <1>12 DEF LeftFolds
  <2> QED BY <1>8, <1>12, <2>1, <2>2
<1>13. LeftFollows(H, D, V, << >>, op)
  <2>1. H[{}] = << >>
    BY <1>8, <1>11, Zenon DEF Step
  <2> QED BY <1>6, <1>12, <2>1 DEF LeftFollows
<1>14. \A s \in SUBSET D : H[s] \in V
  BY <1>1, <1>2, <1>4, <1>5, <1>13, LeftFoldStays
<1> DEFINE C == {s \in SUBSET D : \A r \in s : logs[r] \in first..last => r \in ToSet(H[s])}
<1>15. ASSUME NEW s \in SUBSET D, \A t \in SUBSET s : t # s => t \in C
       PROVE  s \in C
  <2> SUFFICES ASSUME NEW r \in s, logs[r] \in first..last PROVE r \in ToSet(H[s])
    OBVIOUS
  <2> DEFINE rest == s \ {Max(s)}
  <2>1. Max(s) \in s /\ H[s] = Add(H[rest], Max(s))
    BY <1>12
  <2>2. rest \in C /\ rest \in SUBSET D
    BY <1>15, <2>1
  <2>3. H[rest] \in V
    BY <1>14, <2>2
  <2>4. CASE r = Max(s)
    BY <1>3, <2>1, <2>3, <2>4
  <2>5. CASE r # Max(s)
    BY <1>3, <2>1, <2>2, <2>3, <2>5
  <2> QED BY <2>4, <2>5
<1> HIDE DEF C
<1>16. SUBSET D \subseteq C
  <2> HIDE <1>2, <1>5, <1>6
  <2> QED BY <1>1, <1>15, SubsetInduction
<1> QED BY <1>7, <1>8, <1>14, <1>16 DEF C, D, V

-----------------------------------------------------------------------------
(* The loop.  Every step of it is a step of the failover, or leaves the    *)
(* failover alone. *)

\* The call under way is for the first of the fetched requests.
CallInLoop ==
  /\ (call.state # "idle") <=> (pc = "dispatch")
  /\ pc = "dispatch" =>
       /\ events # << >> /\ call.request = Head(events)
       /\ call.request \notin processed

LEMMA MinusType ==
  ASSUME NEW m \in Nat, NEW n \in Nat
  PROVE  Minus(m, n) \in 0..m /\ Minus(m, n) >= m - n
BY DEF Minus

LEMMA ChainType ==
  ASSUME DaemonTypeOK
  PROVE  /\ head \in Nat /\ FirstBlock \in Nat /\ Lag \in Nat /\ Lookback \in Nat
         /\ logs \in Seq(FirstBlock..head) /\ DOMAIN logs = 1..Len(logs)
         /\ events \in Seq(DOMAIN logs) /\ DOMAIN logs \subseteq Requests
         /\ HeadAnswer \subseteq 0..head
         /\ \A a \in HeadAnswer : a >= head - Lag
<1>1. /\ head \in Nat /\ FirstBlock \in Nat /\ Lag \in Nat /\ Lookback \in Nat
      /\ logs \in Seq(FirstBlock..head)
      /\ events \in Seq(DOMAIN logs) /\ DOMAIN logs \subseteq Requests
  BY BlockAssumption DEF DaemonTypeOK
<1>2. Minus(head, Lag) \in 0..head /\ Minus(head, Lag) >= head - Lag
  BY <1>1, MinusType
<1> QED BY <1>1, <1>2, Positions DEF HeadAnswer

LEMMA StepOfFailover == DaemonTypeOK /\ [DaemonNext]_daemonVars => [Next]_vars
<1> SUFFICES ASSUME DaemonTypeOK, [DaemonNext]_daemonVars PROVE [Next]_vars
  OBVIOUS
<1>1. CASE Outside
  BY <1>1, Zenon DEF Outside, NewBlock, Next
<1>2. CASE Start \/ Poll \/ Fetch \/ FetchFails \/ Skip \/ Advance
  BY <1>2, Zenon DEF Start, Poll, Fetch, FetchFails, Skip, Advance
<1>3. CASE Dispatch
  <2>1. Head(events) \in Requests
    BY <1>3, ChainType, HeadAndTail DEF Dispatch
  <2> QED BY <1>3, <2>1, Zenon DEF Dispatch, Next
<1>4. CASE Record
  BY <1>4, Zenon DEF Record, Next
<1>5. CASE AttemptStep
  BY <1>5, Zenon DEF AttemptStep, Next
<1>6. CASE Exit
  BY <1>6, Zenon DEF Exit, Next
<1>7. CASE UNCHANGED daemonVars
  BY <1>7, Zenon DEF daemonVars
<1> QED BY <1>1, <1>2, <1>3, <1>4, <1>5, <1>6, <1>7, Zenon DEF DaemonNext, Loop

LEMMA NewBlockType ==
  ASSUME DaemonTypeOK, NEW k \in 0..Cardinality(Requests), NewBlock(k)
  PROVE  /\ head' \in FirstBlock..MaxBlock /\ head' = head + 1
         /\ logs' \in Seq(FirstBlock..head') /\ DOMAIN logs' \subseteq Requests
         /\ DOMAIN logs \subseteq DOMAIN logs'
         /\ \A r \in DOMAIN logs' : IF r \in DOMAIN logs THEN logs'[r] = logs[r]
                                                         ELSE logs'[r] = head + 1
<1>1. Cardinality(Requests) \in Nat /\ Requests = 1..Cardinality(Requests)
  BY RequestAssumption, FS_CardinalityType
<1>2. k \in Nat /\ Len(logs) \in Nat
  BY <1>1, ChainType
<1>3. head' = head + 1 /\ head < MaxBlock /\ logs' = logs \o [i \in 1..k |-> head + 1]
      /\ Len(logs) + k \in Requests \cup {0}
  BY DEF NewBlock
<1>4. head' \in FirstBlock..MaxBlock
  BY <1>3, BlockAssumption DEF DaemonTypeOK
<1>5. FirstBlock..head \subseteq FirstBlock..head' /\ head + 1 \in FirstBlock..head'
  BY <1>3, <1>4, ChainType
<1>6. logs \in Seq(FirstBlock..head')
  BY <1>5, ChainType, SeqWider
<1>7. /\ logs' \in Seq(FirstBlock..head') /\ DOMAIN logs' = 1..(Len(logs) + k)
      /\ \A r \in DOMAIN logs' : logs'[r] = IF r \in DOMAIN logs THEN logs[r]
                                                                ELSE head + 1
  BY <1>2, <1>3, <1>5, <1>6, Concatenation
<1>8. DOMAIN logs = 1..Len(logs)
  BY ChainType
<1>9. 1..(Len(logs) + k) \subseteq Requests
  BY <1>1, <1>2, <1>3
<1>10. DOMAIN logs \subseteq DOMAIN logs'
  BY <1>2, <1>7, <1>8
<1> QED BY <1>3, <1>4, <1>7, <1>9, <1>10

LEMMA LoopTypeStep ==
  DaemonTypeOK /\ TypeOK' /\ CallInLoop /\ [DaemonNext]_daemonVars => DaemonTypeOK'
<1> SUFFICES ASSUME DaemonTypeOK, TypeOK', CallInLoop, [DaemonNext]_daemonVars
             PROVE  DaemonTypeOK'
  OBVIOUS
<1>1. ASSUME NEW k \in 0..Cardinality(Requests), NewBlock(k)
      PROVE  DaemonTypeOK'
  <2>1. UNCHANGED <<pc, latest, fromBlock, events, processed, failedRuns, startFrom>>
    BY <1>1 DEF NewBlock, loopVars
  <2>2. /\ head' \in FirstBlock..MaxBlock /\ head' = head + 1
        /\ logs' \in Seq(FirstBlock..head') /\ DOMAIN logs' \subseteq Requests
        /\ DOMAIN logs \subseteq DOMAIN logs'
    BY <1>1, NewBlockType
  <2>3. events' \in Seq(DOMAIN logs')
    BY <2>1, <2>2, ChainType, SeqWider
  <2>4. /\ latest' \in 0..head' /\ fromBlock' \in 0..head' /\ startFrom' \in 0..head'
    BY <2>1, <2>2, ChainType DEF DaemonTypeOK
  <2> QED BY <2>1, <2>2, <2>3, <2>4 DEF DaemonTypeOK
<1>2. ASSUME UNCHANGED <<head, logs, pc, latest, fromBlock, events, processed,
                         failedRuns, startFrom>>
      PROVE  DaemonTypeOK'
  BY <1>2 DEF DaemonTypeOK
<1>3. CASE Start
  <2>1. PICK answer \in HeadAnswer :
          fromBlock' = Minus(answer, Lookback) /\ startFrom' = fromBlock'
    BY <1>3 DEF Start
  <2>2. answer \in 0..head /\ answer \in Nat /\ Lookback \in Nat /\ head \in Nat
    BY ChainType
  <2>3. Minus(answer, Lookback) \in 0..answer
    BY <2>2, MinusType
  <2>4. Minus(answer, Lookback) \in 0..head
    BY <2>2, <2>3
  <2> QED BY <1>3, <2>1, <2>4 DEF Start, chainVars, DaemonTypeOK
<1>4. CASE Poll
  <2>1. latest' \in 0..head
    BY <1>4, ChainType DEF Poll
  <2>2. pc' \in {"fetch", "poll"}
    BY <1>4 DEF Poll
  <2> QED BY <1>4, <2>1, <2>2 DEF Poll, chainVars, DaemonTypeOK
<1>5. CASE Fetch
  <2>1. events' \in Seq(DOMAIN logs)
    BY <1>5, ChainType, LogsInRange DEF Fetch
  <2> QED BY <1>5, <2>1 DEF Fetch, chainVars, DaemonTypeOK
<1>6. CASE FetchFails
  BY <1>6 DEF FetchFails, chainVars, DaemonTypeOK
<1>7. CASE Skip
  <2>1. events' \in Seq(DOMAIN logs)
    BY <1>7, ChainType, HeadAndTail DEF Skip
  <2> QED BY <1>7, <2>1 DEF Skip, chainVars, DaemonTypeOK
<1>8. CASE Dispatch
  BY <1>8 DEF Dispatch, chainVars, DaemonTypeOK
<1>9. CASE Record
  <2>1. /\ events' \in Seq(DOMAIN logs) /\ call.request \in DOMAIN logs
    BY <1>9, ChainType, HeadAndTail DEF Record, CallInLoop
  <2>2. processed' \cup failedRuns' \subseteq DOMAIN logs
    BY <1>9, <2>1 DEF Record, DaemonTypeOK
  <2> QED BY <1>9, <2>1, <2>2 DEF Record, chainVars, DaemonTypeOK
<1>10. CASE Advance
  <2>1. latest \in Nat /\ 1 \in Nat /\ head \in Nat /\ latest <= head
    BY ChainType DEF DaemonTypeOK
  <2>2. Minus(latest, 1) \in 0..head
    BY <2>1, MinusType
  <2> QED BY <1>10, <2>2 DEF Advance, chainVars, DaemonTypeOK
<1>11. CASE Exit
  <2>1. << >> \in Seq(DOMAIN logs)
    OBVIOUS
  <2> QED BY <1>11, <2>1, ChainType DEF Exit, chainVars, DaemonTypeOK
<1>12. CASE (Network /\ UNCHANGED <<chainVars, loopVars>>) \/ AttemptStep
            \/ UNCHANGED daemonVars
  BY <1>2, <1>12, Zenon DEF AttemptStep, chainVars, loopVars, daemonVars
<1> QED BY <1>1, <1>3, <1>4, <1>5, <1>6, <1>7, <1>8, <1>9, <1>10, <1>11, <1>12
        DEF DaemonNext, Outside, Loop

(* What an attempt and the chain do to the transactions. *)
LEMMA AttemptFacts ==
  ASSUME FailoverInv, Attempt
  PROVE  /\ UNCHANGED <<relayers, runs, relayed, rejected, life>>
         /\ sent' = sent \/ (call.state = "sending" /\ sent' = sent \cup {Tx})
         /\ abandoned \subseteq abandoned'
         /\ call.state # "idle" /\ call'.state # "idle"
         /\ call'.run = call.run /\ call'.request = call.request
<1>1. ASSUME TryNext, call.state \in {"estimating", "sending", "awaiting"}
      PROVE  /\ call'.state # "idle" /\ call'.run = call.run
             /\ call'.request = call.request
  BY <1>1, TryNextFacts DEF FailoverInv
<1>2. ASSUME NEW e \in Estimates \cup {NoEstimate}, Quote(e)
      PROVE  /\ UNCHANGED <<relayers, runs, mempool, relayed, rejected, sent, life,
                            abandoned>>
             /\ call.state = "estimating" /\ (TryNext \/ ToSend(FeeToPay(e)))
  BY <1>2, Zenon DEF Quote, txVars
<1>3. CASE \E e \in Estimates \cup {NoEstimate} : Quote(e)
  BY <1>1, <1>2, <1>3 DEF ToSend, FailoverInv, TypeOK
<1>4. CASE Send \/ DummyRelay
  BY <1>4 DEF Send, Broadcast, DummyRelay, txVars, FailoverInv, TypeOK
<1>5. CASE SendFails \/ WaitFails \/ Timeout
  BY <1>1, <1>5 DEF SendFails, WaitFails, Timeout, Broadcast, GiveUp
<1>6. CASE Receipt
  BY <1>1, <1>6 DEF Receipt, txVars, FailoverInv, TypeOK
<1> QED BY <1>3, <1>4, <1>5, <1>6 DEF Attempt

LEMMA NetworkFacts ==
  ASSUME Network
  PROVE  /\ UNCHANGED <<relayers, call, runs, sent, life, abandoned>>
         /\ relayed \subseteq relayed' /\ rejected \subseteq rejected'
BY DEF Network, NextDay, Mine, Lose, txVars

LEMMA CallInLoopStep ==
  FailoverInv /\ CallInLoop /\ [DaemonNext]_daemonVars => CallInLoop'
<1> SUFFICES ASSUME FailoverInv, CallInLoop, [DaemonNext]_daemonVars
             PROVE  CallInLoop'
  OBVIOUS
<1>1. CASE AttemptStep
  <2>1. /\ UNCHANGED <<pc, events, processed>> /\ call.state # "idle"
        /\ call'.state # "idle" /\ call'.request = call.request
    BY <1>1, AttemptFacts DEF AttemptStep, loopVars
  <2> QED BY <2>1 DEF CallInLoop
<1>2. CASE Dispatch
  <2>1. /\ call'.state = "estimating" /\ call'.request = Head(events)
        /\ UNCHANGED <<events, processed>> /\ pc' = "dispatch"
        /\ events # << >> /\ Head(events) \notin processed
    BY <1>2 DEF Dispatch, Begin, Idle
  <2> QED BY <2>1 DEF CallInLoop
<1>3. CASE Record \/ Exit
  <2>1. call'.state = "idle" /\ pc' # "dispatch"
    BY <1>3 DEF Record, Return, Exit, Restart, Idle
  <2> QED BY <2>1 DEF CallInLoop
<1>4. CASE Start \/ Poll \/ Fetch \/ FetchFails \/ Skip \/ Advance
  <2>1. call' = call /\ pc # "dispatch" /\ pc' # "dispatch"
    BY <1>4 DEF Start, Poll, Fetch, FetchFails, Skip, Advance, vars
  <2> QED BY <2>1 DEF CallInLoop
<1>5. CASE Outside \/ UNCHANGED daemonVars
  <2>1. UNCHANGED <<call, pc, events, processed>>
    BY <1>5, NetworkFacts DEF Outside, NewBlock, daemonVars, loopVars, vars
  <2> QED BY <2>1 DEF CallInLoop
<1> QED BY <1>1, <1>2, <1>3, <1>4, <1>5 DEF DaemonNext, Loop

-----------------------------------------------------------------------------
(* Two transactions of one request that one process sent in runs none of   *)
(* whose attempts it abandoned are never both open, and a request with an  *)
(* open one is processed unless its dispatch is still under way.           *)
OneRelay ==
  /\ \A t, u \in Open :
       /\ t.request = u.request /\ t.life = u.life
       /\ t.run \notin abandoned /\ u.run \notin abandoned
       => t = u
  /\ \A t \in Open :
       /\ t.life = life /\ t.run \notin abandoned
       /\ ~(pc = "dispatch" /\ t.run = call.run)
       => t.request \in processed

\* No transaction is sent, no open one appears.
LEMMA OneRelaySame ==
  ASSUME OneRelay, Open' \subseteq Open, abandoned \subseteq abandoned', life' = life,
         processed \subseteq processed', UNCHANGED <<pc, call>>
  PROVE  OneRelay'
BY DEF OneRelay

LEMMA OneRelayStep ==
  FailoverInv /\ FailoverInv' /\ CallInLoop /\ OneRelay /\ [DaemonNext]_daemonVars
    => OneRelay'
<1> SUFFICES ASSUME FailoverInv, FailoverInv', CallInLoop, OneRelay,
                    [DaemonNext]_daemonVars
             PROVE  OneRelay'
  OBVIOUS
<1>1. CASE AttemptStep
  <2>1. /\ UNCHANGED <<pc, events, processed>> /\ rejected' = rejected
        /\ pc = "dispatch" /\ call.request \notin processed
        /\ life' = life /\ abandoned \subseteq abandoned' /\ call'.run = call.run
        /\ sent' = sent \/ (call.state = "sending" /\ sent' = sent \cup {Tx})
    BY <1>1, AttemptFacts DEF AttemptStep, loopVars, CallInLoop
  <2>2. CASE sent' = sent
    <3>1. Open' = Open
      BY <2>1, <2>2 DEF Open
    <3> QED BY <2>1, <3>1 DEF OneRelay
  <2>3. CASE sent' = sent \cup {Tx}
    <3>1. Open' \subseteq Open \cup {Tx}
      BY <2>1, <2>3 DEF Open
    <3>2. ASSUME NEW t \in Open, t.request = call.request, t.life = life,
                 t.run \notin abandoned
          PROVE  t.run = call.run
      BY <2>1, <3>2 DEF OneRelay
    <3>3. ASSUME NEW t \in Open', NEW u \in Open', t.run = u.run,
                 t.run \notin abandoned'
          PROVE  t = u
      BY <3>3 DEF FailoverInv, OneOpen
    <3>4. ASSUME NEW t \in Open', NEW u \in Open', t.request = u.request,
                 t.life = u.life, t.run \notin abandoned', u.run \notin abandoned'
          PROVE  t = u
      <4>1. t.run \notin abandoned /\ u.run \notin abandoned
        BY <2>1, <3>4
      <4>2. CASE t \in Open /\ u \in Open
        BY <3>4, <4>1, <4>2 DEF OneRelay
      <4>3. CASE t = Tx
        <5>1. CASE u = Tx
          BY <4>3, <5>1
        <5>2. CASE u \in Open
          <6>1. u.request = call.request /\ u.life = life /\ t.run = call.run
            BY <3>4, <4>3, TxFields
          <6>2. u.run = call.run
            BY <3>2, <4>1, <5>2, <6>1
          <6> QED BY <3>3, <3>4, <6>1, <6>2
        <5> QED BY <3>1, <5>1, <5>2
      <4>4. CASE u = Tx /\ t \in Open
        <5>1. t.request = call.request /\ t.life = life /\ u.run = call.run
          BY <3>4, <4>4, TxFields
        <5>2. t.run = call.run
          BY <3>2, <4>1, <4>4, <5>1
        <5> QED BY <3>3, <3>4, <5>1, <5>2
      <4> QED BY <3>1, <4>2, <4>3, <4>4
    <3>5. ASSUME NEW t \in Open', t.life = life, t.run \notin abandoned',
                 t.run # call.run
          PROVE  t.request \in processed
      <4>1. t \in Open /\ t.run \notin abandoned
        BY <2>1, <3>1, <3>5, TxFields
      <4> QED BY <3>5, <4>1 DEF OneRelay
    <3> QED BY <2>1, <3>4, <3>5 DEF OneRelay
  <2> QED BY <2>1, <2>2, <2>3
<1>2. CASE Dispatch
  <2>1. /\ UNCHANGED <<sent, rejected, abandoned, life, processed>> /\ pc = "events"
    BY <1>2 DEF Dispatch, Begin, txVars
  <2> QED BY <2>1 DEF OneRelay, Open
<1>3. CASE Record
  <2>1. /\ UNCHANGED <<sent, rejected, abandoned, life>>
        /\ processed \subseteq processed' /\ pc = "dispatch" /\ pc' = "events"
        /\ \/ call.state = "ok" /\ call.request \in processed'
           \/ call.state = "failed"
    BY <1>3 DEF Record, Return, txVars
  <2>2. Open' = Open
    BY <2>1 DEF Open
  <2>3. ASSUME NEW t \in Open, t.life = life, t.run \notin abandoned
        PROVE  t.request \in processed'
    <3>1. CASE t.run = call.run
      <4>1. call.state = "ok"
        BY <2>1, <2>3, <3>1 DEF FailoverInv, CallOpen
      <4>2. t.request = call.request
        BY <3>1, <4>1 DEF FailoverInv, CallBehind, Open
      <4> QED BY <2>1, <4>1, <4>2
    <3>2. CASE t.run # call.run
      BY <2>1, <2>3, <3>2 DEF OneRelay
    <3> QED BY <3>1, <3>2
  <2> QED BY <2>1, <2>2, <2>3 DEF OneRelay
<1>4. CASE Exit
  <2>1. UNCHANGED <<sent, rejected, abandoned>> /\ life' = life + 1
    BY <1>4 DEF Exit, Restart, txVars
  <2>2. \A t \in Open : t.life # life'
    BY <2>1 DEF FailoverInv, TypeOK, Books, Txs, Open
  <2> QED BY <2>1, <2>2 DEF OneRelay, Open
<1>5. CASE Start \/ Poll \/ Fetch \/ FetchFails \/ Skip \/ Advance
  <2>1. /\ UNCHANGED <<sent, rejected, abandoned, life, processed>>
        /\ pc # "dispatch" /\ pc' # "dispatch"
    BY <1>5 DEF Start, Poll, Fetch, FetchFails, Skip, Advance, vars, txVars
  <2> QED BY <2>1 DEF OneRelay, Open
<1>6. CASE Outside \/ UNCHANGED daemonVars
  <2>1. /\ UNCHANGED <<sent, abandoned, life, pc, call, processed>>
        /\ rejected \subseteq rejected'
    BY <1>6, NetworkFacts
       DEF Outside, NewBlock, daemonVars, loopVars, vars, txVars
  <2>2. Open' \subseteq Open
    BY <2>1 DEF Open
  <2> QED BY <2>1, <2>2, OneRelaySame
<1> QED BY <1>1, <1>2, <1>3, <1>4, <1>5, <1>6 DEF DaemonNext, Loop

LEMMA ProcessedStep ==
  FailoverInv /\ CallInLoop /\ ProcessedWasRelayed /\ [DaemonNext]_daemonVars
    => ProcessedWasRelayed'
<1> SUFFICES ASSUME FailoverInv, CallInLoop, ProcessedWasRelayed,
                    [DaemonNext]_daemonVars
             PROVE  ProcessedWasRelayed'
  OBVIOUS
<1>1. CASE Record
  <2>1. /\ UNCHANGED <<relayers, relayed, life>>
        /\ \/ call.state = "ok" /\ processed' = processed \cup {call.request}
           \/ processed' = processed
    BY <1>1 DEF Record, Return, txVars
  <2>2. CASE processed' = processed
    BY <2>1, <2>2 DEF ProcessedWasRelayed
  <2>3. CASE call.state = "ok" /\ processed' = processed \cup {call.request}
    <3>1. CASE relayers[call.index] = Dummy
      <4>1. call.index \in DOMAIN relayers
        BY <2>3 DEF FailoverInv, TypeOK
      <4> QED BY <2>1, <3>1, <4>1 DEF ProcessedWasRelayed, ToSet
    <3>2. CASE \E tx \in relayed : tx.run = call.run
      <4>1. PICK tx \in relayed : tx.run = call.run
        BY <3>2
      <4>2. tx.request = call.request /\ tx.life = life
        BY <2>3, <4>1 DEF FailoverInv, CallBehind, TypeOK
      <4> QED BY <2>1, <2>3, <4>1, <4>2 DEF ProcessedWasRelayed
    <3> QED BY <2>3, <3>1, <3>2 DEF FailoverInv, CallOpen
  <2> QED BY <2>1, <2>2, <2>3
<1>2. CASE Exit
  BY <1>2 DEF Exit, ProcessedWasRelayed
<1>3. CASE Start \/ Poll \/ Fetch \/ FetchFails \/ Skip \/ Advance \/ Dispatch
  <2>1. UNCHANGED <<relayers, relayed, life, processed>>
    BY <1>3 DEF Start, Poll, Fetch, FetchFails, Skip, Advance, Dispatch, Begin,
                vars, txVars
  <2> QED BY <2>1 DEF ProcessedWasRelayed
<1>4. CASE AttemptStep
  <2>1. UNCHANGED <<relayers, relayed, life, processed>>
    BY <1>4, AttemptFacts DEF AttemptStep, loopVars
  <2> QED BY <2>1 DEF ProcessedWasRelayed
<1>5. CASE Outside \/ UNCHANGED daemonVars
  <2>1. UNCHANGED <<relayers, life, processed>> /\ relayed \subseteq relayed'
    BY <1>5, NetworkFacts DEF Outside, NewBlock, daemonVars, loopVars, vars, txVars
  <2> QED BY <2>1 DEF ProcessedWasRelayed
<1> QED BY <1>1, <1>2, <1>3, <1>4, <1>5 DEF DaemonNext, Loop

-----------------------------------------------------------------------------
(* The blocks behind from_block.  Of the range under way, the requests the *)
(* next range does not scan again are still in the queue or dealt with.    *)
Scanned ==
  pc # "down" =>
    \A r \in DOMAIN logs :
      logs[r] >= startFrom =>
        /\ logs[r] < fromBlock => r \in processed \cup failedRuns
        /\ pc \in {"events", "dispatch"} /\ logs[r] < Minus(latest, 1)
             => r \in processed \cup failedRuns \cup ToSet(events)

LEMMA ScannedStep ==
  Lag <= 2 /\ DaemonTypeOK /\ CallInLoop /\ Scanned /\ [DaemonNext]_daemonVars
    => Scanned'
<1> SUFFICES ASSUME Lag <= 2, DaemonTypeOK, CallInLoop, Scanned,
                    [DaemonNext]_daemonVars
             PROVE  Scanned'
  OBVIOUS
<1>0. \A r \in DOMAIN logs : logs[r] \in Nat /\ logs[r] <= head
  BY ChainType
<1>1. ASSUME UNCHANGED <<logs, pc, latest, fromBlock, events, processed, failedRuns,
                         startFrom>>
      PROVE  Scanned'
  BY <1>1 DEF Scanned
<1>2. ASSUME NEW k \in 0..Cardinality(Requests), NewBlock(k)
      PROVE  Scanned'
  <2>1. /\ UNCHANGED <<pc, latest, fromBlock, events, processed, failedRuns, startFrom>>
    BY <1>2 DEF NewBlock, loopVars
  <2>2. \A r \in DOMAIN logs' : IF r \in DOMAIN logs THEN logs'[r] = logs[r]
                                                    ELSE logs'[r] = head + 1
    BY <1>2, NewBlockType
  <2>3. fromBlock <= head /\ Minus(latest, 1) <= head /\ head \in Nat
        /\ fromBlock \in Nat /\ Minus(latest, 1) \in Nat
    BY ChainType DEF DaemonTypeOK, Minus
  <2> HIDE DEF Minus
  <2>4. ASSUME NEW r \in DOMAIN logs', r \notin DOMAIN logs
        PROVE  ~(logs'[r] < fromBlock) /\ ~(logs'[r] < Minus(latest, 1))
    BY <2>2, <2>3, <2>4
  <2> QED BY <2>1, <2>2, <2>4 DEF Scanned
<1>3. CASE Start
  <2>1. fromBlock' = startFrom' /\ pc' = "poll" /\ logs' = logs /\ startFrom' \in Nat
    <3>1. PICK answer \in HeadAnswer : startFrom' = Minus(answer, Lookback)
      BY <1>3 DEF Start
    <3>2. answer \in Nat /\ Lookback \in Nat
      BY ChainType
    <3>3. Minus(answer, Lookback) \in 0..answer
      BY <3>2, MinusType
    <3> QED BY <1>3, <3>1, <3>2, <3>3 DEF Start, chainVars
  <2> QED BY <1>0, <2>1 DEF Scanned
<1>4. CASE Poll \/ FetchFails
  BY <1>4 DEF Poll, FetchFails, chainVars, Scanned
<1>5. CASE Fetch
  <2>1. PICK known \in HeadAnswer :
          events' = LogsIn(fromBlock, IF known < latest THEN known ELSE latest)
    BY <1>5 DEF Fetch
  <2> DEFINE last == IF known < latest THEN known ELSE latest
  <2>2. Minus(latest, 1) <= last + 1 /\ last \in Nat /\ Minus(latest, 1) \in Nat
    BY ChainType DEF DaemonTypeOK, Minus
  <2>3. last \in Nat /\ fromBlock \in Nat
    BY <2>2 DEF DaemonTypeOK
  <2> HIDE DEF last
  <2>4. ASSUME NEW r \in DOMAIN logs, logs[r] < Minus(latest, 1),
               ~(logs[r] < fromBlock)
        PROVE  r \in ToSet(events')
    <3>1. logs[r] \in fromBlock..last
      BY <1>0, <2>2, <2>3, <2>4
    <3> QED BY <2>1, <3>1, ChainType, LogsInRange DEF last
  <2>5. UNCHANGED <<logs, latest, fromBlock, processed, failedRuns, startFrom>>
        /\ pc = "fetch"
    BY <1>5 DEF Fetch, chainVars
  <2> QED BY <2>4, <2>5 DEF Scanned
<1>6. CASE Skip
  <2>1. /\ UNCHANGED <<logs, pc, latest, fromBlock, processed, failedRuns, startFrom>>
        /\ pc = "events" /\ events # << >> /\ Head(events) \in processed
        /\ events' = Tail(events)
    BY <1>6 DEF Skip, chainVars
  <2>2. ToSet(events) \subseteq {Head(events)} \cup ToSet(events')
    BY <2>1, ChainType, HeadAndTail
  <2> QED BY <2>1, <2>2 DEF Scanned
<1>7. CASE Dispatch
  <2>1. /\ UNCHANGED <<logs, latest, fromBlock, events, processed, failedRuns, startFrom>>
        /\ pc = "events"
    BY <1>7 DEF Dispatch, chainVars
  <2> QED BY <2>1 DEF Scanned
<1>8. CASE Record
  <2>1. /\ UNCHANGED <<logs, latest, fromBlock, startFrom>>
        /\ pc = "dispatch" /\ events # << >> /\ events' = Tail(events)
        /\ processed' \cup failedRuns' = processed \cup failedRuns \cup {Head(events)}
    BY <1>8 DEF Record, chainVars, CallInLoop
  <2>2. ToSet(events) \subseteq {Head(events)} \cup ToSet(events')
    BY <2>1, ChainType, HeadAndTail
  <2> QED BY <2>1, <2>2 DEF Scanned
<1>9. CASE Advance
  <2>1. /\ UNCHANGED <<logs, latest, processed, failedRuns, startFrom>>
        /\ pc = "events" /\ events = << >> /\ fromBlock' = Minus(latest, 1)
        /\ pc' = "poll"
    BY <1>9 DEF Advance, chainVars
  <2>2. ToSet(events) = {}
    BY <2>1 DEF ToSet
  <2> QED BY <2>1, <2>2 DEF Scanned
<1>10. CASE Exit
  BY <1>10 DEF Exit, Scanned
<1>11. CASE (Network /\ UNCHANGED <<chainVars, loopVars>>) \/ AttemptStep
            \/ UNCHANGED daemonVars
  BY <1>1, <1>11, Zenon DEF AttemptStep, chainVars, loopVars, daemonVars
<1> QED BY <1>2, <1>3, <1>4, <1>5, <1>6, <1>7, <1>8, <1>9, <1>10, <1>11
        DEF DaemonNext, Outside, Loop

-----------------------------------------------------------------------------
DaemonInv ==
  FailoverInv /\ DaemonTypeOK /\ CallInLoop /\ OneRelay /\ ProcessedWasRelayed

LEMMA DaemonInitial == DaemonInit => DaemonInv /\ Scanned
<1> SUFFICES ASSUME DaemonInit PROVE DaemonInv /\ Scanned
  OBVIOUS
<1>1. /\ Init /\ head = FirstBlock /\ logs = << >> /\ pc = "down"
      /\ latest = 0 /\ fromBlock = 0 /\ startFrom = 0
      /\ events = << >> /\ processed = {} /\ failedRuns = {}
  BY DEF DaemonInit
<1>2. call = Idle /\ sent = {}
  BY <1>1 DEF Init
<1>3. FailoverInv
  BY <1>1, FailoverInit
<1>4. DaemonTypeOK
  <2>1. head \in FirstBlock..MaxBlock /\ 0 \in 0..head
    BY <1>1, BlockAssumption
  <2>2. logs \in Seq(FirstBlock..head) /\ events \in Seq(DOMAIN logs) /\ DOMAIN logs = {}
    BY <1>1
  <2> QED BY <1>1, <1>3, <2>1, <2>2 DEF FailoverInv, DaemonTypeOK
<1>5. CallInLoop /\ OneRelay /\ ProcessedWasRelayed /\ Scanned
  BY <1>1, <1>2 DEF CallInLoop, Idle, OneRelay, Open, ProcessedWasRelayed, Scanned
<1> QED BY <1>3, <1>4, <1>5 DEF DaemonInv

LEMMA DaemonStep == DaemonInv /\ [DaemonNext]_daemonVars => DaemonInv'
<1> SUFFICES ASSUME DaemonInv, [DaemonNext]_daemonVars PROVE DaemonInv'
  OBVIOUS
<1>1. FailoverInv'
  BY StepOfFailover, FailoverStep DEF DaemonInv
<1>2. DaemonTypeOK' /\ CallInLoop'
  BY <1>1, LoopTypeStep, CallInLoopStep DEF DaemonInv, FailoverInv
<1>3. OneRelay' /\ ProcessedWasRelayed'
  BY <1>1, OneRelayStep, ProcessedStep DEF DaemonInv
<1> QED BY <1>1, <1>2, <1>3 DEF DaemonInv

LEMMA DaemonInvariant == DaemonSpec => []DaemonInv
<1>1. DaemonInit => DaemonInv
  BY DaemonInitial
<1> QED BY <1>1, DaemonStep, PTL DEF DaemonSpec

(* The loop only does with the failover what the failover by itself allows *)
(* its caller: what holds of BridgeFailover holds in the process.          *)
THEOREM ProcessRefinesFailover == DaemonSpec => Spec
<1>1. DaemonInit => Init
  BY DEF DaemonInit
<1>2. DaemonInv /\ [DaemonNext]_daemonVars => [Next]_vars
  BY StepOfFailover DEF DaemonInv
<1> QED BY <1>1, <1>2, DaemonInvariant, PTL DEF DaemonSpec, Spec

(* The loop's variables keep their types; in particular every request in   *)
(* the queue, processed or recorded has a log.                             *)
THEOREM LoopTypeCorrect == DaemonSpec => []DaemonTypeOK
<1>1. DaemonInv => DaemonTypeOK
  BY DEF DaemonInv
<1> QED BY <1>1, DaemonInvariant, PTL

(* If no node answers from more than two blocks ago, from_block never      *)
(* leaves a request behind, for any chain, look-back and interleaving with *)
(* failed queries, dispatches and restarts.                                *)
THEOREM NothingIsPassedOver ==
  ASSUME Lag <= 2
  PROVE  DaemonSpec => []NoRequestPassedOver
<1>1. DaemonInit => Scanned
  BY DaemonInitial
<1>2. DaemonInv /\ Scanned /\ [DaemonNext]_daemonVars => Scanned'
  BY ScannedStep DEF DaemonInv
<1>3. Scanned => NoRequestPassedOver
  BY DEF Scanned, NoRequestPassedOver
<1> QED BY <1>1, <1>2, <1>3, DaemonInvariant, PTL DEF DaemonSpec

(* Rescans, repeated fetches and failed dispatches never cause a second    *)
(* relay of a request by one process.                                      *)
THEOREM DuplicatesHaveCause == DaemonSpec => []DuplicatesExplained
<1>1. DaemonInv => DuplicatesExplained
  BY DEF DaemonInv, FailoverInv, TypeOK, Books, OneRelay, Open, DuplicatesExplained
<1> QED BY <1>1, DaemonInvariant, PTL

(* A request the process will not dispatch again has been relayed by it.   *)
THEOREM ProcessedIsRelayed == DaemonSpec => []ProcessedWasRelayed
<1>1. DaemonInv => ProcessedWasRelayed
  BY DEF DaemonInv
<1> QED BY <1>1, DaemonInvariant, PTL

=============================================================================
