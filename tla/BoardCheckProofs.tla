-------------------------- MODULE BoardCheckProofs --------------------------
(***************************************************************************)
(* Proofs about BoardCheck, for any number of edits of the board by hand   *)
(* and wherever the file is cut.                                           *)
(*                                                                         *)
(* First the ratsnest, by an invariant of its chain alone.  Then what      *)
(* load() returns: the lists that parse() builds are followed token by     *)
(* token and line by line, and the lines of a pad, a footprint and a board *)
(* are shown to parse to one list each, from which load() reads back what  *)
(* was written, and of whose prefixes it reads nothing.  With that, an     *)
(* invariant relates the board, its file and what was loaded, and the      *)
(* theorems about check_pcb.py compare what was loaded with the tables.    *)
(***************************************************************************)
EXTENDS BoardCheck, SequenceTheorems, FiniteSetTheorems, WellFoundedInduction, TLAPS

-----------------------------------------------------------------------------
(* The ratsnest. *)

\* What drawing to one more pad does to the chain.
LEMMA AppendFacts ==
  ASSUME NEW S, NEW s \in Seq(S), NEW x \in S, x \notin Range(s),
         \A i, j \in DOMAIN s : s[i] = s[j] => i = j
  PROVE  /\ Append(s, x) \in Seq(S)
         /\ Range(Append(s, x)) = Range(s) \union {x}
         /\ \A i, j \in DOMAIN Append(s, x) : Append(s, x)[i] = Append(s, x)[j] => i = j
<1> DEFINE t == Append(s, x)
<1>1. /\ t \in Seq(S) /\ Len(s) \in Nat /\ DOMAIN s = 1..Len(s)
      /\ DOMAIN t = 1..Len(s) + 1
      /\ \A i \in 1..Len(s) : t[i] = s[i]
      /\ t[Len(s) + 1] = x
  OBVIOUS
<1> HIDE DEF t
<1>2. \A i \in 1..Len(s) : s[i] \in Range(s)
  BY <1>1 DEF Range
<1>3. Range(t) = Range(s) \union {x}
  BY <1>1 DEF Range
<1>4. ASSUME NEW i \in 1..Len(s) + 1, NEW j \in 1..Len(s) + 1, t[i] = t[j]
      PROVE  i = j
  <2>1. CASE i \in 1..Len(s) /\ j \in 1..Len(s)
    BY <1>1, <1>4, <2>1
  <2>2. CASE i = Len(s) + 1 \/ j = Len(s) + 1
    BY <1>1, <1>2, <1>4, <2>2
  <2> QED BY <1>1, <2>1, <2>2
<1> QED BY <1>1, <1>3, <1>4 DEF t

\* The first pad of a net starts its chain.
LEMMA TakeNetStep ==
  ASSUME TakeNet
  PROVE  ChainInv'
<1>1. PICK first \in pads' : rem' = pads' \ {first} /\ chain' = <<first>>
  BY DEF TakeNet, StartNet
<1>2. /\ chain' \in Seq(pads') /\ DOMAIN chain' = {1} /\ chain'[1] = first
  BY <1>1
<1>3. Range(chain') = {first}
  BY <1>2 DEF Range
<1> QED BY <1>1, <1>2, <1>3 DEF ChainInv

\* A line goes to a pad that remains.
LEMMA DrawLineStep ==
  ASSUME ChainInv, DrawLine
  PROVE  ChainInv'
<1>1. PICK nxt \in rem : rem' = rem \ {nxt} /\ chain' = Append(chain, nxt)
  BY DEF DrawLine
<1>2. pads' = pads /\ pc = "chain"
  BY DEF DrawLine
<1>3. /\ chain \in Seq(pads) /\ rem \subseteq pads
      /\ Range(chain) \union rem = pads
      /\ Range(chain) \cap rem = {}
      /\ \A i, j \in DOMAIN chain : chain[i] = chain[j] => i = j
  BY <1>2 DEF ChainInv
<1>4. nxt \in pads /\ nxt \notin Range(chain)
  BY <1>3
<1>5. /\ chain' \in Seq(pads)
      /\ Range(chain') = Range(chain) \union {nxt}
      /\ \A i, j \in DOMAIN chain' : chain'[i] = chain'[j] => i = j
  BY <1>1, <1>3, <1>4, AppendFacts
<1> QED BY <1>1, <1>2, <1>3, <1>4, <1>5 DEF ChainInv

\* Every other step leaves the chain alone or is not drawing one.
LEMMA ChainStep ==
  ASSUME ChainInv, [Next]_vars
  PROVE  ChainInv'
<1>1. CASE Touch
  BY <1>1 DEF Touch, ChainInv
<1>2. CASE Save
  BY <1>2 DEF Save, ChainInv
<1>3. CASE Load
  BY <1>3 DEF Load, ChainInv
<1>4. CASE SkipNet
  BY <1>4 DEF SkipNet, ChainInv
<1>5. CASE TakeNet
  BY <1>5, TakeNetStep
<1>6. CASE DrawLine
  BY <1>6, DrawLineStep
<1>7. CASE EndNet
  BY <1>7 DEF EndNet, ChainInv
<1>8. CASE EndRender
  BY <1>8 DEF EndRender, ChainInv
<1>9. CASE UNCHANGED vars
  BY <1>9 DEF vars, renderVars, ChainInv
<1>10. DeleteFootprint \/ CopyFootprint \/ Rewire => Touch
  BY DEF DeleteFootprint, CopyFootprint, Rewire
<1> QED BY <1>1, <1>2, <1>3, <1>4, <1>5, <1>6, <1>7, <1>8, <1>9, <1>10 DEF Next, Render

\* On any board, touched or not: when the lines of a net are drawn, they run
\* through each of its pads once.
THEOREM LinesSpanTheNet == Spec => []RatsnestSpans
<1>1. Init => ChainInv
  BY DEF Init, ChainInv
<1>2. ChainInv => RatsnestSpans
  BY DEF ChainInv, RatsnestSpans
<1> QED BY <1>1, <1>2, ChainStep, PTL DEF Spec

-----------------------------------------------------------------------------
(* Induction, and what a run over a list computes. *)

\* Induction over the numbers, with a set for the property.
LEMMA Induction ==
  ASSUME NEW S, 0 \in S, \A n \in Nat : n \in S => n + 1 \in S
  PROVE  Nat \subseteq S
<1> DEFINE T == Nat \ S
<1> SUFFICES ASSUME T # {} PROVE FALSE
  OBVIOUS
<1>1. PICK x \in T : \A y \in T : ~ (<<y, x>> \in OpToRel(<,Nat))
  BY WFMin, NatLessThanWellFounded, Zenon
<1>2. x \in Nat /\ x # 0 /\ x - 1 \in Nat
  OBVIOUS
<1>3. x - 1 \in T
  BY <1>2
<1>4. <<x - 1, x>> \in OpToRel(<,Nat)
  BY <1>2 DEF OpToRel
<1> QED BY <1>1, <1>3, <1>4

\* f lists the states of a run from s: of tokens, of lines, and of a selection
\* of the items whose numbers are in good.
Tokens(f, s, line, n) ==
  f = [k \in 0 .. n |-> IF k = 0 THEN s ELSE ParseToken(f[k - 1], line[k])]
Lines(f, s, lines, n) ==
  f = [k \in 0 .. n |-> IF k = 0 THEN s ELSE ParseLine(f[k - 1], lines[k])]
Selects(f, items, good, n) ==
  f = [k \in 0 .. n |-> IF k = 0 THEN <<>>
                        ELSE IF k \in good THEN Append(f[k - 1], items[k]) ELSE f[k - 1]]

\* One more item.
LEMMA MoreTokens ==
  ASSUME NEW s, NEW line, NEW n \in Nat, NEW f, Tokens(f, s, line, n)
  PROVE  \E g : Tokens(g, s, line, n + 1)
<1> DEFINE g == [k \in 0 .. n + 1 |->
                   IF k = n + 1 THEN ParseToken(f[n], line[n + 1]) ELSE f[k]]
<1>1. DOMAIN g = 0 .. n + 1 /\ g = [k \in 0 .. n + 1 |-> g[k]]
  OBVIOUS
<1>2. ASSUME NEW k \in 0 .. n + 1
      PROVE  g[k] = IF k = 0 THEN s ELSE ParseToken(g[k - 1], line[k])
  <2>1. CASE k = n + 1
    BY <2>1
  <2>2. CASE k \in 0 .. n
    <3>1. g[k] = f[k] /\ (k # 0 => g[k - 1] = f[k - 1])
      BY <2>2
    <3>2. f[k] = IF k = 0 THEN s ELSE ParseToken(f[k - 1], line[k])
      BY <2>2 DEF Tokens
    <3> QED BY <3>1, <3>2
  <2> QED BY <2>1, <2>2
<1> HIDE DEF g
<1>3. Tokens(g, s, line, n + 1)
  BY <1>1, <1>2 DEF Tokens
<1> QED BY <1>3

\* One more line; a step cannot be a parameter of a lemma, so each run has its own.
LEMMA MoreLines ==
  ASSUME NEW s, NEW lines, NEW n \in Nat, NEW f, Lines(f, s, lines, n)
  PROVE  \E g : Lines(g, s, lines, n + 1)
<1> DEFINE g == [k \in 0 .. n + 1 |->
                   IF k = n + 1 THEN ParseLine(f[n], lines[n + 1]) ELSE f[k]]
<1>1. DOMAIN g = 0 .. n + 1 /\ g = [k \in 0 .. n + 1 |-> g[k]]
  OBVIOUS
<1>2. ASSUME NEW k \in 0 .. n + 1
      PROVE  g[k] = IF k = 0 THEN s ELSE ParseLine(g[k - 1], lines[k])
  <2>1. CASE k = n + 1
    BY <2>1
  <2>2. CASE k \in 0 .. n
    <3>1. g[k] = f[k] /\ (k # 0 => g[k - 1] = f[k - 1])
      BY <2>2
    <3>2. f[k] = IF k = 0 THEN s ELSE ParseLine(f[k - 1], lines[k])
      BY <2>2 DEF Lines
    <3> QED BY <3>1, <3>2
  <2> QED BY <2>1, <2>2
<1> HIDE DEF g
<1>3. Lines(g, s, lines, n + 1)
  BY <1>1, <1>2 DEF Lines
<1> QED BY <1>3

\* One more item to select from.
LEMMA MoreSelected ==
  ASSUME NEW items, NEW good, NEW n \in Nat, NEW f, Selects(f, items, good, n)
  PROVE  \E g : Selects(g, items, good, n + 1)
<1> DEFINE Step(x, k) == IF k \in good THEN Append(x, items[k]) ELSE x
           g == [k \in 0 .. n + 1 |-> IF k = n + 1 THEN Step(f[n], n + 1) ELSE f[k]]
<1> HIDE DEF Step
<1>1. DOMAIN g = 0 .. n + 1 /\ g = [k \in 0 .. n + 1 |-> g[k]]
  OBVIOUS
<1>2. ASSUME NEW k \in 0 .. n + 1
      PROVE  g[k] = IF k = 0 THEN <<>> ELSE Step(g[k - 1], k)
  <2>1. CASE k = n + 1
    BY <2>1
  <2>2. CASE k \in 0 .. n
    <3>1. g[k] = f[k] /\ (k # 0 => g[k - 1] = f[k - 1])
      BY <2>2
    <3>2. f[k] = IF k = 0 THEN <<>> ELSE Step(f[k - 1], k)
      BY <2>2 DEF Selects, Step
    <3> QED BY <3>1, <3>2
  <2> QED BY <2>1, <2>2
<1> HIDE DEF g
<1>3. Selects(g, items, good, n + 1)
  BY <1>1, <1>2 DEF Selects, Step
<1> QED BY <1>3

\* The three runs exist, whatever the list.
LEMMA RunsExist ==
  ASSUME NEW n \in Nat
  PROVE  /\ \A s, line : \E f : Tokens(f, s, line, n)
         /\ \A s, lines : \E f : Lines(f, s, lines, n)
         /\ \A items, good : \E f : Selects(f, items, good, n)
<1>1. ASSUME NEW s, NEW line
      PROVE  \E f : Tokens(f, s, line, n)
  <2> DEFINE S == {m \in Nat : \E f : Tokens(f, s, line, m)}
  <2>1. Tokens([k \in 0 .. 0 |-> s], s, line, 0)
    BY DEF Tokens
  <2>2. 0 \in S
    BY <2>1
  <2>3. \A m \in Nat : m \in S => m + 1 \in S
    BY MoreTokens
  <2> HIDE DEF S
  <2>4. n \in S
    BY <2>2, <2>3, Induction
  <2> QED BY <2>4 DEF S
<1>2. ASSUME NEW s, NEW lines
      PROVE  \E f : Lines(f, s, lines, n)
  <2> DEFINE S == {m \in Nat : \E f : Lines(f, s, lines, m)}
  <2>1. Lines([k \in 0 .. 0 |-> s], s, lines, 0)
    BY DEF Lines
  <2>2. 0 \in S
    BY <2>1
  <2>3. \A m \in Nat : m \in S => m + 1 \in S
    BY MoreLines
  <2> HIDE DEF S
  <2>4. n \in S
    BY <2>2, <2>3, Induction
  <2> QED BY <2>4 DEF S
<1>3. ASSUME NEW items, NEW good
      PROVE  \E f : Selects(f, items, good, n)
  <2> DEFINE S == {m \in Nat : \E f : Selects(f, items, good, m)}
  <2>1. Selects([k \in 0 .. 0 |-> <<>>], items, good, 0)
    BY DEF Selects
  <2>2. 0 \in S
    BY <2>1
  <2>3. \A m \in Nat : m \in S => m + 1 \in S
    BY MoreSelected
  <2> HIDE DEF S
  <2>4. n \in S
    BY <2>2, <2>3, Induction
  <2> QED BY <2>4 DEF S
<1> QED BY <1>1, <1>2, <1>3

\* What Parse computes, from any state.
Parsed(s, lines) == Run(ParseLine, s, lines)

\* ParseLine, Parsed, Kids and Sorted are such runs.
LEMMA ParseLineRuns ==
  ASSUME NEW s, NEW line, Len(line) \in Nat
  PROVE  \E f : Tokens(f, s, line, Len(line)) /\ ParseLine(s, line) = f[Len(line)]
<1> DEFINE Step(f, k) == CHOOSE t \in {ParseToken(prev, line[k]) : prev \in {f[k - 1]}} : TRUE
           Is(f) == f = [k \in 0 .. Len(line) |-> IF k = 0 THEN s ELSE Step(f, k)]
           after == CHOOSE f : Is(f)
<1>1. ParseLine(s, line) = after[Len(line)]
  BY DEF ParseLine, Run
<1>2. \A f, k : Step(f, k) = ParseToken(f[k - 1], line[k])
  OBVIOUS
<1> HIDE DEF Step
<1>3. \A f : Is(f) <=> Tokens(f, s, line, Len(line))
  BY <1>2 DEF Tokens
<1>4. \E f : Tokens(f, s, line, Len(line))
  BY RunsExist
<1> HIDE DEF Is
<1>5. Is(after)
  BY <1>3, <1>4
<1> QED BY <1>1, <1>3, <1>5

\* Parsed runs through the lines.
LEMMA ParsedRuns ==
  ASSUME NEW s, NEW lines, Len(lines) \in Nat
  PROVE  \E f : Lines(f, s, lines, Len(lines)) /\ Parsed(s, lines) = f[Len(lines)]
<1> DEFINE Step(f, k) == CHOOSE t \in {ParseLine(prev, lines[k]) : prev \in {f[k - 1]}} : TRUE
           Is(f) == f = [k \in 0 .. Len(lines) |-> IF k = 0 THEN s ELSE Step(f, k)]
           after == CHOOSE f : Is(f)
<1>1. Parsed(s, lines) = after[Len(lines)]
  BY DEF Parsed, Run
<1>2. \A f, k : Step(f, k) = ParseLine(f[k - 1], lines[k])
  OBVIOUS
<1> HIDE DEF Step
<1>3. \A f : Is(f) <=> Lines(f, s, lines, Len(lines))
  BY <1>2 DEF Lines
<1>4. \E f : Lines(f, s, lines, Len(lines))
  BY RunsExist
<1> HIDE DEF Is
<1>5. Is(after)
  BY <1>3, <1>4
<1> QED BY <1>1, <1>3, <1>5

\* Kids selects by the name of an item.
LEMMA KidsRun ==
  ASSUME NEW items, NEW name, Len(items) \in Nat
  PROVE  \E f : /\ Selects(f, items, {k \in 1 .. Len(items) : IsKid(items[k], name)}, Len(items))
                /\ Kids(items, name) = f[Len(items)]
<1> DEFINE good == {k \in 1 .. Len(items) : IsKid(items[k], name)}
           Keep(kept, x) == IF IsKid(x, name) THEN Append(kept, x) ELSE kept
           Step(f, k) == CHOOSE t \in {Keep(prev, items[k]) : prev \in {f[k - 1]}} : TRUE
           Is(f) == f = [k \in 0 .. Len(items) |-> IF k = 0 THEN <<>> ELSE Step(f, k)]
           after == CHOOSE f : Is(f)
<1>1. Kids(items, name) = after[Len(items)]
  BY DEF Kids, Select, Run
<1>2. \A k \in 1 .. Len(items) : \A t :
        Keep(t, items[k]) = IF k \in good THEN Append(t, items[k]) ELSE t
  OBVIOUS
<1> HIDE DEF Keep
<1>3. \A f, k : Step(f, k) = Keep(f[k - 1], items[k])
  OBVIOUS
<1> HIDE DEF Step, good
<1>4. \A f : Is(f) <=> Selects(f, items, good, Len(items))
  <2> TAKE f
  <2>1. \A k \in 0 .. Len(items) :
          (IF k = 0 THEN <<>> ELSE Step(f, k))
            = IF k = 0 THEN <<>> ELSE IF k \in good THEN Append(f[k - 1], items[k]) ELSE f[k - 1]
    <3> TAKE k \in 0 .. Len(items)
    <3>1. k = 0 \/ k \in 1 .. Len(items)
      OBVIOUS
    <3>2. CASE k \in 1 .. Len(items)
      <4>1. Step(f, k) = Keep(f[k - 1], items[k])
        BY <1>3
      <4>2. Keep(f[k - 1], items[k]) = IF k \in good THEN Append(f[k - 1], items[k]) ELSE f[k - 1]
        BY <1>2, <3>2
      <4> QED BY <4>1, <4>2
    <3> QED BY <3>1, <3>2
  <2> QED BY <2>1 DEF Selects
<1>5. \E f : Selects(f, items, good, Len(items))
  BY RunsExist
<1> HIDE DEF Is
<1>6. Is(after)
  BY <1>4, <1>5
<1> QED BY <1>1, <1>4, <1>6 DEF good

\* Sorted selects from the order.
LEMMA SortedRun ==
  ASSUME NEW S, NEW order, Len(order) \in Nat
  PROVE  \E f : /\ Selects(f, order, {k \in 1 .. Len(order) : order[k] \in S}, Len(order))
                /\ Sorted(S, order) = f[Len(order)]
<1> DEFINE good == {k \in 1 .. Len(order) : order[k] \in S}
           Keep(kept, x) == IF x \in S THEN Append(kept, x) ELSE kept
           Step(f, k) == CHOOSE t \in {Keep(prev, order[k]) : prev \in {f[k - 1]}} : TRUE
           Is(f) == f = [k \in 0 .. Len(order) |-> IF k = 0 THEN <<>> ELSE Step(f, k)]
           after == CHOOSE f : Is(f)
<1>1. Sorted(S, order) = after[Len(order)]
  BY DEF Sorted, Select, Run
<1>2. \A k \in 1 .. Len(order) : \A t :
        Keep(t, order[k]) = IF k \in good THEN Append(t, order[k]) ELSE t
  OBVIOUS
<1> HIDE DEF Keep
<1>3. \A f, k : Step(f, k) = Keep(f[k - 1], order[k])
  OBVIOUS
<1> HIDE DEF Step, good
<1>4. \A f : Is(f) <=> Selects(f, order, good, Len(order))
  <2> TAKE f
  <2>1. \A k \in 0 .. Len(order) :
          (IF k = 0 THEN <<>> ELSE Step(f, k))
            = IF k = 0 THEN <<>> ELSE IF k \in good THEN Append(f[k - 1], order[k]) ELSE f[k - 1]
    <3> TAKE k \in 0 .. Len(order)
    <3>1. k = 0 \/ k \in 1 .. Len(order)
      OBVIOUS
    <3>2. CASE k \in 1 .. Len(order)
      <4>1. Step(f, k) = Keep(f[k - 1], order[k])
        BY <1>3
      <4>2. Keep(f[k - 1], order[k]) = IF k \in good THEN Append(f[k - 1], order[k]) ELSE f[k - 1]
        BY <1>2, <3>2
      <4> QED BY <4>1, <4>2
    <3> QED BY <3>1, <3>2
  <2> QED BY <2>1 DEF Selects
<1>5. \E f : Selects(f, order, good, Len(order))
  BY RunsExist
<1> HIDE DEF Is
<1>6. Is(after)
  BY <1>4, <1>5
<1> QED BY <1>1, <1>4, <1>6 DEF good

\* The second selection of Prop: the properties that have the key.
HasKey(p, key) == Len(p.list) > 2 /\ p.list[2] = Atom(key)
Keyed(props, key) == Select(props, LAMBDA p : Len(p.list) > 2 /\ p.list[2] = Atom(key))

\* Keyed selects by the key.
LEMMA KeyedRun ==
  ASSUME NEW props, NEW key, Len(props) \in Nat
  PROVE  \E f : /\ Selects(f, props, {k \in 1 .. Len(props) : HasKey(props[k], key)}, Len(props))
                /\ Keyed(props, key) = f[Len(props)]
<1> USE DEF HasKey
<1> DEFINE good == {k \in 1 .. Len(props) : HasKey(props[k], key)}
           Keep(kept, x) ==
             IF Len(x.list) > 2 /\ x.list[2] = Atom(key) THEN Append(kept, x) ELSE kept
           Step(f, k) == CHOOSE t \in {Keep(prev, props[k]) : prev \in {f[k - 1]}} : TRUE
           Is(f) == f = [k \in 0 .. Len(props) |-> IF k = 0 THEN <<>> ELSE Step(f, k)]
           after == CHOOSE f : Is(f)
<1>1. Keyed(props, key) = after[Len(props)]
  BY DEF Keyed, Select, Run
<1>2. \A k \in 1 .. Len(props) : \A t :
        Keep(t, props[k]) = IF k \in good THEN Append(t, props[k]) ELSE t
  OBVIOUS
<1> HIDE DEF Keep
<1>3. \A f, k : Step(f, k) = Keep(f[k - 1], props[k])
  OBVIOUS
<1> HIDE DEF Step, good
<1>4. \A f : Is(f) <=> Selects(f, props, good, Len(props))
  <2> TAKE f
  <2>1. \A k \in 0 .. Len(props) :
          (IF k = 0 THEN <<>> ELSE Step(f, k))
            = IF k = 0 THEN <<>> ELSE IF k \in good THEN Append(f[k - 1], props[k]) ELSE f[k - 1]
    <3> TAKE k \in 0 .. Len(props)
    <3>1. k = 0 \/ k \in 1 .. Len(props)
      OBVIOUS
    <3>2. CASE k \in 1 .. Len(props)
      <4>1. Step(f, k) = Keep(f[k - 1], props[k])
        BY <1>3
      <4>2. Keep(f[k - 1], props[k]) = IF k \in good THEN Append(f[k - 1], props[k]) ELSE f[k - 1]
        BY <1>2, <3>2
      <4> QED BY <4>1, <4>2
    <3> QED BY <3>1, <3>2
  <2> QED BY <2>1 DEF Selects
<1>5. \E f : Selects(f, props, good, Len(props))
  BY RunsExist
<1> HIDE DEF Is
<1>6. Is(after)
  BY <1>4, <1>5
<1> QED BY <1>1, <1>4, <1>6 DEF good

\* The items whose numbers are in good.
Picked(items, good) == {items[k] : k \in good}

\* What a selection keeps: as a set, and where it is an interval, as a list.
LEMMA SelectFacts ==
  ASSUME NEW X, NEW items \in Seq(X), NEW good, good \subseteq 1 .. Len(items),
         NEW f, Selects(f, items, good, Len(items))
  PROVE  /\ f[Len(items)] \in Seq(X)
         /\ Range(f[Len(items)]) = Picked(items, good)
         /\ IsInjective(items) => IsInjective(f[Len(items)])
<1> DEFINE n == Len(items)
           Upto(m) == good \cap 1 .. m
           Q(l, m) == /\ l \in Seq(X)
                      /\ {l[i] : i \in 1 .. Len(l)} = {items[k] : k \in Upto(m)}
                      /\ (\A i, j \in DOMAIN items : items[i] = items[j] => i = j)
                           => \A i, j \in DOMAIN l : l[i] = l[j] => i = j
           P(m) == Q(f[m], m)
           S == {m \in Nat : m <= n => P(m)}
<1>1. n \in Nat /\ DOMAIN items = 1 .. n
  OBVIOUS
<1>2. \A m \in 0 .. n :
        f[m] = IF m = 0 THEN <<>>
               ELSE IF m \in good THEN Append(f[m - 1], items[m]) ELSE f[m - 1]
  BY DEF Selects
<1>3. 0 \in S
  <2>1. f[0] = <<>> /\ Upto(0) = {}
    BY <1>1, <1>2
  <2>2. P(0)
    BY <2>1
  <2> QED BY <2>2
<1>4. ASSUME NEW m \in Nat, m \in S
      PROVE  m + 1 \in S
  <2> HIDE DEF P
  <2> SUFFICES ASSUME m + 1 <= n PROVE P(m + 1)
    OBVIOUS
  <2>1. P(m) /\ m + 1 \in 1 .. n
    BY <1>1, <1>4
  <2> USE DEF P
  <2>2. CASE m + 1 \notin good
    <3>1. f[m + 1] = f[m] /\ Upto(m + 1) = Upto(m)
      BY <1>2, <2>1, <2>2
    <3> QED BY <2>1, <3>1
  <2>3. CASE m + 1 \in good
    <3> DEFINE t == f[m]
               u == Append(t, items[m + 1])
    <3>1. f[m + 1] = u /\ Upto(m + 1) = Upto(m) \union {m + 1}
      <4>1. f[m + 1] = IF m + 1 \in good THEN Append(f[(m + 1) - 1], items[m + 1])
                       ELSE f[(m + 1) - 1]
        BY <1>1, <1>2, <2>1
      <4>2. (m + 1) - 1 = m
        OBVIOUS
      <4>3. Upto(m + 1) = Upto(m) \union {m + 1}
        BY <2>3
      <4> QED BY <2>3, <4>1, <4>2, <4>3
    <3>2. items[m + 1] \in X /\ t \in Seq(X) /\ Len(t) \in Nat
      BY <1>1, <2>1
    <3>3. /\ u \in Seq(X) /\ Len(u) = Len(t) + 1 /\ DOMAIN u = 1 .. Len(t) + 1
          /\ u[Len(t) + 1] = items[m + 1] /\ \A i \in 1 .. Len(t) : u[i] = t[i]
          /\ DOMAIN t = 1 .. Len(t)
      BY <3>2
    <3>4. {t[i] : i \in 1 .. Len(t)} = {items[k] : k \in Upto(m)}
      BY <2>1
    <3> HIDE DEF u, t
    <3>5. {u[i] : i \in 1 .. Len(u)} = {t[i] : i \in 1 .. Len(t)} \union {items[m + 1]}
      BY <3>2, <3>3
    <3>6. {items[k] : k \in Upto(m) \union {m + 1}}
            = {items[k] : k \in Upto(m)} \union {items[m + 1]}
      OBVIOUS
    <3>7. ASSUME \A i, j \in DOMAIN items : items[i] = items[j] => i = j,
                 NEW i \in DOMAIN u, NEW j \in DOMAIN u, u[i] = u[j]
          PROVE  i = j
      <4>1. \A p, q \in DOMAIN t : t[p] = t[q] => p = q
        BY <2>1, <3>7 DEF t
      <4>2. \A p \in 1 .. Len(t) : t[p] # items[m + 1]
        <5> SUFFICES ASSUME NEW p \in 1 .. Len(t), t[p] = items[m + 1] PROVE FALSE
          OBVIOUS
        <5>1. PICK k \in Upto(m) : t[p] = items[k]
          BY <3>4
        <5>2. k \in DOMAIN items /\ m + 1 \in DOMAIN items /\ k # m + 1
          BY <1>1, <2>1
        <5> QED BY <3>7, <5>1, <5>2
      <4>3. i \in 1 .. Len(t) + 1 /\ j \in 1 .. Len(t) + 1 /\ Len(t) \in Nat
        BY <3>2, <3>3, <3>7
      <4>4. (i \in 1 .. Len(t) \/ i = Len(t) + 1) /\ (j \in 1 .. Len(t) \/ j = Len(t) + 1)
        BY ONLY <4>3
      <4>5. CASE i \in 1 .. Len(t) /\ j \in 1 .. Len(t)
        BY <3>3, <3>7, <4>1, <4>5
      <4>6. CASE i \in 1 .. Len(t) /\ j = Len(t) + 1
        BY <3>3, <3>7, <4>2, <4>6
      <4>7. CASE i = Len(t) + 1 /\ j \in 1 .. Len(t)
        BY <3>3, <3>7, <4>2, <4>7
      <4> QED BY <4>4, <4>5, <4>6, <4>7
    <3>8. Q(u, m + 1)
      BY <3>1, <3>3, <3>4, <3>5, <3>6, <3>7
    <3> HIDE DEF Q
    <3> QED BY ONLY <3>1, <3>8
  <2> QED BY <2>2, <2>3
<1>5. n \in S
  <2> HIDE DEF S
  <2> QED BY <1>1, <1>3, <1>4, Induction
<1>6. P(n)
  <2> HIDE DEF P
  <2> QED BY <1>1, <1>5
<1>7. Upto(n) = good
  BY <1>1
<1> DEFINE r == f[n]
<1>8. /\ r \in Seq(X) /\ {r[i] : i \in 1 .. Len(r)} = {items[k] : k \in good}
      /\ IsInjective(items) => IsInjective(r)
  BY <1>6, <1>7 DEF IsInjective
<1> HIDE DEF r
<1>9. Range(r) = Picked(items, good)
  BY <1>8 DEF Range, Picked
<1> QED BY <1>8, <1>9 DEF r

\* The items from the a-th to the b-th.
Slice(items, a, b) == [i \in 1 .. b - a + 1 |-> items[a + i - 1]]

\* A selection of neighbours lists them in their order.
LEMMA SelectInterval ==
  ASSUME NEW X, NEW items \in Seq(X), NEW a \in Nat, NEW b \in Nat,
         0 < a, a <= b + 1, b <= Len(items),
         NEW f, Selects(f, items, a .. b, Len(items))
  PROVE  f[Len(items)] = Slice(items, a, b)
<1> DEFINE n == Len(items)
           w(m) == IF m < a THEN 0 ELSE IF m <= b THEN m - a + 1 ELSE b - a + 1
           Kept(k) == [i \in 1 .. k |-> items[a + i - 1]]
           S == {m \in Nat : m <= n => f[m] = Kept(w(m))}
<1>1. n \in Nat /\ DOMAIN items = 1 .. n
  OBVIOUS
<1>2. \A m \in 0 .. n :
        f[m] = IF m = 0 THEN <<>>
               ELSE IF m \in a .. b THEN Append(f[m - 1], items[m]) ELSE f[m - 1]
  BY DEF Selects
<1>3. 0 \in S
  <2>1. w(0) = 0 /\ Kept(0) = <<>> /\ f[0] = <<>>
    BY <1>1, <1>2
  <2> QED BY <2>1
<1>4. ASSUME NEW m \in Nat, m \in S
      PROVE  m + 1 \in S
  <2> SUFFICES ASSUME m + 1 <= n PROVE f[m + 1] = Kept(w(m + 1))
    OBVIOUS
  <2>1. f[m] = Kept(w(m)) /\ m + 1 \in 1 .. n
    BY <1>1, <1>4
  <2>2. CASE m + 1 \notin a .. b
    <3>1. f[m + 1] = f[m] /\ w(m + 1) = w(m)
      BY <1>1, <1>2, <2>1, <2>2
    <3> QED BY <2>1, <3>1
  <2>3. CASE m + 1 \in a .. b
    <3>1. f[m + 1] = Append(Kept(w(m)), items[m + 1])
      <4>1. f[m + 1] = Append(f[(m + 1) - 1], items[m + 1])
        <5> DEFINE q == m + 1
        <5>1. q \in 0 .. n /\ q # 0 /\ q \in a .. b
          BY <1>1, <2>1, <2>3
        <5> HIDE DEF q
        <5>2. f[q] = Append(f[q - 1], items[q])
          BY <1>2, <5>1
        <5> QED BY <5>2 DEF q
      <4>2. (m + 1) - 1 = m
        OBVIOUS
      <4> HIDE DEF Kept, w
      <4> QED BY <2>1, <4>1, <4>2
    <3>2. w(m) \in Nat /\ w(m + 1) = w(m) + 1 /\ a + w(m + 1) - 1 = m + 1 /\ a + w(m) - 1 = m
      BY <2>3
    <3> DEFINE k == w(m)
    <3> HIDE DEF w
    <3>3. /\ k \in Nat /\ items[m + 1] = items[a + (k + 1) - 1]
          /\ \A i \in 1 .. k + 1 : items[a + i - 1] \in X
      <4>1. k \in Nat /\ a + (k + 1) - 1 = m + 1
        BY <3>2
      <4>2. ASSUME NEW i \in 1 .. k + 1 PROVE items[a + i - 1] \in X
        <5>1. a + i - 1 \in 1 .. n
          BY ONLY <2>1, <4>1, a \in Nat, 0 < a, m \in Nat, n \in Nat
        <5> QED BY <1>1, <5>1
      <4> QED BY <4>1, <4>2
    <3> DEFINE t == Kept(k)
               e == items[m + 1]
               u == Append(t, e)
    <3>4. t \in Seq(X) /\ Len(t) = k /\ \A i \in 1 .. k : t[i] = items[a + i - 1]
      <4>1. k \in Nat /\ \A i \in 1 .. k : items[a + i - 1] \in X
        BY <3>3
      <4> QED BY ONLY <4>1 DEF t, Kept
    <3>5. e \in X /\ e = items[a + (k + 1) - 1]
      <4>1. k + 1 \in 1 .. k + 1
        BY <3>3
      <4> QED BY <3>3, <4>1
    <3> HIDE DEF t, e
    <3>6. /\ u \in Seq(X) /\ Len(u) = k + 1 /\ u[k + 1] = e
          /\ \A i \in 1 .. k : u[i] = t[i]
      BY <3>3, <3>4, <3>5
    <3> HIDE DEF u
    <3>7. u = [i \in 1 .. k + 1 |-> u[i]]
      BY <3>3, <3>6
    <3>8. ASSUME NEW i \in 1 .. k + 1
          PROVE  u[i] = items[a + i - 1]
      <4>1. i \in 1 .. k \/ i = k + 1
        BY <3>3
      <4>2. CASE i \in 1 .. k
        BY <3>4, <3>6, <4>2
      <4>3. CASE i = k + 1
        BY <3>5, <3>6, <4>3
      <4> QED BY <4>1, <4>2, <4>3
    <3>9. u = Kept(k + 1)
      BY <3>7, <3>8
    <3> QED BY <3>1, <3>2, <3>9 DEF u, t, e
  <2> QED BY <2>2, <2>3
<1>5. n \in S
  <2> HIDE DEF S
  <2> QED BY <1>1, <1>3, <1>4, Induction
<1>6. f[n] = Kept(w(n))
  <2> HIDE DEF Kept, w
  <2> QED BY <1>1, <1>5
<1>7. w(n) = b - a + 1
  BY <1>1
<1> QED BY <1>6, <1>7 DEF Slice

\* Two runs over the same tokens agree.
LEMMA TokenAgree ==
  ASSUME NEW s, NEW line, NEW start, NEW n \in Nat, NEW m \in 0 .. n,
         NEW f, Tokens(f, s, line, n), NEW g, Tokens(g, s, start, m),
         \A i \in 1 .. m : start[i] = line[i]
  PROVE  g[m] = f[m]
<1> DEFINE S == {k \in Nat : k <= m => g[k] = f[k]}
<1>1. /\ \A k \in 0 .. n : f[k] = IF k = 0 THEN s ELSE ParseToken(f[k - 1], line[k])
      /\ \A k \in 0 .. m : g[k] = IF k = 0 THEN s ELSE ParseToken(g[k - 1], start[k])
  BY DEF Tokens
<1>2. 0 \in S
  BY <1>1
<1>3. ASSUME NEW k \in Nat, k \in S
      PROVE  k + 1 \in S
  <2> SUFFICES ASSUME k + 1 <= m PROVE g[k + 1] = f[k + 1]
    OBVIOUS
  <2> DEFINE q == k + 1
  <2>1. q \in 1 .. m /\ q \in 0 .. n /\ q \in 0 .. m /\ q # 0 /\ g[q - 1] = f[q - 1]
    BY <1>3
  <2> HIDE DEF q
  <2>2. /\ f[q] = ParseToken(f[q - 1], line[q])
        /\ g[q] = ParseToken(g[q - 1], start[q])
        /\ start[q] = line[q]
    BY <1>1, <2>1
  <2>3. g[q] = f[q]
    BY <2>1, <2>2
  <2> QED BY <2>3 DEF q
<1>4. m \in S
  <2> HIDE DEF S
  <2> QED BY <1>2, <1>3, Induction
<1> QED BY <1>4

\* Two runs over the same lines agree.
LEMMA LineAgree ==
  ASSUME NEW s, NEW lines, NEW start, NEW n \in Nat, NEW m \in 0 .. n,
         NEW f, Lines(f, s, lines, n), NEW g, Lines(g, s, start, m),
         \A i \in 1 .. m : start[i] = lines[i]
  PROVE  g[m] = f[m]
<1> DEFINE S == {k \in Nat : k <= m => g[k] = f[k]}
<1>1. /\ \A k \in 0 .. n : f[k] = IF k = 0 THEN s ELSE ParseLine(f[k - 1], lines[k])
      /\ \A k \in 0 .. m : g[k] = IF k = 0 THEN s ELSE ParseLine(g[k - 1], start[k])
  BY DEF Lines
<1>2. 0 \in S
  BY <1>1
<1>3. ASSUME NEW k \in Nat, k \in S
      PROVE  k + 1 \in S
  <2> SUFFICES ASSUME k + 1 <= m PROVE g[k + 1] = f[k + 1]
    OBVIOUS
  <2> DEFINE q == k + 1
  <2>1. q \in 1 .. m /\ q \in 0 .. n /\ q \in 0 .. m /\ q # 0 /\ g[q - 1] = f[q - 1]
    BY <1>3
  <2> HIDE DEF q
  <2>2. /\ f[q] = ParseLine(f[q - 1], lines[q])
        /\ g[q] = ParseLine(g[q - 1], start[q])
        /\ start[q] = lines[q]
    BY <1>1, <2>1
  <2>3. g[q] = f[q]
    BY <2>1, <2>2
  <2> QED BY <2>3 DEF q
<1>4. m \in S
  <2> HIDE DEF S
  <2> QED BY <1>2, <1>3, Induction
<1> QED BY <1>4

\* A line is parsed token by token.
LEMMA TokenSteps ==
  ASSUME NEW X, NEW line \in Seq(X), NEW s
  PROVE  /\ ParseLine(s, SubSeq(line, 1, 0)) = s
         /\ \A j \in 0 .. Len(line) - 1 :
              ParseLine(s, SubSeq(line, 1, j + 1))
                = ParseToken(ParseLine(s, SubSeq(line, 1, j)), line[j + 1])
         /\ ParseLine(s, SubSeq(line, 1, Len(line))) = ParseLine(s, line)
<1> DEFINE n == Len(line)
<1>1. n \in Nat
  OBVIOUS
<1>2. PICK f : Tokens(f, s, line, n) /\ ParseLine(s, line) = f[n]
  BY <1>1, ParseLineRuns
<1>3. ASSUME NEW m \in 0 .. n
      PROVE  ParseLine(s, SubSeq(line, 1, m)) = f[m]
  <2> DEFINE start == SubSeq(line, 1, m)
  <2>1. Len(start) = m /\ m \in Nat /\ \A i \in 1 .. m : start[i] = line[i]
    BY <1>1
  <2> HIDE DEF start
  <2>2. PICK g : Tokens(g, s, start, m) /\ ParseLine(s, start) = g[m]
    BY <2>1, ParseLineRuns
  <2>3. g[m] = f[m]
    BY <1>1, <1>2, <2>1, <2>2, TokenAgree
  <2> QED BY <2>2, <2>3 DEF start
<1>4. \A k \in 0 .. n : f[k] = IF k = 0 THEN s ELSE ParseToken(f[k - 1], line[k])
  BY <1>2 DEF Tokens
<1>5. ASSUME NEW j \in 0 .. n - 1
      PROVE  ParseLine(s, SubSeq(line, 1, j + 1))
               = ParseToken(ParseLine(s, SubSeq(line, 1, j)), line[j + 1])
  <2>1. j \in 0 .. n /\ j + 1 \in 0 .. n /\ j + 1 # 0 /\ (j + 1) - 1 = j
    BY <1>1
  <2>2. f[j + 1] = ParseToken(f[(j + 1) - 1], line[j + 1])
    BY <1>4, <2>1
  <2> QED BY <1>3, <2>1, <2>2
<1>6. 0 \in 0 .. n /\ n \in 0 .. n
  BY <1>1
<1>7. ParseLine(s, SubSeq(line, 1, 0)) = s /\ ParseLine(s, SubSeq(line, 1, n)) = f[n]
  BY <1>3, <1>4, <1>6
<1> QED BY <1>2, <1>5, <1>7

\* A file is parsed line by line.
LEMMA LineSteps ==
  ASSUME NEW X, NEW lines \in Seq(X), NEW s
  PROVE  /\ Parsed(s, SubSeq(lines, 1, 0)) = s
         /\ \A j \in 0 .. Len(lines) - 1 :
              Parsed(s, SubSeq(lines, 1, j + 1))
                = ParseLine(Parsed(s, SubSeq(lines, 1, j)), lines[j + 1])
         /\ Parsed(s, SubSeq(lines, 1, Len(lines))) = Parsed(s, lines)
<1> DEFINE n == Len(lines)
<1>1. n \in Nat
  OBVIOUS
<1>2. PICK f : Lines(f, s, lines, n) /\ Parsed(s, lines) = f[n]
  BY <1>1, ParsedRuns
<1>3. ASSUME NEW m \in 0 .. n
      PROVE  Parsed(s, SubSeq(lines, 1, m)) = f[m]
  <2> DEFINE start == SubSeq(lines, 1, m)
  <2>1. Len(start) = m /\ m \in Nat /\ \A i \in 1 .. m : start[i] = lines[i]
    BY <1>1
  <2> HIDE DEF start
  <2>2. PICK g : Lines(g, s, start, m) /\ Parsed(s, start) = g[m]
    BY <2>1, ParsedRuns
  <2>3. g[m] = f[m]
    BY <1>1, <1>2, <2>1, <2>2, LineAgree
  <2> QED BY <2>2, <2>3 DEF start
<1>4. \A k \in 0 .. n : f[k] = IF k = 0 THEN s ELSE ParseLine(f[k - 1], lines[k])
  BY <1>2 DEF Lines
<1>5. ASSUME NEW j \in 0 .. n - 1
      PROVE  Parsed(s, SubSeq(lines, 1, j + 1))
               = ParseLine(Parsed(s, SubSeq(lines, 1, j)), lines[j + 1])
  <2>1. j \in 0 .. n /\ j + 1 \in 0 .. n /\ j + 1 # 0 /\ (j + 1) - 1 = j
    BY <1>1
  <2>2. f[j + 1] = ParseLine(f[(j + 1) - 1], lines[j + 1])
    BY <1>4, <2>1
  <2> QED BY <1>3, <2>1, <2>2
<1>6. 0 \in 0 .. n /\ n \in 0 .. n
  BY <1>1
<1>7. Parsed(s, SubSeq(lines, 1, 0)) = s /\ Parsed(s, SubSeq(lines, 1, n)) = f[n]
  BY <1>3, <1>4, <1>6
<1> QED BY <1>2, <1>5, <1>7

\* A list is parsed part by part.
LEMMA ParsedAppend ==
  ASSUME NEW X, NEW u \in Seq(X), NEW l, NEW s
  PROVE  Parsed(s, Append(u, l)) = ParseLine(Parsed(s, u), l)
<1> DEFINE Y == X \union {l}
           v == Append(u, l)
           n == Len(u)
<1>1. /\ u \in Seq(Y) /\ v \in Seq(Y) /\ n \in Nat /\ Len(v) = n + 1 /\ v[n + 1] = l
      /\ SubSeq(v, 1, n) = u
  OBVIOUS
<1> HIDE DEF Y, v, n
<1>2. /\ Parsed(s, SubSeq(v, 1, n + 1)) = ParseLine(Parsed(s, SubSeq(v, 1, n)), v[n + 1])
      /\ Parsed(s, SubSeq(v, 1, Len(v))) = Parsed(s, v)
  BY <1>1, LineSteps
<1> QED BY <1>1, <1>2 DEF v

\* No lines change nothing.
LEMMA ParsedEmpty ==
  ASSUME NEW s
  PROVE  Parsed(s, <<>>) = s
<1>1. <<>> \in Seq({}) /\ SubSeq(<<>>, 1, 0) = <<>>
  OBVIOUS
<1> QED BY <1>1, LineSteps

\* Two lists of lines, one after the other.
LEMMA ParsedConcat ==
  ASSUME NEW X, NEW u \in Seq(X), NEW v \in Seq(X), NEW s
  PROVE  Parsed(s, u \o v) = Parsed(Parsed(s, u), v)
<1> DEFINE n == Len(v)
           From(j) == SubSeq(v, 1, j)
           S == {j \in Nat : j <= n => Parsed(s, u \o From(j)) = Parsed(Parsed(s, u), From(j))}
<1>1. n \in Nat /\ From(n) = v
  OBVIOUS
<1>2. 0 \in S
  <2>1. From(0) = <<>> /\ u \o <<>> = u
    OBVIOUS
  <2> QED BY <2>1, ParsedEmpty
<1>3. ASSUME NEW j \in Nat, j \in S
      PROVE  j + 1 \in S
  <2> SUFFICES ASSUME j + 1 <= n
               PROVE  Parsed(s, u \o From(j + 1)) = Parsed(Parsed(s, u), From(j + 1))
    OBVIOUS
  <2>1. Parsed(s, u \o From(j)) = Parsed(Parsed(s, u), From(j))
    BY <1>1, <1>3
  <2>2. v[j + 1] \in X /\ From(j) \in Seq(X) /\ u \o From(j) \in Seq(X)
    BY <1>1
  <2>3. From(j + 1) = Append(From(j), v[j + 1])
    BY <1>1
  <2>4. u \o From(j + 1) = Append(u \o From(j), v[j + 1])
    BY <1>1, <2>2, <2>3
  <2> HIDE DEF From
  <2>5. /\ Parsed(s, u \o From(j + 1)) = ParseLine(Parsed(s, u \o From(j)), v[j + 1])
        /\ Parsed(Parsed(s, u), From(j + 1)) = ParseLine(Parsed(Parsed(s, u), From(j)), v[j + 1])
    BY <2>2, <2>3, <2>4, ParsedAppend
  <2> QED BY <2>1, <2>5
<1>4. n \in S
  <2> HIDE DEF S
  <2> QED BY <1>1, <1>2, <1>3, Induction
<1>5. Parsed(s, u \o From(n)) = Parsed(Parsed(s, u), From(n))
  <2> HIDE DEF From
  <2> QED BY <1>1, <1>4
<1> QED BY <1>1, <1>5

-----------------------------------------------------------------------------
(* What parse() makes of the lines that KiCad writes. *)

\* The state of a parser that has met no error.
At(stack, cur) == [stack |-> stack, cur |-> cur, err |-> FALSE]

\* A list of anything, and a token that is not a parenthesis.
IsList(s) == \E X : s \in Seq(X)
IsWord(t) == t # "(" /\ t # ")"

\* In a headed state load() would find nothing, or a word, where it looks for
\* the board.
Headed(cur) == IsList(cur) /\ (cur = <<>> \/ IsAtom(cur[1]))
FindsNothing(s) == ~s.err /\ Headed(s.cur)

\* A list with an item more.
LEMMA AppendOne ==
  ASSUME NEW s, IsList(s), NEW x
  PROVE  /\ IsList(Append(s, x)) /\ Append(s, x) # <<>>
         /\ Front(Append(s, x)) = s /\ Last(Append(s, x)) = x
         /\ Len(s) \in Nat /\ Len(Append(s, x)) = Len(s) + 1
         /\ \A i \in 1 .. Len(s) : Append(s, x)[i] = s[i]
         /\ Append(s, x)[Len(s) + 1] = x
<1>1. PICK X : s \in Seq(X)
  BY DEF IsList
<1> DEFINE Y == X \union {x}
           t == Append(s, x)
<1>2. s \in Seq(Y) /\ x \in Y
  BY <1>1
<1> HIDE DEF Y
<1>3. t \in Seq(Y) /\ t # <<>> /\ Len(t) = Len(s) + 1 /\ Len(s) \in Nat
      /\ (\A i \in 1 .. Len(s) : t[i] = s[i]) /\ t[Len(s) + 1] = x
  BY <1>2
<1> DEFINE u == SubSeq(t, 1, Len(s))
<1> HIDE DEF t
<1>4. u \in Seq(Y) /\ Len(u) = Len(s) /\ \A i \in 1 .. Len(s) : u[i] = s[i]
  BY <1>3
<1> HIDE DEF u
<1>5. u = s
  BY <1>2, <1>4, SeqEqual
<1>6. Front(t) = u /\ Last(t) = x
  BY <1>3 DEF Front, Last, u
<1> QED BY <1>3, <1>5, <1>6 DEF IsList, t

\* What parse() does with each kind of token.
LEMMA ParseOpen ==
  ASSUME NEW stack, NEW cur
  PROVE  ParseToken(At(stack, cur), "(") = At(Append(stack, cur), <<>>)
BY DEF ParseToken, At

\* A word is appended to the list at hand.
LEMMA ParseAtom ==
  ASSUME NEW stack, NEW cur, NEW t, IsWord(t)
  PROVE  ParseToken(At(stack, cur), t) = At(stack, Append(cur, Atom(t)))
BY DEF ParseToken, At, IsWord

\* A closing parenthesis ends the list at hand.
LEMMA ParseClose ==
  ASSUME NEW stack, IsList(stack), NEW last, NEW cur
  PROVE  ParseToken(At(Append(stack, last), cur), ")") = At(stack, Append(last, List(cur)))
<1> DEFINE t == Append(stack, last)
<1>1. t # <<>> /\ Front(t) = stack /\ Last(t) = last
  BY AppendOne
<1> HIDE DEF t
<1>2. ParseToken(At(t, cur), ")") = At(Front(t), Append(Last(t), List(cur)))
  BY <1>1 DEF ParseToken, At
<1> QED BY <1>1, <1>2 DEF t

\* Lists of a few items.
LEMMA ListOfOne ==
  ASSUME NEW a
  PROVE  Append(<<>>, a) = <<a>> /\ IsList(<<a>>) /\ <<a>>[1] = a
<1>1. <<a>> \in Seq({a})
  OBVIOUS
<1>2. Append(<<>>, a) = <<a>>
  OBVIOUS
<1>3. <<a>>[1] = a
  OBVIOUS
<1>4. IsList(<<a>>)
  BY <1>1, Zenon DEF IsList
<1> QED BY <1>2, <1>3, <1>4, Zenon

\* Two items.
LEMMA ListOfTwo ==
  ASSUME NEW a, NEW b
  PROVE  Append(<<a>>, b) = <<a, b>> /\ IsList(<<a, b>>) /\ <<a, b>>[1] = a
<1>1. <<a, b>> \in Seq({a, b})
  OBVIOUS
<1>2. Append(<<a>>, b) = <<a, b>>
  <2> DEFINE u == <<a, b>>
             p == <<a>>
             t == Append(p, b)
  <2>1. p \in Seq({a, b}) /\ Len(p) = 1 /\ p[1] = a
    OBVIOUS
  <2>2. u \in Seq({a, b}) /\ Len(u) = 2 /\ u[1] = a /\ u[2] = b
    OBVIOUS
  <2> HIDE DEF p, u
  <2>3. t \in Seq({a, b}) /\ Len(t) = 2 /\ t[1] = a /\ t[2] = b
    <3> DEFINE Y == {a, b}
    <3>1. p \in Seq(Y) /\ b \in Y
      BY <2>1
    <3> HIDE DEF Y
    <3>2. /\ t \in Seq(Y) /\ Len(t) = Len(p) + 1
          /\ \A i \in 1 .. Len(p) : t[i] = p[i]
          /\ t[Len(p) + 1] = b
      BY <3>1, AppendProperties
    <3> HIDE DEF t
    <3> QED BY <2>1, <3>2 DEF Y
  <2> HIDE DEF t
  <2>4. \A i \in 1 .. Len(t) : t[i] = u[i]
    BY <2>2, <2>3
  <2>5. t = u
    BY <2>2, <2>3, <2>4, SeqEqual
  <2> QED BY <2>5 DEF t, p, u
<1>3. <<a, b>>[1] = a
  OBVIOUS
<1>4. IsList(<<a, b>>)
  BY <1>1, Zenon DEF IsList
<1> QED BY <1>2, <1>3, <1>4, Zenon

\* Three items.
LEMMA ListOfThree ==
  ASSUME NEW a, NEW b, NEW c
  PROVE  Append(<<a, b>>, c) = <<a, b, c>> /\ IsList(<<a, b, c>>) /\ <<a, b, c>>[1] = a
<1>1. <<a, b, c>> \in Seq({a, b, c})
  OBVIOUS
<1>2. Append(<<a, b>>, c) = <<a, b, c>>
  <2> DEFINE u == <<a, b, c>>
             p == <<a, b>>
             t == Append(p, c)
  <2>1. p \in Seq({a, b, c}) /\ Len(p) = 2 /\ p[1] = a /\ p[2] = b
    OBVIOUS
  <2>2. u \in Seq({a, b, c}) /\ Len(u) = 3 /\ u[1] = a /\ u[2] = b /\ u[3] = c
    OBVIOUS
  <2> HIDE DEF p, u
  <2>3. t \in Seq({a, b, c}) /\ Len(t) = 3 /\ t[1] = a /\ t[2] = b /\ t[3] = c
    <3> DEFINE Y == {a, b, c}
    <3>1. p \in Seq(Y) /\ c \in Y
      BY <2>1
    <3> HIDE DEF Y
    <3>2. /\ t \in Seq(Y) /\ Len(t) = Len(p) + 1
          /\ \A i \in 1 .. Len(p) : t[i] = p[i]
          /\ t[Len(p) + 1] = c
      BY <3>1, AppendProperties
    <3> HIDE DEF t
    <3> QED BY <2>1, <3>2 DEF Y
  <2> HIDE DEF t
  <2>4. \A i \in 1 .. Len(t) : t[i] = u[i]
    BY <2>2, <2>3
  <2>5. t = u
    BY <2>2, <2>3, <2>4, SeqEqual
  <2> QED BY <2>5 DEF t, p, u
<1>3. <<a, b, c>>[1] = a
  OBVIOUS
<1>4. IsList(<<a, b, c>>)
  BY <1>1, Zenon DEF IsList
<1> QED BY <1>2, <1>3, <1>4, Zenon

\* Parsing a word into the first places of a list, and closing a list in the third.
LEMMA ParseFirst ==
  ASSUME NEW stack, NEW t, IsWord(t)
  PROVE  ParseToken(At(stack, <<>>), t) = At(stack, <<Atom(t)>>)
<1>1. Append(<<>>, Atom(t)) = <<Atom(t)>>
  BY ListOfOne
<1>2. ParseToken(At(stack, <<>>), t) = At(stack, Append(<<>>, Atom(t)))
  BY ParseAtom
<1> QED BY <1>1, <1>2

\* A word in the second place.
LEMMA ParseSecond ==
  ASSUME NEW stack, NEW a, NEW t, IsWord(t)
  PROVE  ParseToken(At(stack, <<a>>), t) = At(stack, <<a, Atom(t)>>)
<1> DEFINE x == Atom(t)
<1>1. ParseToken(At(stack, <<a>>), t) = At(stack, Append(<<a>>, x))
  BY ParseAtom
<1> HIDE DEF x
<1>2. Append(<<a>>, x) = <<a, x>>
  BY ListOfTwo
<1> QED BY <1>1, <1>2 DEF x

\* A word in the third place.
LEMMA ParseThird ==
  ASSUME NEW stack, NEW a, NEW b, NEW t, IsWord(t)
  PROVE  ParseToken(At(stack, <<a, b>>), t) = At(stack, <<a, b, Atom(t)>>)
<1> DEFINE x == Atom(t)
<1>1. ParseToken(At(stack, <<a, b>>), t) = At(stack, Append(<<a, b>>, x))
  BY ParseAtom
<1> HIDE DEF x
<1>2. Append(<<a, b>>, x) = <<a, b, x>>
  BY ListOfThree
<1> QED BY <1>1, <1>2 DEF x

\* A list closed in the third place.
LEMMA CloseThird ==
  ASSUME NEW stack, IsList(stack), NEW a, NEW b, NEW cur
  PROVE  ParseToken(At(Append(stack, <<a, b>>), cur), ")") = At(stack, <<a, b, List(cur)>>)
<1> DEFINE x == List(cur)
           last == <<a, b>>
<1>1. ParseToken(At(Append(stack, last), cur), ")") = At(stack, Append(last, x))
  BY ParseClose
<1> HIDE DEF x
<1>2. Append(last, x) = <<a, b, x>>
  BY ListOfThree
<1> QED BY <1>1, <1>2 DEF x

\* A word is no list.
LEMMA AtomIsAtom == ASSUME NEW a PROVE IsAtom(Atom(a))
BY DEF IsAtom, Atom

\* What parse() has of a list it has just begun is headed.
LEMMA ShortAreHeaded ==
  /\ Headed(<<>>)
  /\ \A a : Headed(<<Atom(a)>>)
  /\ \A a, b : Headed(<<Atom(a), b>>)
  /\ \A a, b, c : Headed(<<Atom(a), b, c>>)
<1>1. Headed(<<>>)
  <2>1. <<>> \in Seq({})
    OBVIOUS
  <2> QED BY <2>1 DEF IsList, Headed
<1>2. ASSUME NEW a
      PROVE  Headed(<<Atom(a)>>)
  BY AtomIsAtom, ListOfOne DEF Headed
<1>3. ASSUME NEW a, NEW b
      PROVE  Headed(<<Atom(a), b>>)
  BY AtomIsAtom, ListOfTwo DEF Headed
<1>4. ASSUME NEW a, NEW b, NEW c
      PROVE  Headed(<<Atom(a), b, c>>)
  BY AtomIsAtom, ListOfThree DEF Headed
<1> QED BY <1>1, <1>2, <1>3, <1>4

\* The first line of a footprint, and its items when it has been parsed.
HeadLine(ref) == <<"(", "footprint", "Lib", "(", "property", "Reference", ref, ")">>
Property(ref) == <<Atom("property"), Atom("Reference"), Atom(ref)>>
HeadItems(ref) == <<Atom("footprint"), Atom("Lib"), List(Property(ref))>>

\* Wherever the line is cut, load() would find nothing.
LineCuts(s, line) == \A j \in 0 .. Len(line) - 1 : FindsNothing(ParseLine(s, SubSeq(line, 1, j)))

\* The first line of a footprint opens its list; wherever it is cut, nothing is found.
LEMMA ParseHeadLine ==
  ASSUME NEW stack, IsList(stack), NEW cur, Headed(cur), NEW ref, IsWord(ref)
  PROVE  /\ ParseLine(At(stack, cur), HeadLine(ref)) = At(Append(stack, cur), HeadItems(ref))
         /\ LineCuts(At(stack, cur), HeadLine(ref))
<1> DEFINE s == At(stack, cur)
           line == HeadLine(ref)
           P(j) == ParseLine(s, SubSeq(line, 1, j))
           in == Append(stack, cur)
           X == {"(", ")", "footprint", "Lib", "property", "Reference", ref}
<1>1. /\ line \in Seq(X) /\ Len(line) = 8
      /\ line[1] = "(" /\ line[2] = "footprint" /\ line[3] = "Lib" /\ line[4] = "("
      /\ line[5] = "property" /\ line[6] = "Reference" /\ line[7] = ref /\ line[8] = ")"
  BY DEF HeadLine
<1> HIDE DEF X, line
<1>2. /\ P(0) = s /\ P(8) = ParseLine(s, line)
      /\ \A j \in 0 .. 7 : P(j + 1) = ParseToken(P(j), line[j + 1])
  <2>1. /\ ParseLine(s, SubSeq(line, 1, 0)) = s
        /\ \A j \in 0 .. Len(line) - 1 :
             ParseLine(s, SubSeq(line, 1, j + 1))
               = ParseToken(ParseLine(s, SubSeq(line, 1, j)), line[j + 1])
        /\ ParseLine(s, SubSeq(line, 1, Len(line))) = ParseLine(s, line)
    BY <1>1, TokenSteps
  <2>2. \A j \in 0 .. 7 : j \in 0 .. Len(line) - 1
    BY <1>1
  <2> QED BY <1>1, <2>1, <2>2
<1> HIDE DEF P
<1>3. /\ P(1) = ParseToken(P(0), line[1]) /\ P(2) = ParseToken(P(1), line[2])
      /\ P(3) = ParseToken(P(2), line[3]) /\ P(4) = ParseToken(P(3), line[4])
      /\ P(5) = ParseToken(P(4), line[5]) /\ P(6) = ParseToken(P(5), line[6])
      /\ P(7) = ParseToken(P(6), line[7]) /\ P(8) = ParseToken(P(7), line[8])
  <2>1. /\ P(0 + 1) = ParseToken(P(0), line[0 + 1]) /\ P(1 + 1) = ParseToken(P(1), line[1 + 1])
        /\ P(2 + 1) = ParseToken(P(2), line[2 + 1]) /\ P(3 + 1) = ParseToken(P(3), line[3 + 1])
        /\ P(4 + 1) = ParseToken(P(4), line[4 + 1]) /\ P(5 + 1) = ParseToken(P(5), line[5 + 1])
        /\ P(6 + 1) = ParseToken(P(6), line[6 + 1]) /\ P(7 + 1) = ParseToken(P(7), line[7 + 1])
    BY <1>2
  <2> QED BY <2>1
<1>4. IsWord("footprint") /\ IsWord("Lib") /\ IsWord("property") /\ IsWord("Reference")
  BY DEF IsWord
<1>5. P(0) = At(stack, cur) /\ P(1) = At(in, <<>>)
  BY <1>1, <1>2, <1>3, ParseOpen
<1>6. P(2) = At(in, <<Atom("footprint")>>)
  BY <1>1, <1>3, <1>4, <1>5, ParseFirst
<1>7. P(3) = At(in, <<Atom("footprint"), Atom("Lib")>>)
  BY <1>1, <1>3, <1>4, <1>6, ParseSecond
<1> DEFINE deep == Append(in, <<Atom("footprint"), Atom("Lib")>>)
<1>8. P(4) = At(deep, <<>>)
  BY <1>1, <1>3, <1>7, ParseOpen
<1>9. P(5) = At(deep, <<Atom("property")>>)
  BY <1>1, <1>3, <1>4, <1>8, ParseFirst
<1>10. P(6) = At(deep, <<Atom("property"), Atom("Reference")>>)
  BY <1>1, <1>3, <1>4, <1>9, ParseSecond
<1>11. P(7) = At(deep, Property(ref))
  BY <1>1, <1>3, <1>10, ParseThird DEF Property
<1>12. P(8) = At(in, HeadItems(ref))
  <2>1. IsList(in)
    BY AppendOne
  <2> QED BY <1>1, <1>3, <1>11, <2>1, CloseThird DEF HeadItems
<1>13. LineCuts(s, line)
  <2>1. \A c : Headed(c) => \A k : FindsNothing(At(k, c))
    BY DEF FindsNothing, At
  <2> HIDE DEF in, deep
  <2>2. /\ FindsNothing(P(0)) /\ FindsNothing(P(1)) /\ FindsNothing(P(2)) /\ FindsNothing(P(3))
        /\ FindsNothing(P(4)) /\ FindsNothing(P(5)) /\ FindsNothing(P(6)) /\ FindsNothing(P(7))
    BY <1>5, <1>6, <1>7, <1>8, <1>9, <1>10, <1>11, <2>1, ShortAreHeaded DEF Property
  <2>3. \A j \in 0 .. 7 : j = 0 \/ j = 1 \/ j = 2 \/ j = 3 \/ j = 4 \/ j = 5 \/ j = 6 \/ j = 7
    OBVIOUS
  <2>4. \A j \in 0 .. 7 : FindsNothing(P(j))
    BY <2>2, <2>3
  <2> QED BY <1>1, <2>4 DEF LineCuts, P
<1> QED BY <1>2, <1>12, <1>13 DEF line

\* The items of a pad when its line has been parsed.
NetItems(pad, old) ==
  IF old THEN <<Atom("net"), Atom("7"), Atom(pad.net)>> ELSE <<Atom("net"), Atom(pad.net)>>
PadItems(pad, old) ==
  IF pad.net = NoNet THEN <<Atom("pad"), Atom(pad.num)>>
  ELSE <<Atom("pad"), Atom(pad.num), List(NetItems(pad, old))>>

\* A list put together from three.
LEMMA ThreeParts ==
  ASSUME NEW X, NEW u \in Seq(X), NEW v \in Seq(X), NEW w \in Seq(X)
  PROVE  /\ u \o v \o w \in Seq(X)
         /\ Len(u \o v \o w) = Len(u) + Len(v) + Len(w)
         /\ \A i \in 1 .. Len(u) : (u \o v \o w)[i] = u[i]
         /\ \A i \in 1 .. Len(v) : (u \o v \o w)[Len(u) + i] = v[i]
         /\ \A i \in 1 .. Len(w) : (u \o v \o w)[Len(u) + Len(v) + i] = w[i]
<1> DEFINE uv == u \o v
           all == uv \o w
<1>1. Len(u) \in Nat /\ Len(v) \in Nat /\ Len(w) \in Nat
  OBVIOUS
<1>2. /\ uv \in Seq(X) /\ Len(uv) = Len(u) + Len(v)
      /\ \A i \in 1 .. Len(u) + Len(v) : uv[i] = IF i <= Len(u) THEN u[i] ELSE v[i - Len(u)]
  BY ConcatProperties
<1> HIDE DEF uv
<1>3. /\ all \in Seq(X) /\ Len(all) = Len(uv) + Len(w)
      /\ \A i \in 1 .. Len(uv) + Len(w) : all[i] = IF i <= Len(uv) THEN uv[i] ELSE w[i - Len(uv)]
  <2>1. uv \in Seq(X)
    BY <1>2
  <2> QED BY <2>1, ConcatProperties
<1> HIDE DEF all
<1>4. Len(all) = Len(u) + Len(v) + Len(w)
  BY <1>1, <1>2, <1>3
<1>5. ASSUME NEW i \in 1 .. Len(u) PROVE all[i] = u[i]
  BY <1>1, <1>2, <1>3
<1>6. ASSUME NEW i \in 1 .. Len(v) PROVE all[Len(u) + i] = v[i]
  <2>1. all[Len(u) + i] = uv[Len(u) + i]
    BY <1>1, <1>2, <1>3
  <2> DEFINE q == Len(u) + i
  <2>2. q \in 1 .. Len(u) + Len(v) /\ ~(q <= Len(u)) /\ q - Len(u) = i
    BY <1>1
  <2> HIDE DEF q
  <2>3. uv[q] = v[i]
    BY <1>2, <2>2
  <2> QED BY <2>1, <2>3 DEF q
<1>7. ASSUME NEW i \in 1 .. Len(w) PROVE all[Len(u) + Len(v) + i] = w[i]
  <2> DEFINE q == Len(uv) + i
  <2>1. q \in 1 .. Len(uv) + Len(w) /\ ~(q <= Len(uv)) /\ q - Len(uv) = i
    BY <1>1, <1>2
  <2> HIDE DEF q
  <2>2. all[q] = w[i]
    BY <1>3, <2>1
  <2> QED BY <1>2, <2>2 DEF q
<1> QED BY <1>3, <1>4, <1>5, <1>6, <1>7 DEF all, uv

\* The three forms of a pad's line.
PadForm(line, pad, old) ==
  /\ IsList(line)
  /\ line[1] = "(" /\ line[2] = "pad" /\ line[3] = pad.num
  /\ pad.net = NoNet => Len(line) = 4 /\ line[4] = ")"
  /\ pad.net # NoNet /\ ~old =>
       /\ Len(line) = 8 /\ line[4] = "(" /\ line[5] = "net" /\ line[6] = pad.net
       /\ line[7] = ")" /\ line[8] = ")"
  /\ pad.net # NoNet /\ old =>
       /\ Len(line) = 9 /\ line[4] = "(" /\ line[5] = "net" /\ line[6] = "7"
       /\ line[7] = pad.net /\ line[8] = ")" /\ line[9] = ")"

\* A pad's line has one of them.
LEMMA PadLineForms ==
  ASSUME NEW pad, NEW old \in BOOLEAN
  PROVE  PadForm(PadLine(pad, old), pad, old)
<1> DEFINE X == {"(", ")", "pad", "net", "7", pad.num, pad.net}
           u == <<"(", "pad", pad.num>>
           n == <<"(", "net">>
           s == IF old THEN <<"7">> ELSE <<>>
           e == <<pad.net, ")">>
           v == IF pad.net = NoNet THEN <<>> ELSE n \o s \o e
           w == <<")">>
           line == u \o v \o w
<1>1. /\ u \in Seq(X) /\ Len(u) = 3 /\ u[1] = "(" /\ u[2] = "pad" /\ u[3] = pad.num
      /\ w \in Seq(X) /\ Len(w) = 1 /\ w[1] = ")"
  OBVIOUS
<1>2. /\ n \in Seq(X) /\ Len(n) = 2 /\ n[1] = "(" /\ n[2] = "net"
      /\ e \in Seq(X) /\ Len(e) = 2 /\ e[1] = pad.net /\ e[2] = ")"
  OBVIOUS
<1>3. s \in Seq(X) /\ (old => Len(s) = 1 /\ s[1] = "7") /\ (~old => Len(s) = 0)
  <2>1. <<"7">> \in Seq(X) /\ Len(<<"7">>) = 1 /\ <<"7">>[1] = "7"
    OBVIOUS
  <2>2. <<>> \in Seq(X) /\ Len(<<>>) = 0
    OBVIOUS
  <2> HIDE DEF X
  <2> QED BY <2>1, <2>2
<1>4. PadLine(pad, old) = line
  BY DEF PadLine
<1>5. <<>> \in Seq(X) /\ Len(<<>>) = 0
  OBVIOUS
<1> DEFINE net == n \o s \o e
<1> HIDE DEF X, n, s, e
<1>6. /\ net \in Seq(X) /\ Len(net) = 4 + Len(s)
      /\ net[1] = "(" /\ net[2] = "net"
      /\ old => net[3] = "7" /\ net[4] = pad.net /\ net[5] = ")"
      /\ ~old => net[3] = pad.net /\ net[4] = ")"
  <2>1. /\ net \in Seq(X) /\ Len(net) = Len(n) + Len(s) + Len(e)
        /\ \A i \in 1 .. Len(n) : net[i] = n[i]
        /\ \A i \in 1 .. Len(s) : net[Len(n) + i] = s[i]
        /\ \A i \in 1 .. Len(e) : net[Len(n) + Len(s) + i] = e[i]
    <3>1. n \in Seq(X) /\ s \in Seq(X) /\ e \in Seq(X)
      BY <1>2, <1>3
    <3> QED BY ONLY <3>1, ThreeParts, SMTT(30)
  <2> HIDE DEF net
  <2> QED BY <1>2, <1>3, <2>1, SMTT(20)
<1>7. v = IF pad.net = NoNet THEN <<>> ELSE net
  OBVIOUS
<1> HIDE DEF v, u, w, net
<1>8. v \in Seq(X) /\ Len(v) \in Nat
  BY <1>5, <1>6, <1>7
<1>9. /\ line \in Seq(X) /\ Len(line) = 4 + Len(v)
      /\ line[1] = "(" /\ line[2] = "pad" /\ line[3] = pad.num
      /\ \A i \in 1 .. Len(v) : line[3 + i] = v[i]
      /\ line[4 + Len(v)] = ")"
  <2>1. /\ line \in Seq(X) /\ Len(line) = Len(u) + Len(v) + Len(w)
        /\ \A i \in 1 .. Len(u) : line[i] = u[i]
        /\ \A i \in 1 .. Len(v) : line[Len(u) + i] = v[i]
        /\ \A i \in 1 .. Len(w) : line[Len(u) + Len(v) + i] = w[i]
    <3>1. u \in Seq(X) /\ v \in Seq(X) /\ w \in Seq(X)
      BY <1>1, <1>8
    <3> QED BY ONLY <3>1, ThreeParts, SMTT(30)
  <2> HIDE DEF line
  <2>2. 1 \in 1 .. Len(u) /\ 2 \in 1 .. Len(u) /\ 3 \in 1 .. Len(u) /\ 1 \in 1 .. Len(w)
    BY <1>1
  <2>3. line[Len(u) + Len(v) + 1] = ")"
    BY <1>1, <2>1, <2>2
  <2>4. Len(u) + Len(v) + 1 = 4 + Len(v) /\ Len(u) + Len(v) + Len(w) = 4 + Len(v)
    BY <1>1, <1>8
  <2> QED BY <1>1, <2>1, <2>2, <2>3, <2>4
<1> HIDE DEF line
<1>10. IsList(line)
  BY <1>9, Zenon DEF IsList
<1>11. CASE pad.net = NoNet
  BY <1>4, <1>5, <1>7, <1>9, <1>10, <1>11 DEF PadForm
<1>12. CASE pad.net # NoNet /\ ~old
  <2>1. Len(v) = 4 /\ v[1] = "(" /\ v[2] = "net" /\ v[3] = pad.net /\ v[4] = ")"
    BY <1>3, <1>6, <1>7, <1>12
  <2>2. /\ Len(line) = 8 /\ line[8] = ")" /\ line[3 + 1] = "(" /\ line[3 + 2] = "net"
        /\ line[3 + 3] = pad.net /\ line[3 + 4] = ")"
    BY <1>9, <2>1
  <2>3. /\ line[4] = "(" /\ line[5] = "net" /\ line[6] = pad.net /\ line[7] = ")"
    BY <2>2
  <2> QED BY <1>4, <1>9, <1>10, <1>12, <2>2, <2>3 DEF PadForm
<1>13. CASE pad.net # NoNet /\ old
  <2>1. v = net /\ Len(s) = 1
    BY <1>3, <1>7, <1>13
  <2>2. /\ Len(v) = 5 /\ v[1] = "(" /\ v[2] = "net" /\ v[3] = "7" /\ v[4] = pad.net
        /\ v[5] = ")"
    BY <1>6, <1>13, <2>1
  <2>3. /\ Len(line) = 9 /\ line[9] = ")" /\ line[3 + 1] = "(" /\ line[3 + 2] = "net"
        /\ line[3 + 3] = "7" /\ line[3 + 4] = pad.net /\ line[3 + 5] = ")"
    BY <1>9, <2>2
  <2>4. line[4] = "(" /\ line[5] = "net" /\ line[6] = "7" /\ line[7] = pad.net /\ line[8] = ")"
    BY <2>3
  <2> QED BY <1>4, <1>9, <1>10, <1>13, <2>3, <2>4 DEF PadForm
<1> QED BY <1>11, <1>12, <1>13

\* A token at a time, up to nine of them.
LEMMA NineTokens ==
  ASSUME NEW X, NEW line \in Seq(X), NEW s
  PROVE  LET P(j) == ParseLine(s, SubSeq(line, 1, j)) IN
         /\ P(0) = s /\ P(Len(line)) = ParseLine(s, line)
         /\ 1 <= Len(line) => P(1) = ParseToken(P(0), line[1])
         /\ 2 <= Len(line) => P(2) = ParseToken(P(1), line[2])
         /\ 3 <= Len(line) => P(3) = ParseToken(P(2), line[3])
         /\ 4 <= Len(line) => P(4) = ParseToken(P(3), line[4])
         /\ 5 <= Len(line) => P(5) = ParseToken(P(4), line[5])
         /\ 6 <= Len(line) => P(6) = ParseToken(P(5), line[6])
         /\ 7 <= Len(line) => P(7) = ParseToken(P(6), line[7])
         /\ 8 <= Len(line) => P(8) = ParseToken(P(7), line[8])
         /\ 9 <= Len(line) => P(9) = ParseToken(P(8), line[9])
<1> DEFINE P(j) == ParseLine(s, SubSeq(line, 1, j))
<1>1. Len(line) \in Nat
  OBVIOUS
<1>2. /\ P(0) = s /\ P(Len(line)) = ParseLine(s, line)
      /\ \A j \in 0 .. Len(line) - 1 : P(j + 1) = ParseToken(P(j), line[j + 1])
  <2>1. P(0) = s
    BY ONLY line \in Seq(X), TokenSteps
  <2>3. P(Len(line)) = ParseLine(s, line)
    BY ONLY line \in Seq(X), TokenSteps
  <2>2. \A j \in 0 .. Len(line) - 1 : P(j + 1) = ParseToken(P(j), line[j + 1])
    BY ONLY line \in Seq(X), TokenSteps, ZenonT(40)
  <2> QED BY <2>1, <2>2, <2>3
<1> HIDE DEF P
<1>3. ASSUME NEW j \in Nat, j + 1 <= Len(line)
      PROVE  P(j + 1) = ParseToken(P(j), line[j + 1])
  BY <1>1, <1>2, <1>3
<1>4. /\ 1 <= Len(line) => P(1) = ParseToken(P(0), line[1])
      /\ 2 <= Len(line) => P(2) = ParseToken(P(1), line[2])
      /\ 3 <= Len(line) => P(3) = ParseToken(P(2), line[3])
      /\ 4 <= Len(line) => P(4) = ParseToken(P(3), line[4])
      /\ 5 <= Len(line) => P(5) = ParseToken(P(4), line[5])
  <2>1. /\ 0 + 1 <= Len(line) => P(0 + 1) = ParseToken(P(0), line[0 + 1])
        /\ 1 + 1 <= Len(line) => P(1 + 1) = ParseToken(P(1), line[1 + 1])
        /\ 2 + 1 <= Len(line) => P(2 + 1) = ParseToken(P(2), line[2 + 1])
        /\ 3 + 1 <= Len(line) => P(3 + 1) = ParseToken(P(3), line[3 + 1])
        /\ 4 + 1 <= Len(line) => P(4 + 1) = ParseToken(P(4), line[4 + 1])
    BY <1>3
  <2> QED BY <2>1
<1>5. /\ 6 <= Len(line) => P(6) = ParseToken(P(5), line[6])
      /\ 7 <= Len(line) => P(7) = ParseToken(P(6), line[7])
      /\ 8 <= Len(line) => P(8) = ParseToken(P(7), line[8])
      /\ 9 <= Len(line) => P(9) = ParseToken(P(8), line[9])
  <2>1. /\ 5 + 1 <= Len(line) => P(5 + 1) = ParseToken(P(5), line[5 + 1])
        /\ 6 + 1 <= Len(line) => P(6 + 1) = ParseToken(P(6), line[6 + 1])
        /\ 7 + 1 <= Len(line) => P(7 + 1) = ParseToken(P(7), line[7 + 1])
        /\ 8 + 1 <= Len(line) => P(8 + 1) = ParseToken(P(8), line[8 + 1])
    BY <1>3
  <2> QED BY <2>1
<1> QED BY <1>2, <1>4, <1>5 DEF P

\* Nothing is found in a headed list.
LEMMA HeadedFindsNothing ==
  ASSUME NEW stack, NEW cur, Headed(cur)
  PROVE  FindsNothing(At(stack, cur))
BY DEF FindsNothing, At

\* A pad's line is one list; wherever it is cut, nothing is found.
LEMMA ParsePadLine ==
  ASSUME NEW stack, IsList(stack), NEW cur, Headed(cur),
         NEW pad, IsWord(pad.num), IsWord(pad.net), NEW old \in BOOLEAN
  PROVE  /\ ParseLine(At(stack, cur), PadLine(pad, old))
              = At(stack, Append(cur, List(PadItems(pad, old))))
         /\ LineCuts(At(stack, cur), PadLine(pad, old))
<1> DEFINE s == At(stack, cur)
           line == PadLine(pad, old)
           P(j) == ParseLine(s, SubSeq(line, 1, j))
           in == Append(stack, cur)
           head == <<Atom("pad"), Atom(pad.num)>>
           deep == Append(in, head)
<1>1. PadForm(line, pad, old)
  BY PadLineForms
<1> HIDE DEF line
<1>2. /\ P(0) = s /\ P(Len(line)) = ParseLine(s, line)
      /\ 1 <= Len(line) => P(1) = ParseToken(P(0), line[1])
      /\ 2 <= Len(line) => P(2) = ParseToken(P(1), line[2])
      /\ 3 <= Len(line) => P(3) = ParseToken(P(2), line[3])
      /\ 4 <= Len(line) => P(4) = ParseToken(P(3), line[4])
      /\ 5 <= Len(line) => P(5) = ParseToken(P(4), line[5])
      /\ 6 <= Len(line) => P(6) = ParseToken(P(5), line[6])
      /\ 7 <= Len(line) => P(7) = ParseToken(P(6), line[7])
      /\ 8 <= Len(line) => P(8) = ParseToken(P(7), line[8])
      /\ 9 <= Len(line) => P(9) = ParseToken(P(8), line[9])
  <2>1. PICK X : line \in Seq(X)
    BY <1>1 DEF PadForm, IsList
  <2> HIDE DEF s
  <2> QED BY <2>1, NineTokens
<1> HIDE DEF P
<1>3. IsWord("pad") /\ IsWord("net") /\ IsWord("7")
  BY DEF IsWord
<1>4. /\ Len(line) \in {4, 8, 9} /\ IsList(in)
      /\ line[1] = "(" /\ line[2] = "pad" /\ line[3] = pad.num
  BY <1>1, AppendOne DEF PadForm
<1>5. P(0) = At(stack, cur) /\ P(1) = At(in, <<>>)
  BY <1>2, <1>4, ParseOpen
<1>6. P(2) = At(in, <<Atom("pad")>>)
  BY <1>2, <1>3, <1>4, <1>5, ParseFirst
<1>7. P(3) = At(in, head)
  BY <1>2, <1>4, <1>6, ParseSecond
<1>8. /\ FindsNothing(P(0)) /\ FindsNothing(P(1)) /\ FindsNothing(P(2)) /\ FindsNothing(P(3))
  BY <1>5, <1>6, <1>7, HeadedFindsNothing, ShortAreHeaded
<1>9. CASE pad.net = NoNet
  <2>1. Len(line) = 4 /\ line[4] = ")"
    BY <1>1, <1>9 DEF PadForm
  <2>2. P(4) = At(stack, Append(cur, List(head)))
    BY <1>2, <1>7, <2>1, ParseClose
  <2>3. \A j \in 0 .. 3 : j = 0 \/ j = 1 \/ j = 2 \/ j = 3
    OBVIOUS
  <2>4. \A j \in 0 .. 3 : FindsNothing(P(j))
    BY <1>8, <2>3
  <2>5. LineCuts(s, line)
    BY <2>1, <2>4 DEF LineCuts, P
  <2> QED BY <1>2, <1>9, <2>1, <2>2, <2>5 DEF PadItems, line
<1>10. CASE pad.net # NoNet
  <2>1. /\ 8 <= Len(line) /\ line[4] = "(" /\ line[5] = "net"
    BY <1>1, <1>10 DEF PadForm
  <2>2. P(4) = At(deep, <<>>)
    BY <1>2, <1>7, <2>1, ParseOpen
  <2>3. P(5) = At(deep, <<Atom("net")>>)
    BY <1>2, <1>3, <2>1, <2>2, ParseFirst
  <2>4. CASE ~old
    <3>1. /\ Len(line) = 8 /\ line[6] = pad.net /\ line[7] = ")" /\ line[8] = ")"
      BY <1>1, <1>10, <2>4 DEF PadForm
    <3> DEFINE net == <<Atom("net"), Atom(pad.net)>>
               items == <<Atom("pad"), Atom(pad.num), List(net)>>
    <3>2. P(6) = At(deep, net)
      BY <1>2, <2>3, <3>1, ParseSecond
    <3>3. P(7) = At(in, items)
      BY <1>2, <1>4, <3>1, <3>2, CloseThird
    <3>4. P(8) = At(stack, Append(cur, List(items)))
      BY <1>2, <3>1, <3>3, ParseClose
    <3>5. FindsNothing(P(4)) /\ FindsNothing(P(5)) /\ FindsNothing(P(6)) /\ FindsNothing(P(7))
      BY <2>2, <2>3, <3>2, <3>3, HeadedFindsNothing, ShortAreHeaded
    <3>6. \A j \in 0 .. 7 : j = 0 \/ j = 1 \/ j = 2 \/ j = 3 \/ j = 4 \/ j = 5 \/ j = 6 \/ j = 7
      OBVIOUS
    <3>7. \A j \in 0 .. 7 : FindsNothing(P(j))
      BY <1>8, <3>5, <3>6
    <3>8. LineCuts(s, line)
      BY <3>1, <3>7 DEF LineCuts, P
    <3>9. PadItems(pad, old) = items
      BY <1>10, <2>4 DEF PadItems, NetItems
    <3> QED BY <1>2, <3>1, <3>4, <3>8, <3>9 DEF line
  <2>5. CASE old
    <3>1. /\ Len(line) = 9 /\ line[6] = "7" /\ line[7] = pad.net /\ line[8] = ")" /\ line[9] = ")"
      BY <1>1, <1>10, <2>5 DEF PadForm
    <3> DEFINE net == <<Atom("net"), Atom("7"), Atom(pad.net)>>
               items == <<Atom("pad"), Atom(pad.num), List(net)>>
    <3>2. P(6) = At(deep, <<Atom("net"), Atom("7")>>)
      BY <1>2, <1>3, <2>3, <3>1, ParseSecond
    <3>3. P(7) = At(deep, net)
      BY <1>2, <3>1, <3>2, ParseThird
    <3>4. P(8) = At(in, items)
      BY <1>2, <1>4, <3>1, <3>3, CloseThird
    <3>5. P(9) = At(stack, Append(cur, List(items)))
      BY <1>2, <3>1, <3>4, ParseClose
    <3>6. FindsNothing(P(4)) /\ FindsNothing(P(5)) /\ FindsNothing(P(6)) /\ FindsNothing(P(7))
          /\ FindsNothing(P(8))
      BY <2>2, <2>3, <3>2, <3>3, <3>4, HeadedFindsNothing, ShortAreHeaded
    <3>7. \A j \in 0 .. 8 :
            j = 0 \/ j = 1 \/ j = 2 \/ j = 3 \/ j = 4 \/ j = 5 \/ j = 6 \/ j = 7 \/ j = 8
      OBVIOUS
    <3>8. \A j \in 0 .. 8 : FindsNothing(P(j))
      BY <1>8, <3>6, <3>7
    <3>9. LineCuts(s, line)
      BY <3>1, <3>8 DEF LineCuts, P
    <3>10. PadItems(pad, old) = items
      BY <1>10, <2>5 DEF PadItems, NetItems
    <3> QED BY <1>2, <3>1, <3>5, <3>9, <3>10 DEF line
  <2> QED BY <2>4, <2>5
<1> QED BY <1>9, <1>10

\* The first line of the file, and a closing one.
Start == [stack |-> <<>>, cur |-> <<>>, err |-> FALSE]
FirstLine == <<"(", "kicad_pcb">>
LastLine == <<")">>

\* The first line opens the list of the board.
LEMMA ParseFirstLine ==
  /\ ParseLine(Start, FirstLine) = At(<< <<>> >>, <<Atom("kicad_pcb")>>)
  /\ LineCuts(Start, FirstLine)
<1> DEFINE line == FirstLine
           P(j) == ParseLine(Start, SubSeq(line, 1, j))
           X == {"(", "kicad_pcb"}
<1>1. /\ line \in Seq(X) /\ Len(line) = 2 /\ line[1] = "(" /\ line[2] = "kicad_pcb"
  BY DEF FirstLine
<1>2. Start = At(<<>>, <<>>) /\ IsWord("kicad_pcb")
  BY DEF Start, At, IsWord
<1> HIDE DEF X, line
<1>3. /\ P(0) = Start /\ P(Len(line)) = ParseLine(Start, line)
      /\ 1 <= Len(line) => P(1) = ParseToken(P(0), line[1])
      /\ 2 <= Len(line) => P(2) = ParseToken(P(1), line[2])
  <2>1. PICK Y : line \in Seq(Y)
    BY <1>1
  <2>2. /\ P(0) = Start /\ P(Len(line)) = ParseLine(Start, line)
        /\ 1 <= Len(line) => P(1) = ParseToken(P(0), line[1])
        /\ 2 <= Len(line) => P(2) = ParseToken(P(1), line[2])
    BY <2>1, NineTokens
  <2> QED BY <2>2
<1> HIDE DEF P
<1>4. Append(<<>>, <<>>) = << <<>> >>
  BY ListOfOne
<1>5. P(1) = At(<< <<>> >>, <<>>)
  <2>1. P(1) = ParseToken(At(<<>>, <<>>), "(")
    BY <1>1, <1>2, <1>3
  <2>2. P(1) = At(Append(<<>>, <<>>), <<>>)
    BY <2>1, ParseOpen
  <2> QED BY <1>4, <2>2
<1>6. P(2) = At(<< <<>> >>, <<Atom("kicad_pcb")>>)
  BY <1>1, <1>2, <1>3, <1>5, ParseFirst
<1>7. FindsNothing(P(0)) /\ FindsNothing(P(1))
  BY <1>2, <1>3, <1>5, HeadedFindsNothing, ShortAreHeaded
<1>8. \A j \in 0 .. 1 : j = 0 \/ j = 1
  OBVIOUS
<1>9. \A j \in 0 .. 1 : FindsNothing(P(j))
  BY <1>7, <1>8
<1>10. LineCuts(Start, line)
  BY <1>1, <1>9 DEF LineCuts, P
<1> QED BY <1>1, <1>3, <1>6, <1>10 DEF line

\* A closing line ends the list at hand.
LEMMA ParseLastLine ==
  ASSUME NEW stack, IsList(stack), NEW last, NEW cur, Headed(cur)
  PROVE  /\ ParseLine(At(Append(stack, last), cur), LastLine) = At(stack, Append(last, List(cur)))
         /\ LineCuts(At(Append(stack, last), cur), LastLine)
<1> DEFINE line == LastLine
           s == At(Append(stack, last), cur)
           P(j) == ParseLine(s, SubSeq(line, 1, j))
           X == {")"}
<1>1. /\ line \in Seq(X) /\ Len(line) = 1 /\ line[1] = ")"
  BY DEF LastLine
<1> HIDE DEF X, line
<1>2. /\ P(0) = s /\ P(Len(line)) = ParseLine(s, line)
      /\ 1 <= Len(line) => P(1) = ParseToken(P(0), line[1])
  <2> HIDE DEF s
  <2>1. PICK Y : line \in Seq(Y)
    BY <1>1
  <2>2. /\ P(0) = s /\ P(Len(line)) = ParseLine(s, line)
        /\ 1 <= Len(line) => P(1) = ParseToken(P(0), line[1])
    BY <2>1, NineTokens
  <2> QED BY <2>2
<1> HIDE DEF P
<1>3. P(1) = At(stack, Append(last, List(cur)))
  BY <1>1, <1>2, ParseClose
<1>4. FindsNothing(P(0))
  BY <1>2, HeadedFindsNothing
<1>5. \A j \in 0 .. 0 : FindsNothing(P(j))
  <2>1. \A j \in 0 .. 0 : j = 0
    OBVIOUS
  <2> QED BY <1>4, <2>1
<1>6. LineCuts(s, line)
  BY <1>1, <1>5 DEF LineCuts, P
<1> QED BY <1>1, <1>2, <1>3, <1>6 DEF line

-----------------------------------------------------------------------------
(* Whole files, and files cut short. *)

\* Wherever the lines are cut, load() would find nothing.
CutsFindNothing(s, lines) ==
  \A k \in 1 .. Len(lines) : LineCuts(Parsed(s, SubSeq(lines, 1, k - 1)), lines[k])

\* A list of one line.
LEMMA OneLine ==
  ASSUME NEW line, NEW s
  PROVE  /\ Parsed(s, <<line>>) = ParseLine(s, line)
         /\ LineCuts(s, line) => CutsFindNothing(s, <<line>>)
<1>1. Parsed(s, <<line>>) = ParseLine(s, line)
  <2>1. <<>> \in Seq({}) /\ Append(<<>>, line) = <<line>>
    BY ListOfOne
  <2>2. Parsed(s, Append(<<>>, line)) = ParseLine(Parsed(s, <<>>), line)
    BY <2>1, ParsedAppend
  <2> QED BY <2>1, <2>2, ParsedEmpty
<1>2. /\ Len(<<line>>) = 1 /\ <<line>>[1] = line /\ SubSeq(<<line>>, 1, 0) = <<>>
  OBVIOUS
<1>3. ASSUME LineCuts(s, line), NEW k \in 1 .. 1
      PROVE  LineCuts(Parsed(s, SubSeq(<<line>>, 1, k - 1)), <<line>>[k])
  <2>1. k = 1 /\ k - 1 = 0
    OBVIOUS
  <2> QED BY <1>2, <1>3, <2>1, ParsedEmpty
<1> QED BY <1>1, <1>2, <1>3 DEF CutsFindNothing

\* If nothing is found in cuts of two lists of lines, nothing is in cuts of both together.
LEMMA CutsConcat ==
  ASSUME NEW X, NEW u \in Seq(X), NEW v \in Seq(X), NEW s,
         CutsFindNothing(s, u), CutsFindNothing(Parsed(s, u), v)
  PROVE  CutsFindNothing(s, u \o v)
<1> DEFINE n == Len(u)
           all == u \o v
<1>1. n \in Nat /\ Len(v) \in Nat
  OBVIOUS
<1>2. /\ all \in Seq(X) /\ Len(all) = n + Len(v)
      /\ \A i \in 1 .. n + Len(v) : all[i] = IF i <= n THEN u[i] ELSE v[i - n]
  BY ConcatProperties
<1> SUFFICES ASSUME NEW k \in 1 .. Len(all)
             PROVE  LineCuts(Parsed(s, SubSeq(all, 1, k - 1)), all[k])
  BY DEF CutsFindNothing
<1>3. CASE k <= n
  <2>1. all[k] = u[k] /\ k \in 1 .. n
    BY <1>1, <1>2, <1>3
  <2>2. SubSeq(all, 1, k - 1) = SubSeq(u, 1, k - 1)
    <3>1. CASE k = 1
      BY <3>1
    <3>2. CASE k > 1
      <4>1. 1 \in 1 .. Len(u) /\ k - 1 \in 1 .. Len(u)
        BY <1>1, <2>1, <3>2
      <4> QED BY <4>1, SubSeqOfConcat1
    <3> QED BY <2>1, <3>1, <3>2
  <2>3. LineCuts(Parsed(s, SubSeq(u, 1, k - 1)), u[k])
    BY <2>1 DEF CutsFindNothing
  <2> QED BY <2>1, <2>2, <2>3
<1>4. CASE k > n
  <2> DEFINE m == k - n
             start == SubSeq(v, 1, m - 1)
  <2>1. /\ m \in 1 .. Len(v) /\ all[k] = v[m]
        /\ k - 1 = n + (m - 1) /\ m - 1 \in Nat /\ m - 1 <= Len(v)
    BY <1>1, <1>2, <1>4
  <2>2. /\ start \in Seq(X) /\ Len(start) = m - 1
        /\ \A i \in 1 .. m - 1 : start[i] = v[i]
    BY <2>1
  <2>3. SubSeq(all, 1, k - 1) = u \o start
    <3> DEFINE p == SubSeq(all, 1, k - 1)
               q == u \o start
    <3>1. k - 1 \in Nat /\ k - 1 <= Len(all) /\ k - 1 = n + (m - 1)
      BY <1>1, <1>2, <2>1
    <3>2. /\ p \in Seq(X) /\ Len(p) = k - 1 /\ \A i \in 1 .. k - 1 : p[i] = all[i]
      BY <1>2, <3>1
    <3>3. /\ q \in Seq(X) /\ Len(q) = n + Len(start)
          /\ \A i \in 1 .. n + Len(start) : q[i] = IF i <= n THEN u[i] ELSE start[i - n]
      BY <2>2, ConcatProperties
    <3> HIDE DEF p, q, start, all
    <3>4. ASSUME NEW i \in 1 .. Len(p) PROVE p[i] = q[i]
      <4>1. i \in 1 .. k - 1 /\ i \in 1 .. n + Len(v) /\ i \in 1 .. n + Len(start)
        BY <1>1, <1>2, <2>1, <2>2, <3>1, <3>2
      <4>2. /\ p[i] = IF i <= n THEN u[i] ELSE v[i - n]
            /\ q[i] = IF i <= n THEN u[i] ELSE start[i - n]
        BY <1>2, <3>2, <3>3, <4>1
      <4>3. ~(i <= n) => i - n \in 1 .. m - 1
        BY <1>1, <2>1, <4>1
      <4>4. ~(i <= n) => start[i - n] = v[i - n]
        BY <2>2, <4>3
      <4> QED BY <4>2, <4>4
    <3>5. Len(p) = Len(q)
      BY <2>2, <3>1, <3>2, <3>3
    <3>6. p = q
      BY <3>2, <3>3, <3>4, <3>5, SeqEqual
    <3> QED BY <3>6 DEF p, q
  <2>4. Parsed(s, u \o start) = Parsed(Parsed(s, u), start)
    BY <2>2, ParsedConcat
  <2>5. LineCuts(Parsed(Parsed(s, u), start), v[m])
    BY <2>1 DEF CutsFindNothing
  <2> QED BY <2>1, <2>3, <2>4, <2>5
<1> QED BY <1>1, <1>2, <1>3, <1>4

\* And a line more.
LEMMA CutsAppend ==
  ASSUME NEW X, NEW u \in Seq(X), NEW line, NEW s,
         CutsFindNothing(s, u), LineCuts(Parsed(s, u), line)
  PROVE  CutsFindNothing(s, Append(u, line))
<1> DEFINE Y == X \union {line}
           one == <<line>>
<1>1. u \in Seq(Y) /\ one \in Seq(Y) /\ line \in Y
  OBVIOUS
<1>2. Append(u, line) = u \o one
  BY <1>1, AppendIsConcat
<1>3. CutsFindNothing(Parsed(s, u), one)
  BY OneLine
<1> HIDE DEF one, Y
<1> QED BY <1>1, <1>2, <1>3, CutsConcat

\* No lines cannot be cut.
LEMMA CutsEmpty ==
  ASSUME NEW s
  PROVE  CutsFindNothing(s, <<>>)
<1>1. Len(<<>>) = 0 /\ 1 .. 0 = {}
  OBVIOUS
<1> QED BY <1>1 DEF CutsFindNothing

\* What a list of things that parse to one list each parses to.
ItemsUpto(cur, item, j) == cur \o [i \in 1 .. j |-> List(item[i])]

\* One item more.
LEMMA ItemsGrow ==
  ASSUME NEW cur, Headed(cur), cur # <<>>, NEW item, NEW j \in Nat
  PROVE  /\ ItemsUpto(cur, item, 0) = cur
         /\ ItemsUpto(cur, item, j + 1) = Append(ItemsUpto(cur, item, j), List(item[j + 1]))
         /\ Headed(ItemsUpto(cur, item, j)) /\ ItemsUpto(cur, item, j) # <<>>
<1> DEFINE at(k) == [i \in 1 .. k |-> List(item[i])]
           Y == {List(item[i]) : i \in 1 .. j + 1}
<1>1. PICK X : cur \in Seq(X)
  BY DEF Headed, IsList
<1> DEFINE Z == X \union Y
<1>2. cur \in Seq(Z) /\ Len(cur) \in Nat /\ Len(cur) # 0
  BY <1>1
<1>3. \A i \in 1 .. j + 1 : List(item[i]) \in Z
  OBVIOUS
<1> HIDE DEF Y, Z
<1>4. at(0) = <<>> /\ cur \o <<>> = cur
  BY <1>2
<1>5. at(j) \in Seq(Z) /\ Len(at(j)) = j /\ \A i \in 1 .. j : at(j)[i] = List(item[i])
  <2>1. \A i \in 1 .. j : List(item[i]) \in Z
    BY <1>3
  <2> QED BY <2>1
<1>6. /\ at(j + 1) \in Seq(Z) /\ Len(at(j + 1)) = j + 1
      /\ \A i \in 1 .. j + 1 : at(j + 1)[i] = List(item[i])
  BY <1>3
<1> DEFINE t == at(j)
           u == at(j + 1)
           x == List(item[j + 1])
<1>7. x \in Z
  <2>1. j + 1 \in 1 .. j + 1
    OBVIOUS
  <2> QED BY <1>3, <2>1
<1>8. u[j + 1] = x /\ \A i \in 1 .. j : u[i] = t[i]
  BY <1>5, <1>6
<1> HIDE DEF at, x
<1>9. u = Append(t, x)
  <2> DEFINE w == Append(t, x)
  <2>1. w \in Seq(Z) /\ Len(w) = j + 1 /\ w[j + 1] = x /\ \A i \in 1 .. j : w[i] = t[i]
    BY <1>5, <1>7, AppendProperties
  <2> HIDE DEF w
  <2>2. ASSUME NEW i \in 1 .. Len(u) PROVE u[i] = w[i]
    <3>1. i \in 1 .. j \/ i = j + 1
      BY <1>6
    <3> QED BY <1>8, <2>1, <3>1
  <2>3. u = w
    BY <1>6, <2>1, <2>2, SeqEqual
  <2> QED BY <2>3 DEF w
<1>10. cur \o Append(t, x) = Append(cur \o t, x)
  <2> DEFINE one == <<x>>
  <2>1. one \in Seq(Z)
    BY <1>7
  <2>2. t \in Seq(Z) /\ cur \o t \in Seq(Z)
    BY <1>2, <1>5, ConcatProperties
  <2>3. Append(t, x) = t \o one /\ Append(cur \o t, x) = (cur \o t) \o one
    BY <1>7, <2>2, AppendIsConcat
  <2> HIDE DEF one, t
  <2>4. cur \in Seq(Z)
    BY <1>2
  <2>5. (cur \o t) \o one = cur \o (t \o one)
    BY ONLY <2>1, <2>2, <2>4, ConcatAssociative, SMTT(30)
  <2> QED BY ONLY <2>3, <2>5
<1>11. Headed(cur \o t) /\ cur \o t # <<>>
  <2> DEFINE w == cur \o t
  <2>1. w \in Seq(Z) /\ Len(w) = Len(cur) + j /\ w[1] = cur[1]
    <3>1. t \in Seq(Z) /\ cur \in Seq(Z)
      BY <1>2, <1>5
    <3>2. /\ w \in Seq(Z) /\ Len(w) = Len(cur) + Len(t)
          /\ \A i \in 1 .. Len(cur) + Len(t) :
               w[i] = IF i <= Len(cur) THEN cur[i] ELSE t[i - Len(cur)]
      BY <3>1, ConcatProperties
    <3> HIDE DEF w
    <3>3. 1 \in 1 .. Len(cur) + Len(t) /\ 1 <= Len(cur)
      BY <1>2, <1>5
    <3>4. w[1] = cur[1]
      BY <3>2, <3>3
    <3> QED BY <1>5, <3>2, <3>4
  <2> HIDE DEF w
  <2>2. w # <<>>
    BY <1>2, <2>1
  <2>3. IsAtom(cur[1])
    BY DEF Headed
  <2> QED BY <2>1, <2>2, <2>3 DEF Headed, IsList, w
<1> QED BY <1>4, <1>9, <1>10, <1>11 DEF ItemsUpto, at, x

\* What an import or a hand edit leaves: a list of pads, and names that are words.
Proper(f) ==
  /\ IsList(f.pads) /\ IsWord(f.ref)
  /\ \A i \in DOMAIN f.pads : IsWord(f.pads[i].num) /\ IsWord(f.pads[i].net)

\* One line more.
LEMMA ListGrows ==
  ASSUME NEW line, NEW j \in Nat
  PROVE  /\ IsList([i \in 1 .. j |-> line[i]])
         /\ [i \in 1 .. j + 1 |-> line[i]] = Append([i \in 1 .. j |-> line[i]], line[j + 1])
<1> DEFINE Z == {line[i] : i \in 1 .. j + 1}
           t == [i \in 1 .. j |-> line[i]]
           u == [i \in 1 .. j + 1 |-> line[i]]
           x == line[j + 1]
<1>1. \A i \in 1 .. j + 1 : line[i] \in Z
  OBVIOUS
<1> HIDE DEF Z
<1>2. t \in Seq(Z) /\ Len(t) = j /\ \A i \in 1 .. j : t[i] = line[i]
  <2>1. \A i \in 1 .. j : line[i] \in Z
    BY <1>1
  <2> QED BY <2>1
<1>3. u \in Seq(Z) /\ Len(u) = j + 1 /\ \A i \in 1 .. j + 1 : u[i] = line[i]
  BY <1>1
<1>4. x \in Z
  <2>1. j + 1 \in 1 .. j + 1
    OBVIOUS
  <2> QED BY <1>1, <2>1
<1>5. u[j + 1] = x /\ \A i \in 1 .. j : u[i] = t[i]
  BY <1>2, <1>3
<1> DEFINE w == Append(t, x)
<1> HIDE DEF t, u, x
<1>6. w \in Seq(Z) /\ Len(w) = j + 1 /\ w[j + 1] = x /\ \A i \in 1 .. j : w[i] = t[i]
  BY <1>2, <1>4, AppendProperties
<1> HIDE DEF w
<1>7. ASSUME NEW i \in 1 .. Len(u) PROVE u[i] = w[i]
  <2>1. i \in 1 .. j \/ i = j + 1
    BY <1>3
  <2> QED BY <1>5, <1>6, <2>1
<1>8. u = w
  BY <1>3, <1>6, <1>7, SeqEqual
<1>9. IsList(t)
  BY <1>2, Zenon DEF IsList
<1> QED BY <1>8, <1>9 DEF t, u, x, w

\* Lines that parse to one list each.
ParseToItems(in, line, item, n) ==
  \A c : \A i \in 1 .. n :
    Headed(c) => /\ ParseLine(At(in, c), line[i]) = At(in, Append(c, List(item[i])))
                 /\ LineCuts(At(in, c), line[i])

\* They parse to the items, in their order.
LEMMA ParseItems ==
  ASSUME NEW in, NEW cur, Headed(cur), cur # <<>>, NEW line, NEW item, NEW n \in Nat,
         ParseToItems(in, line, item, n)
  PROVE  /\ Parsed(At(in, cur), [i \in 1 .. n |-> line[i]]) = At(in, ItemsUpto(cur, item, n))
         /\ CutsFindNothing(At(in, cur), [i \in 1 .. n |-> line[i]])
<1> DEFINE s == At(in, cur)
           upto(j) == [i \in 1 .. j |-> line[i]]
           P(j) == /\ Parsed(s, upto(j)) = At(in, ItemsUpto(cur, item, j))
                   /\ CutsFindNothing(s, upto(j))
           S == {j \in Nat : j <= n => P(j)}
<1>1. 0 \in S
  <2>1. upto(0) = <<>>
    OBVIOUS
  <2>2. P(0)
    BY <2>1, ParsedEmpty, CutsEmpty, ItemsGrow
  <2> QED BY <2>2
<1>2. ASSUME NEW j \in Nat, j \in S PROVE j + 1 \in S
  <2> SUFFICES ASSUME j + 1 <= n PROVE P(j + 1)
    OBVIOUS
  <2>1. P(j) /\ j + 1 \in 1 .. n
    BY <1>2
  <2> DEFINE c == ItemsUpto(cur, item, j)
             q == j + 1
             x == line[q]
  <2>2. Headed(c) /\ c # <<>> /\ ItemsUpto(cur, item, q) = Append(c, List(item[q]))
    BY ONLY j \in Nat, Headed(cur), cur # <<>>, ItemsGrow, ZenonT(40)
  <2>3. IsList(upto(j)) /\ upto(q) = Append(upto(j), x)
    BY ListGrows
  <2>4. Parsed(s, upto(j)) = At(in, c) /\ CutsFindNothing(s, upto(j)) /\ q \in 1 .. n
    BY <2>1
  <2> HIDE DEF c, q
  <2>5. ParseLine(At(in, c), x) = At(in, Append(c, List(item[q]))) /\ LineCuts(At(in, c), x)
    BY <2>2, <2>4 DEF ParseToItems
  <2> HIDE DEF upto, x, s
  <2>6. PICK X : upto(j) \in Seq(X)
    BY <2>3 DEF IsList
  <2>7. Parsed(s, upto(q)) = ParseLine(Parsed(s, upto(j)), x)
    <3> DEFINE Y == X \union {x}
               t == upto(j)
    <3>1. t \in Seq(Y) /\ x \in Y
      BY <2>6
    <3> HIDE DEF Y, t
    <3>2. Parsed(s, Append(t, x)) = ParseLine(Parsed(s, t), x)
      BY <3>1, ParsedAppend
    <3> QED BY <2>3, <3>2 DEF t
  <2>8. CutsFindNothing(s, upto(q))
    BY <2>3, <2>4, <2>5, <2>6, CutsAppend
  <2>9. P(q)
    BY <2>2, <2>4, <2>5, <2>7, <2>8
  <2> QED BY <2>9 DEF q
<1>3. n \in S
  <2> HIDE DEF S
  <2> QED BY <1>1, <1>2, Induction
<1> QED BY <1>3

\* The items of a footprint when its lines have been parsed.
FootItems(f, old) ==
  ItemsUpto(HeadItems(f.ref), [i \in DOMAIN f.pads |-> PadItems(f.pads[i], old)], Len(f.pads))

\* The lines of a footprint parse to one list; cut, they hold no footprint.
LEMMA ParseFootprint ==
  ASSUME NEW stack, IsList(stack), NEW cur, Headed(cur), cur # <<>>,
         NEW f, Proper(f), NEW old \in BOOLEAN
  PROVE  /\ IsList(FootprintLines(f, old))
         /\ Parsed(At(stack, cur), FootprintLines(f, old))
              = At(stack, Append(cur, List(FootItems(f, old))))
         /\ CutsFindNothing(At(stack, cur), FootprintLines(f, old))
<1> DEFINE s == At(stack, cur)
           in == Append(stack, cur)
           n == Len(f.pads)
           line == [i \in 1 .. n |-> PadLine(f.pads[i], old)]
           item == [i \in 1 .. n |-> PadItems(f.pads[i], old)]
           u == <<HeadLine(f.ref)>>
           v == [i \in 1 .. n |-> line[i]]
           w == <<LastLine>>
           X == {HeadLine(f.ref), LastLine} \union {line[i] : i \in 1 .. n}
           h == HeadItems(f.ref)
<1>1. n \in Nat /\ DOMAIN f.pads = 1 .. n
  BY DEF Proper, IsList
<1>2. FootprintLines(f, old) = u \o v \o w
  BY <1>1 DEF FootprintLines, HeadLine, LastLine
<1>3. FootItems(f, old) = ItemsUpto(h, item, n)
  BY <1>1 DEF FootItems
<1>4. u \in Seq(X) /\ w \in Seq(X) /\ v \in Seq(X)
  BY <1>1
<1>5. Parsed(s, u) = At(in, h) /\ CutsFindNothing(s, u)
  BY OneLine, ParseHeadLine DEF Proper
<1>6. Headed(h) /\ h # <<>>
  <2>1. <<Atom("footprint"), Atom("Lib"), List(Property(f.ref))>> # <<>>
    OBVIOUS
  <2> QED BY <2>1, ShortAreHeaded DEF HeadItems
<1>7. IsList(in)
  BY AppendOne
<1>8. ASSUME NEW c, NEW i \in 1 .. n, Headed(c)
      PROVE  /\ ParseLine(At(in, c), line[i]) = At(in, Append(c, List(item[i])))
             /\ LineCuts(At(in, c), line[i])
  <2>1. IsWord(f.pads[i].num) /\ IsWord(f.pads[i].net)
    BY <1>1 DEF Proper
  <2>2. line[i] = PadLine(f.pads[i], old) /\ item[i] = PadItems(f.pads[i], old)
    OBVIOUS
  <2> HIDE DEF in, line, item
  <2> QED BY <1>7, <1>8, <2>1, <2>2, ParsePadLine
<1> HIDE DEF in, line, item, h, X
<1>9. Parsed(At(in, h), v) = At(in, ItemsUpto(h, item, n)) /\ CutsFindNothing(At(in, h), v)
  <2> HIDE DEF n
  <2>1. n \in Nat
    BY <1>1
  <2>2. ParseToItems(in, line, item, n)
    BY <1>8 DEF ParseToItems
  <2> QED BY <1>6, <2>1, <2>2, ParseItems
<1>10. Headed(ItemsUpto(h, item, n))
  <2> HIDE DEF n
  <2> QED BY <1>1, <1>6, ItemsGrow
<1> DEFINE full == ItemsUpto(h, item, n)
           s2 == At(in, full)
<1>11. Parsed(s2, w) = At(stack, Append(cur, List(full))) /\ CutsFindNothing(s2, w)
  BY <1>10, OneLine, ParseLastLine DEF in
<1> HIDE DEF u, v, w, full, s, s2, n
<1>12. Parsed(s, u \o v) = s2 /\ CutsFindNothing(s, u \o v) /\ u \o v \in Seq(X)
  <2>1. u \in Seq(X) /\ v \in Seq(X)
    BY <1>4
  <2>2. u \o v \in Seq(X)
    BY <2>1, ConcatProperties
  <2>3. Parsed(s, u \o v) = Parsed(Parsed(s, u), v)
    BY <2>1, ParsedConcat
  <2>4. CutsFindNothing(s, u) /\ CutsFindNothing(Parsed(s, u), v)
    BY <1>5, <1>9
  <2>5. CutsFindNothing(s, u \o v)
    BY <2>1, <2>4, CutsConcat
  <2> QED BY <1>5, <1>9, <2>2, <2>3, <2>5 DEF s2, full
<1>13. /\ Parsed(s, u \o v \o w) = Parsed(s2, w) /\ CutsFindNothing(s, u \o v \o w)
       /\ u \o v \o w \in Seq(X)
  <2> DEFINE uv == u \o v
  <2>1. uv \in Seq(X) /\ w \in Seq(X) /\ Parsed(s, uv) = s2 /\ CutsFindNothing(s, uv)
    BY <1>4, <1>12
  <2> HIDE DEF uv
  <2>2. uv \o w \in Seq(X)
    BY <2>1, ConcatProperties
  <2>3. Parsed(s, uv \o w) = Parsed(s2, w)
    BY <2>1, ParsedConcat
  <2>4. CutsFindNothing(Parsed(s, uv), w)
    BY <1>11, <2>1
  <2>5. CutsFindNothing(s, uv \o w)
    BY <2>1, <2>4, CutsConcat
  <2> QED BY <2>2, <2>3, <2>5 DEF uv
<1>14. IsList(u \o v \o w)
  BY <1>13, Zenon DEF IsList
<1> QED BY <1>2, <1>3, <1>11, <1>13, <1>14 DEF full, s

\* Parsing one list of lines and then another.
LEMMA ParseParts ==
  ASSUME NEW u, IsList(u), NEW v, IsList(v), NEW s,
         CutsFindNothing(s, u), CutsFindNothing(Parsed(s, u), v)
  PROVE  /\ IsList(u \o v)
         /\ Parsed(s, u \o v) = Parsed(Parsed(s, u), v)
         /\ CutsFindNothing(s, u \o v)
<1>1. PICK X : u \in Seq(X)
  BY DEF IsList
<1>2. PICK Y : v \in Seq(Y)
  BY DEF IsList
<1> DEFINE Z == X \union Y
<1>3. u \in Seq(Z) /\ v \in Seq(Z)
  BY <1>1, <1>2
<1> HIDE DEF Z
<1>4. u \o v \in Seq(Z)
  BY <1>3, ConcatProperties
<1>5. IsList(u \o v)
  BY <1>4, Zenon DEF IsList
<1>6. Parsed(s, u \o v) = Parsed(Parsed(s, u), v)
  BY <1>3, ParsedConcat
<1>7. CutsFindNothing(s, u \o v)
  BY <1>3, CutsConcat
<1> QED BY <1>5, <1>6, <1>7

\* f lists what FlattenSeq puts together.
Flattens(f, parts, n) == f = [i \in 1 .. n |-> IF i = 1 THEN parts[i] ELSE f[i - 1] \o parts[i]]

\* One part more.
LEMMA MoreFlattened ==
  ASSUME NEW parts, NEW n \in Nat, NEW f, Flattens(f, parts, n)
  PROVE  \E g : Flattens(g, parts, n + 1)
<1> DEFINE g == [k \in 1 .. n + 1 |->
                   IF k = n + 1 THEN (IF n = 0 THEN parts[1] ELSE f[n] \o parts[n + 1]) ELSE f[k]]
<1>1. DOMAIN g = 1 .. n + 1 /\ g = [k \in 1 .. n + 1 |-> g[k]]
  OBVIOUS
<1>2. ASSUME NEW k \in 1 .. n + 1
      PROVE  g[k] = IF k = 1 THEN parts[k] ELSE g[k - 1] \o parts[k]
  <2>1. CASE k = n + 1
    BY <2>1
  <2>2. CASE k \in 1 .. n
    <3>1. g[k] = f[k] /\ (k # 1 => g[k - 1] = f[k - 1])
      BY <2>2
    <3>2. f[k] = IF k = 1 THEN parts[k] ELSE f[k - 1] \o parts[k]
      BY <2>2 DEF Flattens
    <3> QED BY <3>1, <3>2
  <2> QED BY <2>1, <2>2
<1> HIDE DEF g
<1>3. Flattens(g, parts, n + 1)
  BY <1>1, <1>2 DEF Flattens
<1> QED BY <1>3

\* FlattenSeq is such a list.
LEMMA FlattenRuns ==
  ASSUME NEW parts, Len(parts) \in Nat, Len(parts) # 0
  PROVE  \E f : Flattens(f, parts, Len(parts)) /\ FlattenSeq(parts) = f[Len(parts)]
<1> DEFINE S == {m \in Nat : \E f : Flattens(f, parts, m)}
           after == CHOOSE f : Flattens(f, parts, Len(parts))
<1>1. Flattens(<<>>, parts, 0)
  <2>1. <<>> = [i \in 1 .. 0 |-> IF i = 1 THEN parts[i] ELSE <<>>[i - 1] \o parts[i]]
    OBVIOUS
  <2> QED BY <2>1 DEF Flattens
<1>2. 0 \in S
  BY <1>1
<1>3. \A m \in Nat : m \in S => m + 1 \in S
  BY MoreFlattened
<1>4. Len(parts) \in S
  <2> HIDE DEF S
  <2> QED BY <1>2, <1>3, Induction
<1>5. \E f : Flattens(f, parts, Len(parts))
  BY <1>4
<1>6. Flattens(after, parts, Len(parts))
  BY <1>5
<1>7. FlattenSeq(parts) = after[Len(parts)]
  BY DEF FlattenSeq, Flattens
<1> HIDE DEF after
<1> QED BY <1>6, <1>7

\* Blocks of lines that parse to one list each.
ParseToLists(in, block, item, n) ==
  \A c : \A i \in 1 .. n :
    Headed(c) /\ c # <<>> =>
      /\ Parsed(At(in, c), block[i]) = At(in, Append(c, List(item[i])))
      /\ CutsFindNothing(At(in, c), block[i])

\* They parse to the items, in their order.
LEMMA ParseBlocks ==
  ASSUME NEW in, NEW cur, Headed(cur), cur # <<>>, NEW block, NEW item, NEW n \in Nat,
         block = [i \in 1 .. n |-> block[i]], \A i \in 1 .. n : IsList(block[i]),
         ParseToLists(in, block, item, n)
  PROVE  /\ IsList(FlattenSeq(block))
         /\ Parsed(At(in, cur), FlattenSeq(block)) = At(in, ItemsUpto(cur, item, n))
         /\ CutsFindNothing(At(in, cur), FlattenSeq(block))
<1> DEFINE s == At(in, cur)
           G(l, j) == /\ IsList(l)
                      /\ Parsed(s, l) = At(in, ItemsUpto(cur, item, j))
                      /\ CutsFindNothing(s, l)
<1> HIDE DEF G
<1>1. Len(block) = n /\ (n = 0 => block = <<>>)
  OBVIOUS
<1>2. ASSUME NEW j \in Nat, j + 1 <= n, NEW l, G(l, j)
      PROVE  G(l \o block[j + 1], j + 1)
  <2> DEFINE c == ItemsUpto(cur, item, j)
             q == j + 1
             e == block[q]
  <2>1. Headed(c) /\ c # <<>> /\ ItemsUpto(cur, item, q) = Append(c, List(item[q]))
    BY ItemsGrow
  <2>2. q \in 1 .. n
    BY <1>2
  <2>3. IsList(l) /\ Parsed(s, l) = At(in, c) /\ CutsFindNothing(s, l)
    BY <1>2 DEF G
  <2> HIDE DEF c, q, s
  <2>4. /\ Parsed(At(in, c), e) = At(in, Append(c, List(item[q])))
        /\ CutsFindNothing(At(in, c), e) /\ IsList(e)
    BY <2>1, <2>2 DEF ParseToLists
  <2> HIDE DEF e
  <2>5. /\ IsList(l \o e) /\ Parsed(s, l \o e) = Parsed(Parsed(s, l), e)
        /\ CutsFindNothing(s, l \o e)
    BY <2>3, <2>4, ParseParts
  <2>6. G(l \o e, q)
    BY <2>1, <2>3, <2>4, <2>5 DEF G, s
  <2> QED BY <2>6 DEF q, e
<1>3. G(<<>>, 0)
  <2>1. <<>> \in Seq({})
    OBVIOUS
  <2>2. IsList(<<>>)
    BY <2>1, Zenon DEF IsList
  <2> QED BY <2>2, ParsedEmpty, CutsEmpty, ItemsGrow DEF G
<1>4. CASE n = 0
  <2>1. FlattenSeq(block) = <<>>
    BY <1>1, <1>4 DEF FlattenSeq
  <2> QED BY <1>3, <1>4, <2>1 DEF G
<1>5. CASE n # 0
  <2>1. PICK f : Flattens(f, block, n) /\ FlattenSeq(block) = f[n]
    BY <1>1, <1>5, FlattenRuns
  <2>2. \A i \in 1 .. n : f[i] = IF i = 1 THEN block[i] ELSE f[i - 1] \o block[i]
    BY <2>1 DEF Flattens
  <2> DEFINE S == {j \in Nat : 1 <= j /\ j <= n => G(f[j], j)}
  <2>3. 0 \in S
    OBVIOUS
  <2>4. ASSUME NEW j \in Nat, j \in S PROVE j + 1 \in S
    <3> SUFFICES ASSUME j + 1 <= n PROVE G(f[j + 1], j + 1)
      OBVIOUS
    <3>1. CASE j = 0
      <4>1. 0 + 1 <= n /\ 0 + 1 = 1 /\ 1 \in 1 .. n
        BY <3>1
      <4>2. G(<<>> \o block[1], 1)
        BY <1>2, <1>3, <4>1
      <4>3. IsList(block[1])
        BY <4>1
      <4>4. <<>> \o block[1] = block[1]
        <5>1. PICK X : block[1] \in Seq(X)
          BY <4>3 DEF IsList
        <5> QED BY <5>1, ConcatEmptySeq
      <4>5. f[1] = block[1]
        BY <2>2, <4>1
      <4> QED BY <3>1, <4>2, <4>4, <4>5
    <3>2. CASE j # 0
      <4>1. G(f[j], j)
        BY <2>4, <3>2
      <4> DEFINE q == j + 1
      <4>2. q \in 1 .. n /\ q # 1 /\ q - 1 = j
        BY <3>2
      <4> HIDE DEF q
      <4>3. f[q] = f[j] \o block[q]
        BY <2>2, <4>2
      <4> QED BY <1>2, <4>1, <4>3 DEF q
    <3> QED BY <3>1, <3>2
  <2>5. n \in S
    <3> HIDE DEF S
    <3> QED BY <2>3, <2>4, Induction
  <2> QED BY <1>5, <2>1, <2>5 DEF G
<1> QED BY <1>4, <1>5

\* A board of such footprints.
ProperBoard(b) == IsList(b) /\ \A i \in DOMAIN b : Proper(b[i])

\* The items of the board when its file has been parsed.
BoardItems(b, old) ==
  ItemsUpto(<<Atom("kicad_pcb")>>, [i \in DOMAIN b |-> FootItems(b[i], old)], Len(b))

\* The file of a board parses to one list; cut anywhere, nothing is found in it.
LEMMA ParseBoard ==
  ASSUME NEW b, ProperBoard(b), NEW old \in BOOLEAN
  PROVE  /\ IsList(BoardText(b, old))
         /\ Parsed(Start, BoardText(b, old)) = At(<<>>, <<List(BoardItems(b, old))>>)
         /\ CutsFindNothing(Start, BoardText(b, old))
<1> DEFINE in == << <<>> >>
           cur == <<Atom("kicad_pcb")>>
           n == Len(b)
           block == [i \in 1 .. n |-> FootprintLines(b[i], old)]
           item == [i \in 1 .. n |-> FootItems(b[i], old)]
           u == <<FirstLine>>
           v == FlattenSeq(block)
           w == <<LastLine>>
           full == ItemsUpto(cur, item, n)
<1>1. n \in Nat /\ DOMAIN b = 1 .. n
  BY DEF ProperBoard, IsList
<1>2. BoardText(b, old) = u \o v \o w
  BY <1>1 DEF BoardText, FirstLine, LastLine
<1>3. BoardItems(b, old) = full
  BY <1>1 DEF BoardItems
<1>4. Headed(cur) /\ cur # <<>>
  BY ShortAreHeaded
<1>5. IsList(in) /\ IsList(<<>>) /\ Append(<<>>, <<>>) = in
  <2>1. <<>> \in Seq({})
    OBVIOUS
  <2> QED BY <2>1, ListOfOne DEF IsList
<1>6. Parsed(Start, u) = At(in, cur) /\ CutsFindNothing(Start, u) /\ IsList(u)
  BY OneLine, ParseFirstLine, ListOfOne
<1>7. ASSUME NEW c, NEW i \in 1 .. n, Headed(c), c # <<>>
      PROVE  /\ IsList(block[i])
             /\ Parsed(At(in, c), block[i]) = At(in, Append(c, List(item[i])))
             /\ CutsFindNothing(At(in, c), block[i])
  <2>1. Proper(b[i])
    BY <1>1 DEF ProperBoard
  <2>2. block[i] = FootprintLines(b[i], old) /\ item[i] = FootItems(b[i], old)
    OBVIOUS
  <2> HIDE DEF in, block, item
  <2> QED BY <1>5, <1>7, <2>1, <2>2, ParseFootprint
<1>8. block = [i \in 1 .. n |-> block[i]]
  <2> DEFINE foot(i) == FootprintLines(b[i], old)
  <2> HIDE DEF n, foot
  <2>1. block = [i \in 1 .. n |-> foot(i)]
    BY DEF foot
  <2> QED BY ONLY <2>1
<1> HIDE DEF in, block, item, cur, n, u, v, w, full
<1>9. ParseToLists(in, block, item, n) /\ \A i \in 1 .. n : IsList(block[i])
  BY <1>4, <1>7 DEF ParseToLists
<1>10. Parsed(At(in, cur), v) = At(in, full) /\ CutsFindNothing(At(in, cur), v) /\ IsList(v)
  <2>1. n \in Nat
    BY <1>1
  <2> QED BY ONLY <1>4, <1>8, <1>9, <2>1, ParseBlocks DEF v, full
<1>11. Headed(full)
  BY <1>1, <1>4, ItemsGrow DEF full
<1>12. /\ Parsed(At(in, full), w) = At(<<>>, <<List(full)>>)
       /\ CutsFindNothing(At(in, full), w) /\ IsList(w)
  <2>1. Append(<<>>, List(full)) = <<List(full)>>
    BY ListOfOne
  <2> DEFINE none == <<>>
  <2>2. IsList(none) /\ Append(none, none) = in
    BY <1>5
  <2> HIDE DEF none
  <2>3. /\ ParseLine(At(Append(none, none), full), LastLine) = At(none, Append(none, List(full)))
        /\ LineCuts(At(Append(none, none), full), LastLine)
    BY <1>11, <2>2, ParseLastLine
  <2>4. /\ ParseLine(At(in, full), LastLine) = At(<<>>, <<List(full)>>)
        /\ LineCuts(At(in, full), LastLine)
    BY <2>1, <2>2, <2>3 DEF none
  <2> QED BY <2>4, OneLine, ListOfOne DEF w
<1>13. Parsed(Start, u \o v) = At(in, full) /\ CutsFindNothing(Start, u \o v) /\ IsList(u \o v)
  BY <1>6, <1>10, ParseParts
<1>14. /\ IsList(u \o v \o w) /\ CutsFindNothing(Start, u \o v \o w)
       /\ Parsed(Start, u \o v \o w) = At(<<>>, <<List(full)>>)
  <2> DEFINE uv == u \o v
  <2>1. Parsed(Start, uv) = At(in, full) /\ CutsFindNothing(Start, uv) /\ IsList(uv)
    BY <1>13
  <2> HIDE DEF uv
  <2>2. /\ IsList(uv \o w) /\ CutsFindNothing(Start, uv \o w)
        /\ Parsed(Start, uv \o w) = At(<<>>, <<List(full)>>)
    BY <1>12, <2>1, ParseParts
  <2> QED BY <2>2 DEF uv
<1> QED BY <1>2, <1>3, <1>14

\* A file cut short parses to a state in which load() would find nothing.
LEMMA ParseCut ==
  ASSUME NEW whole, IsList(whole), CutsFindNothing(Start, whole),
         NEW k \in DOMAIN whole, NEW t \in CutAt(whole, k)
  PROVE  FindsNothing(Parse(t))
<1>1. PICK X : whole \in Seq(X)
  BY DEF IsList
<1>2. k \in 1 .. Len(whole)
  BY <1>1
<1>3. PICK j \in 0 .. Len(whole[k]) - 1 :
        t = Append(SubSeq(whole, 1, k - 1), SubSeq(whole[k], 1, j))
  BY DEF CutAt
<1> DEFINE u == SubSeq(whole, 1, k - 1)
           l == SubSeq(whole[k], 1, j)
<1>4. u \in Seq(X)
  BY <1>1, <1>2
<1>5. FindsNothing(ParseLine(Parsed(Start, u), l))
  BY <1>2 DEF CutsFindNothing, LineCuts
<1> HIDE DEF u, l
<1>6. Parsed(Start, Append(u, l)) = ParseLine(Parsed(Start, u), l)
  BY <1>4, ParsedAppend
<1>7. Parse(t) = Parsed(Start, Append(u, l))
  BY <1>3 DEF Parse, Parsed, Start, u, l
<1> QED BY <1>5, <1>6, <1>7

-----------------------------------------------------------------------------
(* What load() makes of a file that is whole. *)

\* Kids that are neighbours are listed in their order.
LEMMA KidsInterval ==
  ASSUME NEW items, IsList(items), NEW name, NEW a \in Nat, NEW b \in Nat,
         0 < a, a <= b + 1, b <= Len(items),
         \A k \in 1 .. Len(items) : IsKid(items[k], name) <=> k \in a .. b
  PROVE  Kids(items, name) = Slice(items, a, b)
<1>1. PICK X : items \in Seq(X)
  BY DEF IsList
<1> DEFINE good == {k \in 1 .. Len(items) : IsKid(items[k], name)}
<1>2. good = a .. b
  <2>1. Len(items) \in Nat
    BY <1>1
  <2> QED BY <2>1
<1>3. Len(items) \in Nat
  BY <1>1
<1>4. PICK f : Selects(f, items, good, Len(items)) /\ Kids(items, name) = f[Len(items)]
  BY <1>3, KidsRun
<1> HIDE DEF good
<1>5. f[Len(items)] = Slice(items, a, b)
  <2>1. Selects(f, items, a .. b, Len(items))
    BY <1>2, <1>4
  <2> QED BY <1>1, <2>1, SelectInterval
<1> QED BY <1>4, <1>5

\* No kids.
LEMMA NoKids ==
  ASSUME NEW items, IsList(items), NEW name, \A k \in 1 .. Len(items) : ~IsKid(items[k], name)
  PROVE  Kids(items, name) = <<>>
<1> DEFINE a == 1
           b == 0
<1>1. Len(items) \in Nat
  BY DEF IsList
<1>2. /\ a \in Nat /\ b \in Nat /\ 0 < a /\ a <= b + 1 /\ b <= Len(items)
      /\ 1 .. b - a + 1 = {}
      /\ \A k \in 1 .. Len(items) : IsKid(items[k], name) <=> k \in a .. b
  BY <1>1
<1> HIDE DEF a, b
<1>3. Kids(items, name) = Slice(items, a, b)
  BY <1>2, KidsInterval
<1> QED BY <1>2, <1>3 DEF Slice

\* One kid.
LEMMA OneKid ==
  ASSUME NEW items, IsList(items), NEW name, NEW k \in 1 .. Len(items),
         \A i \in 1 .. Len(items) : IsKid(items[i], name) <=> i = k
  PROVE  Kids(items, name) = <<items[k]>>
<1> DEFINE a == k
           b == k
<1>1. /\ a \in Nat /\ b \in Nat /\ 0 < a /\ a <= b + 1 /\ b <= Len(items)
      /\ b - a + 1 = 1 /\ \A i \in 1 .. 1 : a + i - 1 = k
      /\ \A i \in 1 .. Len(items) : IsKid(items[i], name) <=> i \in a .. b
  BY DEF IsList
<1> HIDE DEF a, b
<1>2. Kids(items, name) = Slice(items, a, b)
  BY <1>1, KidsInterval
<1>3. Kids(items, name) = [i \in 1 .. 1 |-> items[k]]
  BY <1>1, <1>2 DEF Slice
<1> QED BY <1>3

\* One property, which has the key.
LEMMA KeyedOne ==
  ASSUME NEW p, Len(p.list) > 2, NEW key, p.list[2] = Atom(key)
  PROVE  Keyed(<<p>>, key) = <<p>>
<1> USE DEF HasKey
<1> DEFINE props == <<p>>
           a == 1
           b == 1
           good == {k \in 1 .. Len(props) : HasKey(props[k], key)}
<1>1. props \in Seq({p}) /\ Len(props) = 1 /\ props[1] = p
  OBVIOUS
<1> HIDE DEF props
<1>2. good = 1 .. 1
  BY <1>1
<1>3. PICK f : Selects(f, props, good, Len(props)) /\ Keyed(props, key) = f[Len(props)]
  <2>1. Len(props) \in Nat
    BY <1>1
  <2> QED BY <2>1, KeyedRun, Zenon
<1> HIDE DEF good
<1>4. /\ Selects(f, props, a .. b, Len(props))
      /\ a \in Nat /\ b \in Nat /\ 0 < a /\ a <= b + 1 /\ b <= Len(props)
      /\ b - a + 1 = 1 /\ \A i \in 1 .. 1 : a + i - 1 = 1
  BY <1>1, <1>2, <1>3
<1> HIDE DEF a, b
<1>5. f[Len(props)] = [i \in 1 .. b - a + 1 |-> props[a + i - 1]]
  <2>1. f[Len(props)] = Slice(props, a, b)
    BY <1>1, <1>4, SelectInterval
  <2> QED BY <2>1 DEF Slice
<1>6. f[Len(props)] = [i \in 1 .. 1 |-> p]
  BY <1>1, <1>4, <1>5
<1> QED BY <1>3, <1>6 DEF props

\* What ItemsUpto lists.
LEMMA ItemsFacts ==
  ASSUME NEW cur, IsList(cur), NEW item, NEW n \in Nat
  PROVE  /\ IsList(ItemsUpto(cur, item, n))
         /\ Len(ItemsUpto(cur, item, n)) = Len(cur) + n
         /\ \A i \in 1 .. Len(cur) : ItemsUpto(cur, item, n)[i] = cur[i]
         /\ \A i \in 1 .. n : ItemsUpto(cur, item, n)[Len(cur) + i] = List(item[i])
<1> DEFINE t == [i \in 1 .. n |-> List(item[i])]
           Y == {List(item[i]) : i \in 1 .. n}
           all == cur \o t
<1>1. PICK X : cur \in Seq(X)
  BY DEF IsList
<1> DEFINE Z == X \union Y
<1>2. cur \in Seq(Z) /\ Len(cur) \in Nat
  BY <1>1
<1>3. t \in Seq(Z) /\ Len(t) = n /\ \A i \in 1 .. n : t[i] = List(item[i])
  <2>1. \A i \in 1 .. n : List(item[i]) \in Z
    OBVIOUS
  <2> HIDE DEF Z
  <2> QED BY <2>1
<1> HIDE DEF Z, t
<1>4. t \in Seq(Z) /\ cur \in Seq(Z)
  BY <1>2, <1>3
<1>5. /\ all \in Seq(Z) /\ Len(all) = Len(cur) + Len(t)
      /\ \A i \in 1 .. Len(cur) + Len(t) :
           all[i] = IF i <= Len(cur) THEN cur[i] ELSE t[i - Len(cur)]
  BY <1>4, ConcatProperties
<1> HIDE DEF all
<1>6. IsList(all)
  BY <1>5, Zenon DEF IsList
<1>7. ASSUME NEW i \in 1 .. Len(cur) PROVE all[i] = cur[i]
  BY <1>2, <1>3, <1>5
<1>8. ASSUME NEW i \in 1 .. n PROVE all[Len(cur) + i] = List(item[i])
  <2> DEFINE q == Len(cur) + i
  <2>1. q \in 1 .. Len(cur) + Len(t) /\ ~(q <= Len(cur)) /\ q - Len(cur) = i
    BY <1>2, <1>3
  <2> HIDE DEF q
  <2>2. all[q] = t[i]
    BY <1>5, <2>1
  <2> QED BY <1>3, <2>2 DEF q
<1> QED BY <1>3, <1>5, <1>6, <1>7, <1>8 DEF ItemsUpto, all, t

\* A word is no kid.
LEMMA AtomFacts ==
  ASSUME NEW a
  PROVE  Atom(a).atom = a /\ \A name : ~IsKid(Atom(a), name)
BY DEF IsAtom, IsKid, Atom

\* A list is the kid its first word says.
LEMMA ListFacts ==
  ASSUME NEW l
  PROVE  /\ ~IsAtom(List(l)) /\ List(l).list = l
         /\ \A name : IsKid(List(l), name) <=> l # <<>> /\ l[1] = Atom(name)
BY DEF IsAtom, IsKid, List

\* Two words are two atoms.
LEMMA AtomsDiffer ==
  ASSUME NEW a, NEW b, a # b
  PROVE  Atom(a) # Atom(b)
<1>1. Atom(a).atom = a /\ Atom(b).atom = b
  BY DEF Atom
<1> QED BY <1>1

\* load() reads a pad as KiCad wrote it, with the net's code or without.
LEMMA LoadPadItems ==
  ASSUME NEW pad, pad = [num |-> pad.num, net |-> pad.net], NEW old \in BOOLEAN
  PROVE  LoadPad(PadItems(pad, old)) = pad
<1> DEFINE items == PadItems(pad, old)
           net == NetItems(pad, old)
           netn == Kids(items, "net")
<1>1. LoadPad(items) = [num |-> items[2].atom,
                        net |-> IF netn = <<>> THEN NoNet ELSE PadNet(netn[1].list)]
  BY DEF LoadPad
<1>2. CASE pad.net = NoNet
  <2>1. items = <<Atom("pad"), Atom(pad.num)>>
    BY <1>2 DEF PadItems
  <2> HIDE DEF items
  <2>2. IsList(items) /\ Len(items) = 2 /\ items[1] = Atom("pad") /\ items[2] = Atom(pad.num)
    BY <2>1, ListOfTwo
  <2>3. ASSUME NEW k \in 1 .. Len(items)
        PROVE  ~IsKid(items[k], "net")
    <3>1. k = 1 \/ k = 2
      BY <2>2
    <3>2. ~IsKid(items[1], "net") /\ ~IsKid(items[2], "net")
      BY <2>2, AtomFacts
    <3> QED BY <3>1, <3>2
  <2>5. Kids(items, "net") = <<>>
    BY <2>2, <2>3, NoKids
  <2>6. items[2].atom = pad.num
    BY <2>2, AtomFacts
  <2> QED BY <1>1, <1>2, <2>5, <2>6 DEF items
<1>3. CASE pad.net # NoNet
  <2>1. items = <<Atom("pad"), Atom(pad.num), List(net)>>
    BY <1>3 DEF PadItems
  <2>2. net # <<>> /\ net[1] = Atom("net") /\ PadNet(net) = pad.net
    <3>1. CASE old
      <4>1. net = <<Atom("net"), Atom("7"), Atom(pad.net)>>
        BY <3>1 DEF NetItems
      <4> HIDE DEF net
      <4>2. Len(net) = 3 /\ net[1] = Atom("net") /\ net[3] = Atom(pad.net)
        BY <4>1
      <4>3. PadNet(net) = net[3].atom
        BY <4>2 DEF PadNet
      <4> QED BY <4>1, <4>2, <4>3, AtomFacts
    <3>2. CASE ~old
      <4>1. net = <<Atom("net"), Atom(pad.net)>>
        BY <3>2 DEF NetItems
      <4> HIDE DEF net
      <4>2. Len(net) = 2 /\ net[1] = Atom("net") /\ net[2] = Atom(pad.net)
        BY <4>1
      <4>3. PadNet(net) = net[2].atom
        BY <4>2 DEF PadNet
      <4> QED BY <4>1, <4>2, <4>3, AtomFacts
    <3> QED BY <3>1, <3>2
  <2> HIDE DEF items, net
  <2>3. /\ IsList(items) /\ Len(items) = 3 /\ items[1] = Atom("pad") /\ items[2] = Atom(pad.num)
        /\ items[3] = List(net)
    <3> DEFINE x == List(net)
    <3>1. items = <<Atom("pad"), Atom(pad.num), x>>
      BY <2>1
    <3> HIDE DEF x
    <3>2. /\ IsList(items) /\ Len(items) = 3 /\ items[1] = Atom("pad") /\ items[2] = Atom(pad.num)
          /\ items[3] = x
      BY <3>1, ListOfThree
    <3> QED BY <3>2 DEF x
  <2>4. ASSUME NEW k \in 1 .. Len(items)
        PROVE  IsKid(items[k], "net") <=> k = 3
    <3>1. k = 1 \/ k = 2 \/ k = 3
      BY <2>3
    <3>2. ~IsKid(items[1], "net") /\ ~IsKid(items[2], "net") /\ IsKid(items[3], "net")
      BY <2>2, <2>3, AtomFacts, ListFacts
    <3> QED BY <3>1, <3>2
  <2> DEFINE found == Kids(items, "net")
  <2>5. found = <<items[3]>>
    <3> DEFINE q == 3
    <3>1. q \in 1 .. Len(items) /\ \A k \in 1 .. Len(items) : IsKid(items[k], "net") <=> k = q
      BY <2>3, <2>4
    <3> HIDE DEF q
    <3>2. Kids(items, "net") = <<items[q]>>
      BY <2>3, <3>1, OneKid
    <3> QED BY <3>2 DEF q
  <2> HIDE DEF found
  <2>6. found # <<>> /\ found[1] = items[3]
    BY <2>5
  <2>7. found[1].list = net /\ items[2].atom = pad.num
    <3>1. List(net).list = net /\ Atom(pad.num).atom = pad.num
      BY AtomFacts, ListFacts
    <3> QED BY <2>3, <2>6, <3>1
  <2> QED BY <1>1, <2>2, <2>6, <2>7 DEF found, items
<1> QED BY <1>2, <1>3

\* The records of a board, and nothing else.
ExactFootprint(f) ==
  /\ Proper(f)
  /\ f = [ref |-> f.ref, pads |-> f.pads]
  /\ \A i \in DOMAIN f.pads : f.pads[i] = [num |-> f.pads[i].num, net |-> f.pads[i].net]

\* A pad is a kid of that name.
LEMMA PadItemsHead ==
  ASSUME NEW pad, NEW old
  PROVE  PadItems(pad, old) # <<>> /\ PadItems(pad, old)[1] = Atom("pad")
<1>1. \A a, b : <<a, b>> # <<>> /\ <<a, b>>[1] = a
  OBVIOUS
<1>2. \A a, b, c : <<a, b, c>> # <<>> /\ <<a, b, c>>[1] = a
  OBVIOUS
<1> QED BY <1>1, <1>2 DEF PadItems

\* load() reads a footprint as KiCad wrote it.
LEMMA LoadFootItems ==
  ASSUME NEW f, ExactFootprint(f), NEW old \in BOOLEAN
  PROVE  LoadFootprint(FootItems(f, old)) = f
<1> DEFINE n == Len(f.pads)
           head == HeadItems(f.ref)
           prop == Property(f.ref)
           item == [i \in DOMAIN f.pads |-> PadItems(f.pads[i], old)]
           items == FootItems(f, old)
           three == 3
<1>1. n \in Nat /\ DOMAIN f.pads = 1 .. n /\ \E X : f.pads \in Seq(X)
  BY DEF ExactFootprint, Proper, IsList
<1>2. /\ IsList(head) /\ Len(head) = three /\ head[1] = Atom("footprint") /\ head[2] = Atom("Lib")
      /\ head[3] = List(prop)
  <2> DEFINE x == List(prop)
             t == <<Atom("footprint"), Atom("Lib"), x>>
  <2>1. head = t
    BY DEF HeadItems
  <2> HIDE DEF x
  <2>2. IsList(t) /\ Len(t) = 3 /\ t[1] = Atom("footprint") /\ t[2] = Atom("Lib") /\ t[3] = x
    BY ListOfThree
  <2> HIDE DEF t
  <2> QED BY <2>1, <2>2 DEF x
<1>3. /\ Len(prop) = 3 /\ prop # <<>> /\ prop[1] = Atom("property") /\ prop[2] = Atom("Reference")
      /\ prop[3] = Atom(f.ref)
  BY DEF Property
<1>4. three \in Nat /\ three = 3
  OBVIOUS
<1> HIDE DEF three, prop, head
<1>5. items = ItemsUpto(head, item, n)
  BY DEF FootItems, head
<1>6. \A i \in 1 .. n : item[i] = PadItems(f.pads[i], old)
  BY <1>1
<1> HIDE DEF items, item, n
<1>7. /\ IsList(items) /\ Len(items) = three + n
      /\ \A i \in 1 .. three : items[i] = head[i]
      /\ \A i \in 1 .. n : items[three + i] = List(item[i])
  <2>1. /\ IsList(items) /\ Len(items) = Len(head) + n
        /\ \A i \in 1 .. Len(head) : items[i] = head[i]
        /\ \A i \in 1 .. n : items[Len(head) + i] = List(item[i])
    <3>1. IsList(head) /\ n \in Nat
      BY <1>1, <1>2
    <3> QED BY <1>5, <3>1, ItemsFacts
  <2> QED BY <1>2, <2>1
<1>8. items[1] = Atom("footprint") /\ items[2] = Atom("Lib") /\ items[3] = List(prop)
  BY <1>2, <1>4, <1>7
<1>9. Atom("pad") # Atom("property")
  BY AtomsDiffer
<1>10. \A k \in 1 .. three + n : k = 1 \/ k = 2 \/ k = 3 \/ \E i \in 1 .. n : k = three + i
  <2> TAKE k \in 1 .. three + n
  <2>1. k > three => k - three \in 1 .. n /\ k = three + (k - three)
    BY <1>1, <1>4
  <2>2. k > three => \E i \in 1 .. n : k = three + i
    BY <2>1, Zenon
  <2> QED BY <1>1, <1>4, <2>2
<1>11. \A i \in 1 .. n : /\ IsKid(items[three + i], "pad") /\ ~IsKid(items[three + i], "property")
                         /\ items[three + i].list = PadItems(f.pads[i], old)
  BY <1>6, <1>7, <1>9, ListFacts, PadItemsHead
<1>12. /\ ~IsKid(items[1], "pad") /\ ~IsKid(items[2], "pad") /\ ~IsKid(items[3], "pad")
       /\ ~IsKid(items[1], "property") /\ ~IsKid(items[2], "property")
       /\ IsKid(items[3], "property")
  BY <1>3, <1>8, <1>9, AtomFacts, ListFacts
<1> DEFINE pds == Kids(items, "pad")
           props == Kids(items, "property")
<1>13. pds = [i \in 1 .. n |-> items[three + i]]
  <2> DEFINE a == three + 1
             b == three + n
  <2>1. /\ a \in Nat /\ b \in Nat /\ 0 < a /\ a <= b + 1 /\ b <= Len(items) /\ b - a + 1 = n
        /\ \A i \in 1 .. n : a + i - 1 = three + i
    BY <1>1, <1>4, <1>7
  <2>2. \A k \in 1 .. Len(items) : IsKid(items[k], "pad") <=> k \in a .. b
    <3> SUFFICES ASSUME NEW k \in 1 .. three + n
                 PROVE  IsKid(items[k], "pad") <=> k \in a .. b
      BY <1>7
    <3>1. CASE k = 1 \/ k = 2 \/ k = 3
      <4>1. k \notin a .. b
        BY <1>4, <3>1
      <4> QED BY <1>12, <3>1, <4>1
    <3>2. CASE \E i \in 1 .. n : k = three + i
      <4>1. k \in a .. b
        BY <1>1, <1>4, <3>2
      <4> QED BY <1>11, <3>2, <4>1
    <3> QED BY <1>10, <3>1, <3>2
  <2> HIDE DEF a, b
  <2>3. Kids(items, "pad") = Slice(items, a, b)
    <3>1. IsList(items) /\ a \in Nat /\ b \in Nat /\ 0 < a /\ a <= b + 1 /\ b <= Len(items)
      BY <1>7, <2>1
    <3> QED BY <2>2, <3>1, KidsInterval
  <2> QED BY <2>1, <2>3 DEF Slice
<1>14. props = <<items[three]>>
  <2>1. \A k \in 1 .. Len(items) : IsKid(items[k], "property") <=> k = three
    <3> SUFFICES ASSUME NEW k \in 1 .. three + n
                 PROVE  IsKid(items[k], "property") <=> k = three
      BY <1>7
    <3>1. CASE k = 1 \/ k = 2 \/ k = 3
      BY <1>4, <1>12, <3>1
    <3>2. CASE \E i \in 1 .. n : k = three + i
      <4>1. k # three
        BY <1>1, <1>4, <3>2
      <4> QED BY <1>11, <3>2, <4>1
    <3> QED BY <1>10, <3>1, <3>2
  <2>2. three \in 1 .. Len(items)
    BY <1>1, <1>4, <1>7
  <2> QED BY <1>7, <2>1, <2>2, OneKid
<1>15. Prop(items, "Reference") = f.ref
  <2> DEFINE p == items[three]
             found == Keyed(props, "Reference")
  <2>1. p.list = prop
    BY <1>4, <1>8, ListFacts
  <2>2. Len(p.list) > 2 /\ p.list[2] = Atom("Reference")
    BY <1>3, <2>1
  <2> HIDE DEF p
  <2>3. Keyed(<<p>>, "Reference") = <<p>>
    BY <2>2, KeyedOne
  <2>4. found = <<p>>
    BY <1>14, <2>3 DEF p
  <2>5. found # <<>> /\ found[1] = p
    <3> HIDE DEF found
    <3> QED BY <2>4
  <2>6. Prop(items, "Reference") = IF found = <<>> THEN "?" ELSE found[1].list[3].atom
    BY DEF Prop, Keyed
  <2> HIDE DEF found
  <2>7. found[1].list[3].atom = f.ref
    BY <1>3, <2>1, <2>5, AtomFacts
  <2> QED BY <2>5, <2>6, <2>7
<1>16. [i \in DOMAIN pds |-> LoadPad(pds[i].list)] = f.pads
  <2>1. DOMAIN pds = 1 .. n
    BY <1>13
  <2>2. ASSUME NEW i \in 1 .. n PROVE LoadPad(pds[i].list) = f.pads[i]
    <3>1. pds[i].list = PadItems(f.pads[i], old)
      BY <1>11, <1>13
    <3>2. f.pads[i] = [num |-> f.pads[i].num, net |-> f.pads[i].net]
      BY <1>1 DEF ExactFootprint
    <3> QED BY <3>1, <3>2, LoadPadItems
  <2>3. f.pads = [i \in 1 .. n |-> f.pads[i]]
    BY <1>1
  <2> HIDE DEF pds
  <2> QED BY <2>1, <2>2, <2>3
<1>17. LoadFootprint(items) = [ref |-> f.ref, pads |-> f.pads]
  BY <1>15, <1>16 DEF LoadFootprint
<1> QED BY <1>17 DEF ExactFootprint, items

\* A board of such footprints.
ExactBoard(b) == IsList(b) /\ \A i \in DOMAIN b : ExactFootprint(b[i])

\* load() reads what KiCad wrote.
LEMMA LoadBoard ==
  ASSUME NEW b, ExactBoard(b), NEW old \in BOOLEAN
  PROVE  Footprints(List(BoardItems(b, old))) = b
<1> DEFINE n == Len(b)
           head == <<Atom("kicad_pcb")>>
           item == [i \in DOMAIN b |-> FootItems(b[i], old)]
           items == BoardItems(b, old)
           found == Kids(items, "footprint")
           one == 1
<1>1. n \in Nat /\ DOMAIN b = 1 .. n /\ b = [i \in 1 .. n |-> b[i]]
  BY DEF ExactBoard, IsList
<1>2. IsList(head) /\ Len(head) = one /\ head[1] = Atom("kicad_pcb")
  BY ListOfOne
<1>3. one \in Nat /\ one = 1
  OBVIOUS
<1> HIDE DEF one, head
<1>4. items = ItemsUpto(head, item, n)
  BY DEF BoardItems, head
<1>5. \A i \in 1 .. n : item[i] = FootItems(b[i], old)
  BY <1>1
<1> HIDE DEF items, item, n
<1>6. /\ IsList(items) /\ Len(items) = one + n
      /\ \A i \in 1 .. one : items[i] = head[i]
      /\ \A i \in 1 .. n : items[one + i] = List(item[i])
  <2>1. /\ IsList(items) /\ Len(items) = Len(head) + n
        /\ \A i \in 1 .. Len(head) : items[i] = head[i]
        /\ \A i \in 1 .. n : items[Len(head) + i] = List(item[i])
    <3>1. IsList(head) /\ n \in Nat
      BY <1>1, <1>2
    <3> QED BY <1>4, <3>1, ItemsFacts
  <2> QED BY <1>2, <2>1
<1>7. ~IsKid(items[1], "footprint")
  BY <1>2, <1>3, <1>6, AtomFacts
<1>8. ASSUME NEW i \in 1 .. n
      PROVE  /\ IsKid(items[one + i], "footprint")
             /\ items[one + i].list = FootItems(b[i], old)
  <2> DEFINE f == b[i]
             h == HeadItems(f.ref)
             l == FootItems(f, old)
             all == [j \in DOMAIN f.pads |-> PadItems(f.pads[j], old)]
  <2>1. ExactFootprint(f)
    BY <1>1 DEF ExactBoard
  <2>2. IsList(h) /\ Len(h) = 3 /\ h[1] = Atom("footprint") /\ Len(f.pads) \in Nat
    <3> DEFINE x == List(Property(f.ref))
    <3>1. h = <<Atom("footprint"), Atom("Lib"), x>>
      BY DEF HeadItems
    <3> HIDE DEF x, h
    <3>2. IsList(h) /\ Len(h) = 3 /\ h[1] = Atom("footprint")
      BY <3>1, ListOfThree
    <3>3. Len(f.pads) \in Nat
      BY <2>1 DEF ExactFootprint, Proper, IsList
    <3> QED BY <3>2, <3>3
  <2>3. l = ItemsUpto(h, all, Len(f.pads))
    BY DEF FootItems
  <2> HIDE DEF f, h, l, all
  <2>4. IsList(l) /\ Len(l) = Len(h) + Len(f.pads) /\ \A j \in 1 .. Len(h) : l[j] = h[j]
    <3> DEFINE m == Len(f.pads)
    <3>1. IsList(h) /\ m \in Nat /\ l = ItemsUpto(h, all, m)
      BY <2>2, <2>3
    <3> HIDE DEF m
    <3>2. IsList(l) /\ Len(l) = Len(h) + m /\ \A j \in 1 .. Len(h) : l[j] = h[j]
      BY <3>1, ItemsFacts
    <3> QED BY <3>2 DEF m
  <2>5. l[1] = Atom("footprint") /\ l # <<>>
    BY <2>2, <2>4
  <2>6. items[one + i] = List(l)
    BY <1>5, <1>6 DEF l, f
  <2> QED BY <2>5, <2>6, ListFacts DEF l, f
<1>9. found = [i \in 1 .. n |-> items[one + i]]
  <2> DEFINE a == one + 1
             c == one + n
  <2>1. /\ a \in Nat /\ c \in Nat /\ 0 < a /\ a <= c + 1 /\ c <= Len(items) /\ c - a + 1 = n
        /\ \A i \in 1 .. n : a + i - 1 = one + i
    BY <1>1, <1>3, <1>6
  <2>2. \A k \in 1 .. Len(items) : IsKid(items[k], "footprint") <=> k \in a .. c
    <3> SUFFICES ASSUME NEW k \in 1 .. one + n
                 PROVE  IsKid(items[k], "footprint") <=> k \in a .. c
      BY <1>6
    <3>1. CASE k = 1
      BY <1>3, <1>7, <3>1
    <3>2. CASE k # 1
      <4> DEFINE i == k - one
      <4>1. i \in 1 .. n /\ k = one + i /\ k \in a .. c
        BY <1>1, <1>3, <3>2
      <4> HIDE DEF i
      <4> QED BY <1>8, <4>1
    <3> QED BY <3>1, <3>2
  <2> HIDE DEF a, c
  <2>3. Kids(items, "footprint") = Slice(items, a, c)
    <3>1. IsList(items) /\ a \in Nat /\ c \in Nat /\ 0 < a /\ a <= c + 1 /\ c <= Len(items)
      BY <1>6, <2>1
    <3> QED BY <2>2, <3>1, KidsInterval
  <2> QED BY <2>1, <2>3 DEF Slice
<1>10. Footprints(List(items)) = [i \in DOMAIN found |-> LoadFootprint(found[i].list)]
  BY ListFacts DEF Footprints
<1> HIDE DEF found
<1>11. DOMAIN found = 1 .. n
  BY <1>9
<1>12. ASSUME NEW i \in 1 .. n PROVE LoadFootprint(found[i].list) = b[i]
  <2>1. found[i].list = FootItems(b[i], old)
    BY <1>8, <1>9
  <2>2. ExactFootprint(b[i])
    BY <1>1 DEF ExactBoard
  <2> QED BY <2>1, <2>2, LoadFootItems
<1> QED BY <1>1, <1>10, <1>11, <1>12 DEF items

-----------------------------------------------------------------------------
(* The boards of a design. *)

\* Sorted lists a set, each member once.
LEMMA SortedFacts ==
  ASSUME NEW X, NEW order \in Seq(X), IsInjective(order), NEW S, S \subseteq Range(order)
  PROVE  Sorted(S, order) \in Seq(X) /\ Range(Sorted(S, order)) = S /\ IsInjective(Sorted(S, order))
<1> DEFINE good == {k \in 1 .. Len(order) : order[k] \in S}
           r == Sorted(S, order)
<1>1. Len(order) \in Nat /\ DOMAIN order = 1 .. Len(order) /\ good \subseteq 1 .. Len(order)
  OBVIOUS
<1>2. PICK f : Selects(f, order, good, Len(order)) /\ r = f[Len(order)]
  BY <1>1, SortedRun
<1>3. Picked(order, good) = S
  BY <1>1 DEF Range, Picked
<1> HIDE DEF good, r
<1>4. r \in Seq(X) /\ Range(r) = Picked(order, good) /\ IsInjective(r)
  BY <1>1, <1>2, SelectFacts
<1> QED BY <1>3, <1>4 DEF r

\* The orders of sorted() list what they must, once each.
LEMMA OrdersOk ==
  /\ RefOrder \in Seq(Range(RefOrder)) /\ IsInjective(RefOrder)
  /\ \A x \in Range(RefOrder) : IsWord(x)
  /\ PinOrder \in Seq(1 .. 10) /\ IsInjective(PinOrder) /\ Range(PinOrder) = 1 .. 10
  /\ \A x \in Range(NetOrder) : IsWord(x) /\ x # NoNet
  /\ Range(RefOrder) = {"J3", "J4", "R_mclk", "U1", "U2", "U4"}
  /\ Range(NetOrder) = {"+3V3", "+5V", "GND", "MCLK", "MCLK_SRC", "SPARE"}
<1> DEFINE S == {"J3", "J4", "R_mclk", "U1", "U2", "U4"}
<1>1. /\ RefOrder \in Seq(S) /\ DOMAIN RefOrder = 1 .. 6
      /\ RefOrder[1] = "J3" /\ RefOrder[2] = "J4" /\ RefOrder[3] = "R_mclk"
      /\ RefOrder[4] = "U1" /\ RefOrder[5] = "U2" /\ RefOrder[6] = "U4"
  BY DEF RefOrder
<1>2. \A i \in 1 .. 6 : i = 1 \/ i = 2 \/ i = 3 \/ i = 4 \/ i = 5 \/ i = 6
  OBVIOUS
<1>3. IsInjective(RefOrder)
  BY <1>1, <1>2 DEF IsInjective
<1>4. Range(RefOrder) = {"J3", "J4", "R_mclk", "U1", "U2", "U4"}
  BY <1>1, <1>2 DEF Range
<1>5. \A x \in Range(RefOrder) : IsWord(x)
  BY <1>4 DEF IsWord
<1>6. /\ PinOrder \in Seq(1 .. 10) /\ DOMAIN PinOrder = 1 .. 10
      /\ \A i \in 1 .. 10 : PinOrder[i] = i
  BY DEF PinOrder
<1>7. IsInjective(PinOrder)
  BY <1>6 DEF IsInjective
<1>8. Range(PinOrder) = 1 .. 10
  BY <1>6 DEF Range
<1>9. /\ DOMAIN NetOrder = 1 .. 6
      /\ NetOrder[1] = "+3V3" /\ NetOrder[2] = "+5V" /\ NetOrder[3] = "GND"
      /\ NetOrder[4] = "MCLK" /\ NetOrder[5] = "MCLK_SRC" /\ NetOrder[6] = "SPARE"
  BY DEF NetOrder
<1>10. Range(NetOrder) = {"+3V3", "+5V", "GND", "MCLK", "MCLK_SRC", "SPARE"}
  BY <1>2, <1>9 DEF Range
<1>11. \A x \in Range(NetOrder) : IsWord(x) /\ x # NoNet
  BY <1>10 DEF IsWord, NoNet
<1>12. RefOrder \in Seq(Range(RefOrder))
  BY <1>1, <1>4
<1> QED BY <1>3, <1>4, <1>5, <1>6, <1>7, <1>8, <1>10, <1>11, <1>12

\* A pin is written as a word, and no two pins alike.
LEMMA StrFacts ==
  /\ \A p \in 1 .. 10 : IsWord(Str(p))
  /\ \A p, q \in 1 .. 10 : Str(p) = Str(q) => p = q
<1>1. /\ Str(1) = "1" /\ Str(2) = "2" /\ Str(3) = "3" /\ Str(4) = "4" /\ Str(5) = "5"
      /\ Str(6) = "6" /\ Str(7) = "7" /\ Str(8) = "8" /\ Str(9) = "9" /\ Str(10) = "10"
  BY DEF Str
<1>2. \A p \in 1 .. 10 : \/ p = 1 \/ p = 2 \/ p = 3 \/ p = 4 \/ p = 5
                         \/ p = 6 \/ p = 7 \/ p = 8 \/ p = 9 \/ p = 10
  OBVIOUS
<1>3. ASSUME NEW p \in 1 .. 10 PROVE IsWord(Str(p))
  BY <1>1, <1>2 DEF IsWord
<1>4. ASSUME NEW p \in 1 .. 10, NEW q \in 1 .. 10, Str(p) = Str(q) PROVE p = q
  BY <1>1, <1>2, <1>4
<1> QED BY <1>3, <1>4

\* What gen.py's tables are: names that are words, nodes that are pins of
\* parts, each in one place.
TableOk(t) ==
  /\ DOMAIN t.comp \subseteq Range(RefOrder)
  /\ \A r \in DOMAIN t.comp : t.comp[r].pins \subseteq 1 .. 10
  /\ DOMAIN t.nets \subseteq Range(NetOrder)
  /\ \A net \in DOMAIN t.nets : t.nets[net] \in Seq(PinsOf(t.comp))
  /\ OneNet(t.nets)

\* The nodes of a table are those its nets list.
LEMMA NodesAre ==
  ASSUME NEW nets
  PROVE  \A n : n \in Nodes(nets) <=> \E net \in DOMAIN nets : n \in Range(nets[net])
<1> TAKE n
<1>1. ASSUME NEW p \in Places(nets), n = NodeAt(nets, p)
      PROVE  \E net \in DOMAIN nets : n \in Range(nets[net])
  <2>1. PICK net \in DOMAIN nets : p \in {net} \X DOMAIN nets[net]
    BY DEF Places
  <2>2. p[1] = net /\ p[2] \in DOMAIN nets[net]
    BY <2>1
  <2>3. n \in Range(nets[net])
    BY <1>1, <2>2 DEF NodeAt, Range
  <2> QED BY <2>3
<1>2. ASSUME NEW net \in DOMAIN nets, n \in Range(nets[net])
      PROVE  n \in Nodes(nets)
  <2>1. PICK i \in DOMAIN nets[net] : n = nets[net][i]
    BY <1>2 DEF Range
  <2>2. <<net, i>> \in Places(nets)
    BY DEF Places
  <2>3. NodeAt(nets, <<net, i>>) = n
    BY <2>1 DEF NodeAt
  <2> QED BY <2>2, <2>3 DEF Nodes
<1> QED BY <1>1, <1>2 DEF Nodes

\* The net of a node lists it, or no net does.
LEMMA NetOfFacts ==
  ASSUME NEW t, TableOk(t), NEW n
  PROVE  \/ /\ NetOf(t, n) = NoNet
            /\ \A net \in DOMAIN t.nets : n \notin Range(t.nets[net])
         \/ /\ NetOf(t, n) \in DOMAIN t.nets /\ n \in Range(t.nets[NetOf(t, n)])
            /\ NetOf(t, n) # NoNet /\ IsWord(NetOf(t, n))
<1>1. CASE n \notin Nodes(t.nets)
  BY <1>1, NodesAre DEF NetOf
<1>2. CASE n \in Nodes(t.nets)
  <2> DEFINE c == CHOOSE net : net \in DOMAIN t.nets /\ n \in Range(t.nets[net])
  <2>1. NetOf(t, n) = c
    BY <1>2 DEF NetOf
  <2>2. \E net : net \in DOMAIN t.nets /\ n \in Range(t.nets[net])
    BY <1>2, NodesAre
  <2>3. c \in DOMAIN t.nets /\ n \in Range(t.nets[c])
    BY <2>2
  <2> HIDE DEF c
  <2> QED BY <2>1, <2>3, OrdersOk DEF TableOk
<1> QED BY <1>1, <1>2

\* A footprint of t: its part's pads, on whatever nets.
GoodFootprint(f, t) ==
  LET pins == Sorted(t.comp[f.ref].pins, PinOrder)
  IN  /\ ExactFootprint(f)
      /\ f.ref \in DOMAIN t.comp
      /\ DOMAIN f.pads = DOMAIN pins
      /\ \A j \in DOMAIN pins : f.pads[j].num = Str(pins[j])
\* A board of footprints of t, some perhaps missing or there twice.
GoodBoard(b, t) == IsList(b) /\ \A i \in DOMAIN b : GoodFootprint(b[i], t)

\* A part's pins, each once.
LEMMA PinsFacts ==
  ASSUME NEW t, TableOk(t), NEW r \in DOMAIN t.comp
  PROVE  /\ Sorted(t.comp[r].pins, PinOrder) \in Seq(1 .. 10)
         /\ Range(Sorted(t.comp[r].pins, PinOrder)) = t.comp[r].pins
         /\ IsInjective(Sorted(t.comp[r].pins, PinOrder))
<1>1. t.comp[r].pins \subseteq Range(PinOrder)
  BY OrdersOk DEF TableOk
<1> QED BY <1>1, OrdersOk, SortedFacts

\* KiCad imports a part as a footprint of it.
LEMMA ImportedFootprint ==
  ASSUME NEW t, TableOk(t), NEW r \in DOMAIN t.comp
  PROVE  GoodFootprint(Footprint(t, r), t) /\ Footprint(t, r).ref = r
<1> DEFINE pins == Sorted(t.comp[r].pins, PinOrder)
           f == Footprint(t, r)
<1>1. pins \in Seq(1 .. 10) /\ DOMAIN pins = 1 .. Len(pins) /\ Len(pins) \in Nat
  BY PinsFacts
<1> HIDE DEF pins
<1>2. /\ f = [ref |-> r,
              pads |-> [i \in DOMAIN pins |->
                          [num |-> Str(pins[i]), net |-> NetOf(t, <<r, pins[i]>>)]]]
      /\ f.ref = r /\ DOMAIN f.pads = DOMAIN pins
      /\ \A i \in DOMAIN pins : f.pads[i] = [num |-> Str(pins[i]), net |-> NetOf(t, <<r, pins[i]>>)]
  BY DEF Footprint, pins
<1> HIDE DEF f
<1>3. f = [ref |-> f.ref, pads |-> f.pads]
  BY <1>2
<1>4. ASSUME NEW i \in DOMAIN pins
      PROVE  /\ f.pads[i] = [num |-> f.pads[i].num, net |-> f.pads[i].net]
             /\ IsWord(f.pads[i].num) /\ IsWord(f.pads[i].net)
  <2>1. pins[i] \in 1 .. 10
    BY <1>1
  <2>2. IsWord(NoNet)
    BY DEF IsWord, NoNet
  <2>3. IsWord(NetOf(t, <<r, pins[i]>>))
    BY <2>2, NetOfFacts
  <2>4. f.pads[i] = [num |-> Str(pins[i]), net |-> NetOf(t, <<r, pins[i]>>)]
    BY <1>2
  <2> QED BY <2>1, <2>3, <2>4, StrFacts
<1>5. IsList(f.pads)
  <2> DEFINE X == {f.pads[i] : i \in DOMAIN pins}
  <2>1. f.pads = [i \in 1 .. Len(pins) |-> f.pads[i]]
    BY <1>1, <1>2
  <2>2. \A i \in 1 .. Len(pins) : f.pads[i] \in X
    BY <1>1
  <2> HIDE DEF X
  <2>3. f.pads \in Seq(X)
    BY <1>1, <2>1, <2>2
  <2> QED BY <2>3, Zenon DEF IsList
<1>6. IsWord(f.ref)
  BY <1>2, OrdersOk DEF TableOk
<1>7. ExactFootprint(f)
  BY <1>2, <1>3, <1>4, <1>5, <1>6 DEF ExactFootprint, Proper
<1> QED BY <1>2, <1>7 DEF GoodFootprint, pins, f

\* KiCad imports each part once, as its footprint.
LEMMA ImportedBoard ==
  ASSUME NEW t, TableOk(t)
  PROVE  /\ GoodBoard(Imported(t), t)
         /\ {Imported(t)[i].ref : i \in DOMAIN Imported(t)} = DOMAIN t.comp
         /\ \A i \in DOMAIN Imported(t) : Imported(t)[i] = Footprint(t, Imported(t)[i].ref)
         /\ \A i, j \in DOMAIN Imported(t) : Imported(t)[i].ref = Imported(t)[j].ref => i = j
<1> DEFINE refs == Sorted(DOMAIN t.comp, RefOrder)
           b == Imported(t)
<1>1. refs \in Seq(Range(RefOrder)) /\ Range(refs) = DOMAIN t.comp /\ IsInjective(refs)
  BY OrdersOk, SortedFacts DEF TableOk
<1> HIDE DEF refs
<1>2. DOMAIN refs = 1 .. Len(refs) /\ Len(refs) \in Nat
  BY <1>1
<1>3. \A i \in DOMAIN refs : refs[i] \in DOMAIN t.comp
  BY <1>1 DEF Range
<1>4. b = [i \in DOMAIN refs |-> Footprint(t, refs[i])]
  BY DEF Imported, refs
<1> HIDE DEF b
<1>5. DOMAIN b = DOMAIN refs /\ \A i \in DOMAIN refs : b[i] = Footprint(t, refs[i])
  BY <1>4
<1>6. \A i \in DOMAIN refs : GoodFootprint(b[i], t) /\ b[i].ref = refs[i]
  BY <1>3, <1>5, ImportedFootprint
<1>7. IsList(b)
  <2> DEFINE X == {b[i] : i \in DOMAIN refs}
  <2>1. b = [i \in 1 .. Len(refs) |-> b[i]]
    BY <1>2, <1>4
  <2>2. \A i \in 1 .. Len(refs) : b[i] \in X
    BY <1>2
  <2> HIDE DEF X
  <2>3. b \in Seq(X)
    BY <1>2, <2>1, <2>2
  <2> QED BY <2>3, Zenon DEF IsList
<1>8. GoodBoard(b, t)
  BY <1>5, <1>6, <1>7 DEF GoodBoard
<1>9. {b[i].ref : i \in DOMAIN b} = DOMAIN t.comp
  BY <1>1, <1>5, <1>6 DEF Range
<1>10. \A i \in DOMAIN b : b[i] = Footprint(t, b[i].ref)
  BY <1>5, <1>6
<1>11. \A i, j \in DOMAIN b : b[i].ref = b[j].ref => i = j
  BY <1>1, <1>5, <1>6 DEF IsInjective
<1> QED BY <1>8, <1>9, <1>10, <1>11 DEF b

-----------------------------------------------------------------------------
(* The four tables. *)

\* Drop keeps what it is not told to drop.
LEMMA DropFacts ==
  ASSUME NEW X, NEW nodes \in Seq(X), IsInjective(nodes), NEW out
  PROVE  /\ Drop(nodes, out) \in Seq(X)
         /\ Range(Drop(nodes, out)) = Range(nodes) \ out
         /\ IsInjective(Drop(nodes, out))
<1> DEFINE kept == {i \in DOMAIN nodes : nodes[i] \notin out}
           Low(i) == {j \in kept : j <= i}
           Rank(i) == Cardinality(Low(i))
           c == Cardinality(kept)
           Pick(k) == CHOOSE i \in kept : Rank(i) = k
           d == Drop(nodes, out)
<1>1. d = [k \in 1 .. c |-> nodes[Pick(k)]]
  BY DEF Drop
<1>2. Len(nodes) \in Nat /\ DOMAIN nodes = 1 .. Len(nodes)
  OBVIOUS
<1>3. /\ kept \subseteq 1 .. Len(nodes)
      /\ \A i \in 1 .. Len(nodes) : i \in kept <=> nodes[i] \notin out
  BY <1>2
<1> HIDE DEF kept, d
<1>4. IsFiniteSet(kept) /\ c \in Nat
  <2>1. IsFiniteSet(1 .. Len(nodes))
    BY <1>2, FS_Interval
  <2>2. IsFiniteSet(kept)
    BY <1>3, <2>1, FS_Subset
  <2> QED BY <2>2, FS_CardinalityType
<1>5. \A i \in kept : IsFiniteSet(Low(i)) /\ Rank(i) \in 1 .. c
  <2> TAKE i \in kept
  <2>1. Low(i) \in SUBSET kept /\ i \in Low(i)
    BY <1>3
  <2> HIDE DEF Low
  <2>2. IsFiniteSet(Low(i)) /\ Cardinality(Low(i)) <= c
    BY <1>4, <2>1, FS_Subset
  <2>3. Cardinality(Low(i)) \in Nat /\ Cardinality(Low(i)) # 0
    BY <2>1, <2>2, FS_CardinalityType, FS_EmptySet
  <2> QED BY <1>4, <2>2, <2>3
<1>6. ASSUME NEW i \in kept, NEW j \in kept, i < j
      PROVE  Rank(i) # Rank(j)
  <2>1. i \in Nat /\ j \in Nat
    BY <1>3
  <2>2. Low(i) \in SUBSET Low(j) /\ j \in Low(j) /\ j \notin Low(i)
    <3>1. \A k \in kept : k \in Nat
      BY <1>3
    <3>2. \A k \in kept : k <= i => k <= j
      BY <1>6, <2>1, <3>1
    <3>3. Low(i) \in SUBSET Low(j)
      BY <3>2
    <3>4. j <= j /\ ~(j <= i)
      BY <1>6, <2>1
    <3> QED BY <3>3, <3>4
  <2>3. IsFiniteSet(Low(j)) /\ Low(i) # Low(j)
    BY <1>5, <2>2
  <2> HIDE DEF Low
  <2> QED BY <2>2, <2>3, FS_Subset
<1> HIDE DEF Rank
<1>7. \A i, j \in kept : Rank(i) = Rank(j) => i = j
  BY <1>3, <1>6
<1> DEFINE f == [i \in kept |-> Rank(i)]
<1>8. f \in Injection(kept, 1 .. c)
  <2>1. f \in [kept -> 1 .. c] /\ DOMAIN f = kept /\ \A i \in kept : f[i] = Rank(i)
    BY <1>5 DEF Rank
  <2> HIDE DEF f, c
  <2>2. \A i, j \in DOMAIN f : f[i] = f[j] => i = j
    BY <1>7, <2>1
  <2> QED BY <2>1, <2>2 DEF Injection, IsInjective
<1>9. f \in Surjection(kept, 1 .. c)
  <2>1. IsFiniteSet(1 .. c) /\ Cardinality(1 .. c) = c
    BY <1>4, FS_Interval
  <2> HIDE DEF f
  <2> QED BY <1>8, <2>1, FS_Injection
<1>10. \A k \in 1 .. c : Pick(k) \in kept /\ Rank(Pick(k)) = k
  <2> TAKE k \in 1 .. c
  <2>1. \E i \in kept : f[i] = k
    BY <1>9 DEF Surjection
  <2>2. \E i \in kept : Rank(i) = k
    BY <2>1
  <2> QED BY <2>2
<1> HIDE DEF Pick
<1>11. \A k \in 1 .. c :
         Pick(k) \in 1 .. Len(nodes) /\ nodes[Pick(k)] \in X /\ nodes[Pick(k)] \notin out
  <2> TAKE k \in 1 .. c
  <2>1. Pick(k) \in kept
    BY <1>10
  <2>2. Pick(k) \in 1 .. Len(nodes) /\ nodes[Pick(k)] \notin out
    BY <1>3, <2>1
  <2> QED BY <1>2, <2>2
<1>12. d \in Seq(X) /\ DOMAIN d = 1 .. c /\ \A k \in 1 .. c : d[k] = nodes[Pick(k)]
  <2> HIDE DEF c
  <2> QED BY <1>1, <1>4, <1>11
<1>13. IsInjective(d)
  <2>1. \A k, l \in 1 .. c : nodes[Pick(k)] = nodes[Pick(l)] => Pick(k) = Pick(l)
    BY <1>2, <1>11 DEF IsInjective
  <2>2. \A k, l \in 1 .. c : Pick(k) = Pick(l) => k = l
    BY <1>10
  <2> QED BY <1>12, <2>1, <2>2 DEF IsInjective
<1>14. Range(d) = Range(nodes) \ out
  <2>1. ASSUME NEW k \in 1 .. c PROVE d[k] \in Range(nodes) \ out
    BY <1>2, <1>11, <1>12 DEF Range
  <2>2. ASSUME NEW x \in Range(nodes) \ out PROVE x \in Range(d)
    <3>1. PICK i \in DOMAIN nodes : x = nodes[i]
      BY DEF Range
    <3>2. i \in kept
      BY <1>2, <1>3, <3>1
    <3>3. Rank(i) \in 1 .. c
      BY <1>5, <3>2 DEF Rank
    <3>4. Pick(Rank(i)) = i
      BY <1>7, <1>10, <3>2, <3>3
    <3>5. d[Rank(i)] = x
      BY <1>12, <3>1, <3>3, <3>4
    <3> QED BY <1>12, <3>3, <3>5 DEF Range
  <2>3. \A x \in Range(d) : \E k \in 1 .. c : x = d[k]
    BY <1>12 DEF Range
  <2> QED BY <2>1, <2>2, <2>3
<1> QED BY <1>12, <1>13, <1>14 DEF d

\* A list of members of P.
LEMMA SeqInto ==
  ASSUME NEW s, IsList(s), NEW P, Range(s) \subseteq P
  PROVE  s \in Seq(P)
<1>1. PICK X : s \in Seq(X)
  BY DEF IsList
<1> DEFINE R == Range(s)
<1>2. s \in Seq(R)
  BY <1>1, SeqOfRange
<1> HIDE DEF R
<1> QED BY <1>2 DEF R

\* Lists that name their nodes once each.
Lists(s, set) == IsList(s) /\ Range(s) = set /\ IsInjective(s)

\* nets lists the nodes that w says, each of them once.
Wired(nets, w) ==
  /\ DOMAIN nets = DOMAIN w
  /\ \A net \in DOMAIN nets : Lists(nets[net], w[net])

\* Nets that share no node name each node in one place.
LEMMA WiredOnce ==
  ASSUME NEW nets, NEW w, Wired(nets, w),
         \A a, b \in DOMAIN w : \A n : n \in w[a] /\ n \in w[b] => a = b
  PROVE  OneNet(nets)
<1> SUFFICES ASSUME NEW p \in Places(nets), NEW q \in Places(nets),
                    NodeAt(nets, p) = NodeAt(nets, q)
             PROVE  p = q
  BY DEF OneNet
<1>1. PICK a \in DOMAIN nets : p \in {a} \X DOMAIN nets[a]
  BY DEF Places
<1>2. PICK b \in DOMAIN nets : q \in {b} \X DOMAIN nets[b]
  BY DEF Places
<1>3. p = <<a, p[2]>> /\ p[2] \in DOMAIN nets[a] /\ q = <<b, q[2]>> /\ q[2] \in DOMAIN nets[b]
  BY <1>1, <1>2
<1>4. nets[a][p[2]] = nets[b][q[2]]
  BY <1>3 DEF NodeAt
<1>5. nets[a][p[2]] \in w[a] /\ nets[b][q[2]] \in w[b]
  BY <1>3 DEF Wired, Lists, Range
<1>6. a = b
  BY <1>4, <1>5 DEF Wired
<1>7. p[2] = q[2]
  BY <1>3, <1>4, <1>6 DEF Wired, Lists, IsInjective
<1> QED BY <1>3, <1>6, <1>7

\* Lists of one to four nodes.
LEMMA Listed1 == ASSUME NEW a PROVE Lists(<<a>>, {a})
<1> DEFINE s == <<a>>
<1>1. s \in Seq({a}) /\ DOMAIN s = 1 .. 1 /\ s[1] = a
  OBVIOUS
<1> HIDE DEF s
<1>2. Range(s) = {a} /\ IsInjective(s)
  BY <1>1 DEF Range, IsInjective
<1>3. IsList(s)
  BY <1>1, Zenon DEF IsList
<1> QED BY <1>2, <1>3 DEF Lists, s

\* Two nodes.
LEMMA Listed2 == ASSUME NEW a, NEW b, a # b PROVE Lists(<<a, b>>, {a, b})
<1> DEFINE s == <<a, b>>
<1>1. s \in Seq({a, b}) /\ DOMAIN s = 1 .. 2 /\ s[1] = a /\ s[2] = b
  OBVIOUS
<1> HIDE DEF s
<1>2. Range(s) = {a, b} /\ IsInjective(s)
  BY <1>1 DEF Range, IsInjective
<1>3. IsList(s)
  BY <1>1, Zenon DEF IsList
<1> QED BY <1>2, <1>3 DEF Lists, s

\* Three nodes.
LEMMA Listed3 ==
  ASSUME NEW a, NEW b, NEW c, a # b, a # c, b # c
  PROVE  Lists(<<a, b, c>>, {a, b, c})
<1> DEFINE s == <<a, b, c>>
<1>1. s \in Seq({a, b, c}) /\ DOMAIN s = 1 .. 3 /\ s[1] = a /\ s[2] = b /\ s[3] = c
  OBVIOUS
<1> HIDE DEF s
<1>2. Range(s) = {a, b, c} /\ IsInjective(s)
  BY <1>1 DEF Range, IsInjective
<1>3. IsList(s)
  BY <1>1, Zenon DEF IsList
<1> QED BY <1>2, <1>3 DEF Lists, s

\* Four nodes.
LEMMA Listed4 ==
  ASSUME NEW a, NEW b, NEW c, NEW d, a # b, a # c, a # d, b # c, b # d, c # d
  PROVE  Lists(<<a, b, c, d>>, {a, b, c, d})
<1> DEFINE s == <<a, b, c, d>>
<1>1. s \in Seq({a, b, c, d}) /\ DOMAIN s = 1 .. 4 /\ s[1] = a /\ s[2] = b /\ s[3] = c /\ s[4] = d
  OBVIOUS
<1> HIDE DEF s
<1>2. Range(s) = {a, b, c, d} /\ IsInjective(s)
  BY <1>1 DEF Range, IsInjective
<1>3. IsList(s)
  BY <1>1, Zenon DEF IsList
<1> QED BY <1>2, <1>3 DEF Lists, s

\* Two lists that share no node.
LEMMA ListedConcat ==
  ASSUME NEW s, NEW A, Lists(s, A), NEW t, NEW B, Lists(t, B), A \cap B = {}
  PROVE  Lists(s \o t, A \union B)
<1>1. PICK X : s \in Seq(X)
  BY DEF Lists, IsList
<1>2. PICK Y : t \in Seq(Y)
  BY DEF Lists, IsList
<1> DEFINE Z == X \union Y
           n == Len(s)
           m == Len(t)
           c == s \o t
<1>3. s \in Seq(Z) /\ t \in Seq(Z)
  BY <1>1, <1>2
<1> HIDE DEF Z
<1>4. /\ c \in Seq(Z) /\ Len(c) = n + m
      /\ \A i \in 1 .. n + m : c[i] = IF i <= n THEN s[i] ELSE t[i - n]
  BY <1>3, ConcatProperties
<1>5. n \in Nat /\ m \in Nat /\ DOMAIN s = 1 .. n /\ DOMAIN t = 1 .. m
  BY <1>3
<1> HIDE DEF c, n, m
<1>6. DOMAIN c = 1 .. n + m
  BY <1>4
<1>7. Range(s) = A /\ Range(t) = B /\ IsInjective(s) /\ IsInjective(t)
  BY DEF Lists
<1>8. ASSUME NEW i \in 1 .. n
      PROVE  i \in 1 .. n + m /\ c[i] = s[i] /\ c[i] \in A
  <2>1. i \in 1 .. n + m /\ i <= n
    BY <1>5
  <2> QED BY <1>4, <1>5, <1>7, <2>1 DEF Range
<1>9. ASSUME NEW i \in 1 .. m
      PROVE  n + i \in 1 .. n + m /\ c[n + i] = t[i] /\ c[n + i] \in B
  <2> DEFINE q == n + i
  <2>1. q \in 1 .. n + m /\ ~(q <= n) /\ q - n = i
    BY <1>5
  <2> HIDE DEF q
  <2>2. c[q] = t[i]
    BY <1>4, <2>1
  <2> QED BY <1>5, <1>7, <2>1, <2>2 DEF Range, q
<1>10. \A k \in 1 .. n + m : k \in 1 .. n \/ \E i \in 1 .. m : k = n + i
  <2> TAKE k \in 1 .. n + m
  <2>1. CASE k <= n
    BY <1>5, <2>1
  <2>2. CASE k > n
    <3>1. k - n \in 1 .. m /\ k = n + (k - n)
      BY <1>5, <2>2
    <3> QED BY <3>1, Zenon
  <2> QED BY <1>5, <2>1, <2>2
<1>11. Range(c) = A \union B
  <2>1. ASSUME NEW k \in 1 .. n + m PROVE c[k] \in A \union B
    BY <1>8, <1>9, <1>10
  <2>2. ASSUME NEW x \in A PROVE x \in Range(c)
    <3>1. PICK i \in 1 .. n : x = s[i]
      BY <1>5, <1>7 DEF Range
    <3> QED BY <1>6, <1>8, <3>1 DEF Range
  <2>3. ASSUME NEW x \in B PROVE x \in Range(c)
    <3>1. PICK i \in 1 .. m : x = t[i]
      BY <1>5, <1>7 DEF Range
    <3>2. n + i \in DOMAIN c /\ c[n + i] = x
      BY <1>6, <1>9, <3>1
    <3> QED BY <3>2 DEF Range
  <2>4. \A x \in Range(c) : \E k \in 1 .. n + m : x = c[k]
    BY <1>6 DEF Range
  <2> QED BY <2>1, <2>2, <2>3, <2>4
<1>12. ASSUME NEW k \in 1 .. n + m, NEW l \in 1 .. n + m, c[k] = c[l]
       PROVE  k = l
  <2>1. CASE k \in 1 .. n /\ l \in 1 .. n
    BY <1>5, <1>7, <1>8, <1>12, <2>1 DEF IsInjective
  <2>2. CASE k \notin 1 .. n /\ l \notin 1 .. n
    <3>1. PICK i \in 1 .. m : k = n + i
      BY <1>10, <2>2
    <3>2. PICK j \in 1 .. m : l = n + j
      BY <1>10, <2>2
    <3>3. t[i] = t[j]
      BY <1>9, <1>12, <3>1, <3>2
    <3> QED BY <1>5, <1>7, <3>1, <3>2, <3>3 DEF IsInjective
  <2>3. CASE k \in 1 .. n /\ l \notin 1 .. n
    <3>1. c[k] \in A /\ c[l] \in B
      BY <1>8, <1>9, <1>10, <2>3
    <3> QED BY <1>12, <3>1
  <2>4. CASE k \notin 1 .. n /\ l \in 1 .. n
    <3>1. c[k] \in B /\ c[l] \in A
      BY <1>8, <1>9, <1>10, <2>4
    <3> QED BY <1>12, <3>1
  <2> QED BY <2>1, <2>2, <2>3, <2>4
<1>13. IsInjective(c)
  BY <1>6, <1>12 DEF IsInjective
<1>14. IsList(c)
  BY <1>4, Zenon DEF IsList
<1> QED BY <1>11, <1>13, <1>14 DEF Lists, c

\* A list without the nodes to drop.
LEMMA ListedDrop ==
  ASSUME NEW s, NEW A, Lists(s, A), NEW out
  PROVE  Lists(Drop(s, out), A \ out)
<1>1. PICK X : s \in Seq(X)
  BY DEF Lists, IsList
<1>2. /\ Drop(s, out) \in Seq(X) /\ Range(Drop(s, out)) = Range(s) \ out
      /\ IsInjective(Drop(s, out))
  BY <1>1, DropFacts DEF Lists
<1>3. IsList(Drop(s, out))
  BY <1>2, Zenon DEF IsList
<1> QED BY <1>2, <1>3 DEF Lists

\* The nets of gen.py's tables, and of the pivoted ones.
TableNets(nets) ==
  /\ {"+5V", "GND", "+3V3", "MCLK"} \subseteq DOMAIN nets
  /\ DOMAIN nets \subseteq {"+5V", "GND", "+3V3", "MCLK", "SPARE"}
  /\ Lists(nets["+5V"], {<<"J3", 2>>, <<"U1", 8>>, <<"U4", 1>>})
  /\ Lists(nets["GND"], {<<"J3", 6>>, <<"U1", 4>>, <<"U4", 2>>, <<"U2", 10>>})
  /\ Lists(nets["+3V3"], {<<"U4", 5>>, <<"U2", 4>>})
  /\ Lists(nets["MCLK"], {<<"J3", 7>>, <<"U2", 6>>})
  /\ "SPARE" \in DOMAIN nets => Lists(nets["SPARE"], {<<"J3", 9>>})
PivotedTableNets(nets) ==
  /\ DOMAIN nets \subseteq {"+5V", "GND", "+3V3", "MCLK", "MCLK_SRC", "SPARE"}
  /\ Lists(nets["+5V"], {<<"J3", 2>>, <<"U1", 8>>})
  /\ Lists(nets["GND"], {<<"J3", 6>>, <<"U1", 4>>, <<"J4", 2>>})
  /\ Lists(nets["+3V3"], {<<"J3", 1>>, <<"U2", 4>>, <<"U2", 10>>})
  /\ Lists(nets["MCLK"], {<<"R_mclk", 2>>, <<"U2", 6>>})
  /\ Lists(nets["MCLK_SRC"], {<<"J4", 1>>, <<"R_mclk", 1>>})
  /\ "SPARE" \in DOMAIN nets => Lists(nets["SPARE"], {<<"J3", 9>>})

\* Nodes of two parts, or two pins, differ.
LEMMA NodesDiffer ==
  ASSUME NEW a, NEW b, NEW i, NEW j, a # b \/ i # j
  PROVE  <<a, i>> # <<b, j>>
OBVIOUS

\* The nets NETS lists.
LEMMA NetsListed ==
  /\ DOMAIN NETS = {"+5V", "GND", "+3V3", "MCLK"}
  /\ Lists(NETS["+5V"], {<<"J3", 2>>, <<"U1", 8>>, <<"U4", 1>>})
  /\ Lists(NETS["GND"], {<<"J3", 6>>, <<"U1", 4>>, <<"U4", 2>>, <<"U2", 10>>})
  /\ Lists(NETS["+3V3"], {<<"U4", 5>>, <<"U2", 4>>})
  /\ Lists(NETS["MCLK"], {<<"J3", 7>>, <<"U2", 6>>})
<1>1. DOMAIN NETS = {"+5V", "GND", "+3V3", "MCLK"}
  BY DEF NETS, Rails
<1>2. /\ NETS["+5V"] = << <<"J3", 2>>, <<"U1", 8>>, <<"U4", 1>> >>
      /\ NETS["GND"] = << <<"J3", 6>>, <<"U1", 4>>, <<"U4", 2>>, <<"U2", 10>> >>
      /\ NETS["+3V3"] = << <<"U4", 5>>, <<"U2", 4>> >>
      /\ NETS["MCLK"] = << <<"J3", 7>>, <<"U2", 6>> >>
  BY DEF NETS, Rails
<1>3. /\ <<"J3", 2>> # <<"U1", 8>> /\ <<"J3", 2>> # <<"U4", 1>> /\ <<"U1", 8>> # <<"U4", 1>>
      /\ <<"U4", 5>> # <<"U2", 4>> /\ <<"J3", 7>> # <<"U2", 6>>
      /\ <<"J3", 6>> # <<"U1", 4>> /\ <<"J3", 6>> # <<"U4", 2>> /\ <<"J3", 6>> # <<"U2", 10>>
      /\ <<"U1", 4>> # <<"U4", 2>> /\ <<"U1", 4>> # <<"U2", 10>> /\ <<"U4", 2>> # <<"U2", 10>>
  BY NodesDiffer
<1>4. Lists(NETS["+5V"], {<<"J3", 2>>, <<"U1", 8>>, <<"U4", 1>>})
  BY <1>2, <1>3, Listed3
<1>5. Lists(NETS["GND"], {<<"J3", 6>>, <<"U1", 4>>, <<"U4", 2>>, <<"U2", 10>>})
  BY <1>2, <1>3, Listed4
<1>6. /\ Lists(NETS["+3V3"], {<<"U4", 5>>, <<"U2", 4>>})
      /\ Lists(NETS["MCLK"], {<<"J3", 7>>, <<"U2", 6>>})
  BY <1>2, <1>3, Listed2
<1> QED BY <1>1, <1>4, <1>5, <1>6

\* Both designs' nets are such.
LEMMA TableNetsHold ==
  ASSUME NEW d \in {Base, Lonely}
  PROVE  TableNets(d.nets)
<1>1. CASE d = Base
  <2>1. d.nets = NETS
    BY <1>1 DEF Base
  <2>2. "SPARE" \notin DOMAIN NETS
    BY NetsListed
  <2> QED BY <2>1, <2>2, NetsListed DEF TableNets
<1>2. CASE d = Lonely
  <2> DEFINE g == [SPARE |-> << <<"J3", 9>> >>]
  <2>1. d.nets = Put(NETS, g)
    BY <1>2 DEF Lonely
  <2>2. DOMAIN g = {"SPARE"} /\ g["SPARE"] = << <<"J3", 9>> >>
    OBVIOUS
  <2> HIDE DEF g
  <2>3. /\ DOMAIN d.nets = {"+5V", "GND", "+3V3", "MCLK", "SPARE"}
        /\ d.nets["SPARE"] = << <<"J3", 9>> >>
        /\ d.nets["+5V"] = NETS["+5V"] /\ d.nets["GND"] = NETS["GND"]
        /\ d.nets["+3V3"] = NETS["+3V3"] /\ d.nets["MCLK"] = NETS["MCLK"]
    BY <2>1, <2>2, NetsListed DEF Put
  <2>4. Lists(d.nets["SPARE"], {<<"J3", 9>>})
    BY <2>3, Listed1
  <2> QED BY <2>3, <2>4, NetsListed DEF TableNets
<1> QED BY <1>1, <1>2

\* The pivot makes pivoted nets of them.
LEMMA PivotedNetsHold ==
  ASSUME NEW nets, TableNets(nets)
  PROVE  PivotedTableNets(PivotNets(nets))
<1> DEFINE moved == [net \in {"+5V", "GND", "+3V3", "MCLK", "MCLK_SRC"} |->
        CASE net = "+5V"  -> Drop(nets["+5V"], {<<LDO, 1>>})
          [] net = "GND"  -> PivotGround(nets["GND"])
          [] net = "+3V3" -> << <<"J3", 1>> >> \o Drop(nets["+3V3"], {<<LDO, 5>>})
                             \o << MD0 >>
          [] net = "MCLK" -> << <<"R_mclk", 2>>, <<"U2", 6>> >>
          [] net = "MCLK_SRC" -> << <<"J4", 1>>, <<"R_mclk", 1>> >>]
           p == PivotNets(nets)
           g == Drop(nets["GND"], {<<LDO, 2>>, MD0})
           h == Drop(nets["+3V3"], {<<LDO, 5>>})
<1>1. p = Put(nets, moved)
  BY DEF PivotNets
<1>2. /\ DOMAIN moved = {"+5V", "GND", "+3V3", "MCLK", "MCLK_SRC"}
      /\ moved["+5V"] = Drop(nets["+5V"], {<<LDO, 1>>})
      /\ moved["GND"] = g \o << <<"J4", 2>> >>
      /\ moved["+3V3"] = << <<"J3", 1>> >> \o h \o << MD0 >>
      /\ moved["MCLK"] = << <<"R_mclk", 2>>, <<"U2", 6>> >>
      /\ moved["MCLK_SRC"] = << <<"J4", 1>>, <<"R_mclk", 1>> >>
  BY DEF PivotGround
<1> HIDE DEF moved, p, g, h
<1>3. /\ DOMAIN p = DOMAIN nets \union DOMAIN moved
      /\ \A net \in DOMAIN moved : p[net] = moved[net]
      /\ "SPARE" \in DOMAIN p => "SPARE" \in DOMAIN nets /\ p["SPARE"] = nets["SPARE"]
  BY <1>1, <1>2 DEF Put
<1>4. Lists(p["+5V"], {<<"J3", 2>>, <<"U1", 8>>})
  <2> DEFINE all == {<<"J3", 2>>, <<"U1", 8>>, <<"U4", 1>>}
             out == {<<LDO, 1>>}
  <2>0. Lists(nets["+5V"], all)
    BY DEF TableNets
  <2> HIDE DEF all, out
  <2>4. Lists(Drop(nets["+5V"], out), all \ out)
    BY <2>0, ListedDrop
  <2>1. Lists(p["+5V"], all \ {<<LDO, 1>>})
    BY <1>2, <1>3, <2>4 DEF out
  <2> USE DEF all
  <2>2. <<"J3", 2>> # <<"U4", 1>> /\ <<"U1", 8>> # <<"U4", 1>>
    BY NodesDiffer
  <2>3. all \ {<<LDO, 1>>} = {<<"J3", 2>>, <<"U1", 8>>}
    BY <2>2 DEF LDO
  <2> QED BY <2>1, <2>3
<1>5. Lists(p["GND"], {<<"J3", 6>>, <<"U1", 4>>, <<"J4", 2>>})
  <2> DEFINE all == {<<"J3", 6>>, <<"U1", 4>>, <<"U4", 2>>, <<"U2", 10>>}
  <2>1. Lists(g, all \ {<<LDO, 2>>, MD0})
    BY ListedDrop DEF TableNets, g
  <2>2. /\ <<"J3", 6>> # <<"U4", 2>> /\ <<"U1", 4>> # <<"U4", 2>>
        /\ <<"J3", 6>> # <<"U2", 10>> /\ <<"U1", 4>> # <<"U2", 10>>
        /\ <<"J3", 6>> # <<"J4", 2>> /\ <<"U1", 4>> # <<"J4", 2>>
    BY NodesDiffer
  <2>3. all \ {<<LDO, 2>>, MD0} = {<<"J3", 6>>, <<"U1", 4>>}
    BY <2>2 DEF LDO, MD0
  <2>4. Lists(<< <<"J4", 2>> >>, {<<"J4", 2>>})
    BY Listed1
  <2>5. {<<"J3", 6>>, <<"U1", 4>>} \cap {<<"J4", 2>>} = {}
    BY <2>2
  <2>6. Lists(g \o << <<"J4", 2>> >>, {<<"J3", 6>>, <<"U1", 4>>} \union {<<"J4", 2>>})
    BY <2>1, <2>3, <2>4, <2>5, ListedConcat
  <2>7. {<<"J3", 6>>, <<"U1", 4>>} \union {<<"J4", 2>>} = {<<"J3", 6>>, <<"U1", 4>>, <<"J4", 2>>}
    OBVIOUS
  <2> QED BY <1>2, <1>3, <2>6, <2>7
<1>6. Lists(p["+3V3"], {<<"J3", 1>>, <<"U2", 4>>, <<"U2", 10>>})
  <2> DEFINE a == <<"J3", 1>>
             b == <<"U2", 4>>
             c == <<"U2", 10>>
             e == <<"U4", 5>>
  <2>1. a # b /\ a # c /\ b # c /\ b # e
    BY NodesDiffer
  <2>2. Lists(nets["+3V3"], {e, b})
    BY DEF TableNets
  <2>3. h = Drop(nets["+3V3"], {e}) /\ MD0 = c
    BY DEF h, LDO, MD0
  <2> HIDE DEF a, b, c, e
  <2>4. Lists(h, {e, b} \ {e})
    BY <2>2, <2>3, ListedDrop
  <2>5. {e, b} \ {e} = {b} /\ {a} \cap {b} = {} /\ ({a} \union {b}) \cap {c} = {}
    BY <2>1
  <2>6. Lists(<<a>>, {a}) /\ Lists(<<c>>, {c}) /\ Lists(h, {b})
    BY <2>4, <2>5, Listed1
  <2>7. Lists(<<a>> \o h, {a} \union {b})
    BY <2>5, <2>6, ListedConcat
  <2>8. Lists((<<a>> \o h) \o <<c>>, ({a} \union {b}) \union {c})
    BY <2>5, <2>6, <2>7, ListedConcat
  <2>9. ({a} \union {b}) \union {c} = {a, b, c}
    OBVIOUS
  <2>10. p["+3V3"] = <<a>> \o h \o <<c>>
    BY <1>2, <1>3, <2>3 DEF a
  <2>11. Lists(p["+3V3"], {a, b, c})
    BY <2>8, <2>9, <2>10
  <2> QED BY <2>11 DEF a, b, c
<1>7. Lists(p["MCLK"], {<<"R_mclk", 2>>, <<"U2", 6>>})
  <2>1. <<"R_mclk", 2>> # <<"U2", 6>>
    BY NodesDiffer
  <2> QED BY <1>2, <1>3, <2>1, Listed2
<1>8. Lists(p["MCLK_SRC"], {<<"J4", 1>>, <<"R_mclk", 1>>})
  <2>1. <<"J4", 1>> # <<"R_mclk", 1>>
    BY NodesDiffer
  <2> QED BY <1>2, <1>3, <2>1, Listed2
<1>9. DOMAIN p \subseteq {"+5V", "GND", "+3V3", "MCLK", "MCLK_SRC", "SPARE"}
  BY <1>2, <1>3 DEF TableNets
<1>10. "SPARE" \in DOMAIN p => Lists(p["SPARE"], {<<"J3", 9>>})
  BY <1>3 DEF TableNets
<1> QED BY <1>4, <1>5, <1>6, <1>7, <1>8, <1>9, <1>10 DEF PivotedTableNets, p

\* A pin of a part is one that its part has.
LEMMA PinsAre ==
  ASSUME NEW comp, NEW r, NEW p
  PROVE  <<r, p>> \in PinsOf(comp) <=> r \in DOMAIN comp /\ p \in comp[r].pins
BY DEF PinsOf

\* The parts of gen.py's tables, and of the pivoted ones.
TableComp(comp) ==
  /\ DOMAIN comp = {"J3", "U1", "U2", "U4"} /\ "pins" \in DOMAIN comp["J3"]
  /\ {2, 6, 7} \subseteq comp["J3"].pins /\ comp["J3"].pins \subseteq {2, 6, 7, 9}
  /\ comp["U1"].pins = {4, 8}
  /\ comp["U2"].pins = {4, 6, 10}
  /\ comp["U4"].pins = {1, 2, 5}
PivotedTableComp(comp) ==
  /\ DOMAIN comp = {"J3", "J4", "R_mclk", "U1", "U2"}
  /\ {1, 2, 6} \subseteq comp["J3"].pins /\ comp["J3"].pins \subseteq {1, 2, 6, 9}
  /\ comp["J4"].pins = {1, 2}
  /\ comp["R_mclk"].pins = {1, 2}
  /\ comp["U1"].pins = {4, 8}
  /\ comp["U2"].pins = {4, 6, 10}
\* The spare net of the second design has its pin.
Spared(t) == "SPARE" \in DOMAIN t.nets => 9 \in t.comp["J3"].pins

\* The parts COMP lists.
LEMMA CompListed ==
  /\ DOMAIN COMP = {"J3", "U1", "U2", "U4"}
  /\ COMP["J3"].pins = {2, 6, 7} /\ COMP["U1"].pins = {4, 8}
  /\ COMP["U2"].pins = {4, 6, 10} /\ COMP["U4"].pins = {1, 2, 5}
BY DEF COMP, Part

\* Both designs' parts are such.
LEMMA TableCompHolds ==
  ASSUME NEW d \in {Base, Lonely}
  PROVE  TableComp(d.comp) /\ Spared(d)
<1>1. CASE d = Base
  <2>1. d.nets = NETS /\ d.comp = COMP
    BY <1>1 DEF Base
  <2>3. "pins" \in DOMAIN COMP["J3"]
    BY DEF COMP, Part
  <2>2. "SPARE" \notin DOMAIN NETS
    BY NetsListed
  <2> QED BY <2>1, <2>2, <2>3, CompListed DEF TableComp, Spared
<1>2. CASE d = Lonely
  <2> DEFINE j == COMP["J3"]
  <2>1. d.comp = [COMP EXCEPT !["J3"].pins = @ \union {9}]
    BY <1>2 DEF Lonely
  <2>2. j = [fp |-> TRUE, pins |-> {2, 6, 7}]
    BY DEF COMP, Part
  <2>3. /\ DOMAIN d.comp = {"J3", "U1", "U2", "U4"}
        /\ d.comp["J3"] = [j EXCEPT !.pins = @ \union {9}]
        /\ d.comp["U1"].pins = {4, 8}
        /\ d.comp["U2"].pins = {4, 6, 10}
        /\ d.comp["U4"].pins = {1, 2, 5}
    BY <2>1, CompListed
  <2>4. d.comp["J3"].pins = {2, 6, 7} \union {9} /\ "pins" \in DOMAIN d.comp["J3"]
    BY <2>2, <2>3
  <2> QED BY <2>3, <2>4 DEF TableComp, Spared
<1> QED BY <1>1, <1>2

\* The pivot makes pivoted parts of them.
LEMMA PivotedCompHolds ==
  ASSUME NEW comp, TableComp(comp)
  PROVE  /\ PivotedTableComp(PivotComp(comp))
         /\ 9 \in comp["J3"].pins => 9 \in PivotComp(comp)["J3"].pins
<1> DEFINE kept == Restrict(comp, DOMAIN comp \ {LDO})
           more == Put(kept, NewParts)
           c == PivotComp(comp)
<1>1. /\ DOMAIN kept = {"J3", "U1", "U2"}
      /\ \A r \in DOMAIN kept : kept[r] = comp[r]
  BY DEF Restrict, TableComp, LDO
<1>2. /\ DOMAIN NewParts = {"J4", "R_mclk"}
      /\ NewParts["J4"].pins = {1, 2} /\ NewParts["R_mclk"].pins = {1, 2}
  BY DEF NewParts, Part
<1> HIDE DEF kept
<1>3. /\ DOMAIN more = {"J3", "J4", "R_mclk", "U1", "U2"}
      /\ more["J3"] = comp["J3"] /\ more["U1"] = comp["U1"] /\ more["U2"] = comp["U2"]
      /\ more["J4"] = NewParts["J4"] /\ more["R_mclk"] = NewParts["R_mclk"]
  BY <1>1, <1>2 DEF Put
<1>4. c = [more EXCEPT !["J3"].pins = HeaderPins(@)]
  BY DEF PivotComp, kept
<1> HIDE DEF more, c
<1>5. /\ DOMAIN c = DOMAIN more
      /\ c["J3"] = [more["J3"] EXCEPT !.pins = HeaderPins(@)]
      /\ c["U1"] = more["U1"] /\ c["U2"] = more["U2"]
      /\ c["J4"] = more["J4"] /\ c["R_mclk"] = more["R_mclk"]
  BY <1>3, <1>4
<1>6. c["J3"].pins = (comp["J3"].pins \union {1}) \ {7}
  <2>1. "pins" \in DOMAIN more["J3"]
    BY <1>3 DEF TableComp
  <2>2. c["J3"].pins = HeaderPins(more["J3"].pins)
    BY <1>5, <2>1
  <2> QED BY <1>3, <2>2 DEF HeaderPins
<1>7. {1, 2, 6} \subseteq c["J3"].pins /\ c["J3"].pins \subseteq {1, 2, 6, 9}
  BY <1>6 DEF TableComp
<1>8. 9 \in comp["J3"].pins => 9 \in c["J3"].pins
  BY <1>6
<1>9. PivotedTableComp(c)
  BY <1>2, <1>3, <1>5, <1>7 DEF TableComp, PivotedTableComp
<1> QED BY <1>8, <1>9 DEF c

\* The tables as gen.py states them are in order.
LEMMA TablesInOrder ==
  ASSUME NEW t, TableNets(t.nets), TableComp(t.comp), Spared(t)
  PROVE  TableOk(t)
<1> DEFINE nets == t.nets
           w == [net \in DOMAIN nets |-> Range(nets[net])]
           Net(a, i) ==
             CASE a = "J3" /\ i = 2 -> "+5V" [] a = "U1" /\ i = 8 -> "+5V"
               [] a = "U4" /\ i = 1 -> "+5V"
               [] a = "U4" /\ i = 5 -> "+3V3" [] a = "U2" /\ i = 4 -> "+3V3"
               [] a = "J3" /\ i = 7 -> "MCLK" [] a = "U2" /\ i = 6 -> "MCLK"
               [] a = "J3" /\ i = 9 -> "SPARE"
               [] OTHER -> "GND"
<1>1. /\ {"+5V", "GND", "+3V3", "MCLK"} \subseteq DOMAIN nets
      /\ DOMAIN nets \subseteq {"+5V", "GND", "+3V3", "MCLK", "SPARE"}
  BY DEF TableNets
<1>2. ASSUME NEW net \in DOMAIN nets, NEW n \in Range(nets[net])
      PROVE  n \in PinsOf(t.comp) /\ net = Net(n[1], n[2])
  <2>1. CASE net = "+5V"
    <3>1. n = <<"J3", 2>> \/ n = <<"U1", 8>> \/ n = <<"U4", 1>>
      BY <1>2, <2>1 DEF TableNets, Lists
    <3> QED BY <2>1, <3>1, PinsAre DEF TableComp
  <2>2. CASE net = "GND"
    <3>1. n = <<"J3", 6>> \/ n = <<"U1", 4>> \/ n = <<"U4", 2>> \/ n = <<"U2", 10>>
      BY <1>2, <2>2 DEF TableNets, Lists
    <3> QED BY <2>2, <3>1, PinsAre DEF TableComp
  <2>3. CASE net = "+3V3"
    <3>1. n = <<"U4", 5>> \/ n = <<"U2", 4>>
      BY <1>2, <2>3 DEF TableNets, Lists
    <3> QED BY <2>3, <3>1, PinsAre DEF TableComp
  <2>4. CASE net = "MCLK"
    <3>1. n = <<"J3", 7>> \/ n = <<"U2", 6>>
      BY <1>2, <2>4 DEF TableNets, Lists
    <3> QED BY <2>4, <3>1, PinsAre DEF TableComp
  <2>5. CASE net = "SPARE"
    <3>1. n = <<"J3", 9>> /\ 9 \in t.comp["J3"].pins
      BY <1>2, <2>5 DEF TableNets, Lists, Spared
    <3> QED BY <2>5, <3>1, PinsAre DEF TableComp
  <2> QED BY <1>1, <2>1, <2>2, <2>3, <2>4, <2>5
<1>3. \A net \in DOMAIN nets : Lists(nets[net], Range(nets[net]))
  BY <1>1 DEF TableNets, Lists
<1> HIDE DEF Net
<1>4. OneNet(nets)
  <2>1. Wired(nets, w)
    BY <1>3 DEF Wired
  <2>2. \A a, b \in DOMAIN w : \A n : n \in w[a] /\ n \in w[b] => a = b
    BY <1>2
  <2> HIDE DEF w, nets
  <2> QED BY <2>1, <2>2, WiredOnce
<1>5. \A net \in DOMAIN nets : nets[net] \in Seq(PinsOf(t.comp))
  <2> TAKE net \in DOMAIN nets
  <2>1. IsList(nets[net]) /\ Range(nets[net]) \subseteq PinsOf(t.comp)
    BY <1>2, <1>3 DEF Lists
  <2> QED BY <2>1, SeqInto
<1>6. DOMAIN nets \subseteq Range(NetOrder) /\ DOMAIN t.comp \subseteq Range(RefOrder)
  BY <1>1, OrdersOk DEF TableComp
<1>7. \A r \in DOMAIN t.comp : t.comp[r].pins \subseteq 1 .. 10
  BY DEF TableComp
<1> QED BY <1>4, <1>5, <1>6, <1>7 DEF TableOk

\* The pivoted tables are in order.
LEMMA PivotedTablesInOrder ==
  ASSUME NEW t, PivotedTableNets(t.nets), PivotedTableComp(t.comp), Spared(t)
  PROVE  TableOk(t)
<1> DEFINE nets == t.nets
           w == [net \in DOMAIN nets |-> Range(nets[net])]
           Net(a, i) ==
             CASE a = "J3" /\ i = 2 -> "+5V" [] a = "U1" /\ i = 8 -> "+5V"
               [] a = "J3" /\ i = 1 -> "+3V3" [] a = "U2" /\ i = 4 -> "+3V3"
               [] a = "U2" /\ i = 10 -> "+3V3"
               [] a = "R_mclk" /\ i = 2 -> "MCLK" [] a = "U2" /\ i = 6 -> "MCLK"
               [] a = "J4" /\ i = 1 -> "MCLK_SRC" [] a = "R_mclk" /\ i = 1 -> "MCLK_SRC"
               [] a = "J3" /\ i = 9 -> "SPARE"
               [] OTHER -> "GND"
<1>1. DOMAIN nets \subseteq {"+5V", "GND", "+3V3", "MCLK", "MCLK_SRC", "SPARE"}
  BY DEF PivotedTableNets
<1>2. ASSUME NEW net \in DOMAIN nets, NEW n \in Range(nets[net])
      PROVE  n \in PinsOf(t.comp) /\ net = Net(n[1], n[2])
  <2>1. CASE net = "+5V"
    <3>1. n = <<"J3", 2>> \/ n = <<"U1", 8>>
      BY <1>2, <2>1 DEF PivotedTableNets, Lists
    <3> QED BY <2>1, <3>1, PinsAre DEF PivotedTableComp
  <2>2. CASE net = "GND"
    <3>1. n = <<"J3", 6>> \/ n = <<"U1", 4>> \/ n = <<"J4", 2>>
      BY <1>2, <2>2 DEF PivotedTableNets, Lists
    <3> QED BY <2>2, <3>1, PinsAre DEF PivotedTableComp
  <2>3. CASE net = "+3V3"
    <3>1. n = <<"J3", 1>> \/ n = <<"U2", 4>> \/ n = <<"U2", 10>>
      BY <1>2, <2>3 DEF PivotedTableNets, Lists
    <3> QED BY <2>3, <3>1, PinsAre DEF PivotedTableComp
  <2>4. CASE net = "MCLK"
    <3>1. n = <<"R_mclk", 2>> \/ n = <<"U2", 6>>
      BY <1>2, <2>4 DEF PivotedTableNets, Lists
    <3> QED BY <2>4, <3>1, PinsAre DEF PivotedTableComp
  <2>5. CASE net = "MCLK_SRC"
    <3>1. n = <<"J4", 1>> \/ n = <<"R_mclk", 1>>
      BY <1>2, <2>5 DEF PivotedTableNets, Lists
    <3> QED BY <2>5, <3>1, PinsAre DEF PivotedTableComp
  <2>6. CASE net = "SPARE"
    <3>1. n = <<"J3", 9>> /\ 9 \in t.comp["J3"].pins
      BY <1>2, <2>6 DEF PivotedTableNets, Lists, Spared
    <3> QED BY <2>6, <3>1, PinsAre DEF PivotedTableComp
  <2> QED BY <1>1, <2>1, <2>2, <2>3, <2>4, <2>5, <2>6
<1>3. \A net \in DOMAIN nets : Lists(nets[net], Range(nets[net]))
  BY <1>1 DEF PivotedTableNets, Lists
<1> HIDE DEF Net
<1>4. OneNet(nets)
  <2>1. Wired(nets, w)
    BY <1>3 DEF Wired
  <2>2. \A a, b \in DOMAIN w : \A n : n \in w[a] /\ n \in w[b] => a = b
    BY <1>2
  <2> HIDE DEF w, nets
  <2> QED BY <2>1, <2>2, WiredOnce
<1>5. \A net \in DOMAIN nets : nets[net] \in Seq(PinsOf(t.comp))
  <2> TAKE net \in DOMAIN nets
  <2>1. IsList(nets[net]) /\ Range(nets[net]) \subseteq PinsOf(t.comp)
    BY <1>2, <1>3 DEF Lists
  <2> QED BY <2>1, SeqInto
<1>6. DOMAIN nets \subseteq Range(NetOrder) /\ DOMAIN t.comp \subseteq Range(RefOrder)
  BY <1>1, OrdersOk DEF PivotedTableComp
<1>7. \A r \in DOMAIN t.comp : t.comp[r].pins \subseteq 1 .. 10
  BY DEF PivotedTableComp
<1> QED BY <1>4, <1>5, <1>6, <1>7 DEF TableOk

\* gen.py's tables are in order, and U4 and J4 tell the revisions apart.
LEMMA TablesOk ==
  ASSUME NEW d \in {Base, Lonely}, NEW r \in Revs
  PROVE  /\ TableOk(Tables(d, r))
         /\ "J3" \in DOMAIN Tables(d, r).comp
         /\ "U4" \in DOMAIN Tables(d, r).comp <=> r = "A"
         /\ "J4" \in DOMAIN Tables(d, r).comp <=> r = "B"
<1>1. TableNets(d.nets) /\ TableComp(d.comp) /\ Spared(d)
  BY TableNetsHold, TableCompHolds
<1>2. CASE r = "A"
  <2>1. Tables(d, r) = d
    BY <1>2 DEF Tables
  <2> QED BY <1>1, <1>2, <2>1, TablesInOrder DEF TableComp
<1>3. CASE r = "B"
  <2> DEFINE t == Tables(d, r)
  <2>1. t.comp = PivotComp(d.comp) /\ t.nets = PivotNets(d.nets)
    BY <1>3 DEF Tables
  <2>2. PivotedTableNets(t.nets) /\ PivotedTableComp(t.comp)
    BY <1>1, <2>1, PivotedNetsHold, PivotedCompHolds
  <2>3. "SPARE" \in DOMAIN t.nets => "SPARE" \in DOMAIN d.nets
    BY <2>1 DEF PivotNets, Put
  <2>4. Spared(t)
    BY <1>1, <2>1, <2>3, PivotedCompHolds DEF Spared
  <2> HIDE DEF t
  <2>5. TableOk(t)
    BY <2>2, <2>4, PivotedTablesInOrder
  <2> QED BY <1>3, <2>2, <2>5 DEF PivotedTableComp, t
<1> QED BY <1>2, <1>3 DEF Revs

-----------------------------------------------------------------------------
(* The hand edits leave footprints of the design. *)

\* A footprint is deleted.
LEMMA DeleteStep ==
  ASSUME NEW t, NEW b, GoodBoard(b, t), NEW i \in DOMAIN b
  PROVE  GoodBoard(RemoveAt(b, i), t)
<1>1. PICK X : b \in Seq(X)
  BY DEF GoodBoard, IsList
<1> DEFINE n == Len(b)
           u == SubSeq(b, 1, i - 1)
           v == SubSeq(b, i + 1, n)
           c == u \o v
<1>2. n \in Nat /\ DOMAIN b = 1 .. n /\ i \in 1 .. n
  BY <1>1
<1>3. /\ u \in Seq(X) /\ Len(u) = i - 1 /\ \A j \in 1 .. i - 1 : u[j] = b[j]
  BY <1>1, <1>2
<1>4. /\ v \in Seq(X) /\ Len(v) = n - i /\ \A j \in 1 .. n - i : v[j] = b[j + i]
  BY <1>1, <1>2
<1> HIDE DEF u, v
<1>5. u \in Seq(X) /\ v \in Seq(X)
  BY <1>3, <1>4
<1>6. /\ c \in Seq(X) /\ Len(c) = Len(u) + Len(v)
      /\ \A j \in 1 .. Len(u) + Len(v) : c[j] = IF j <= Len(u) THEN u[j] ELSE v[j - Len(u)]
  BY <1>5, ConcatProperties
<1> HIDE DEF c
<1>7. ASSUME NEW j \in 1 .. Len(c) PROVE \E k \in DOMAIN b : c[j] = b[k]
  <2>1. CASE j <= i - 1
    <3>1. c[j] = b[j] /\ j \in DOMAIN b
      BY <1>2, <1>3, <1>4, <1>6, <2>1
    <3> QED BY <3>1
  <2>2. CASE ~(j <= i - 1)
    <3> DEFINE m == j - (i - 1)
    <3>1. m \in 1 .. n - i /\ m + i = j + 1 /\ j + 1 \in DOMAIN b /\ j - Len(u) = m
      BY <1>2, <1>3, <1>4, <1>6, <2>2, SMTT(20)
    <3> HIDE DEF m
    <3>2. c[j] = v[m]
      BY <1>2, <1>3, <1>6, <2>2, <3>1
    <3>3. c[j] = b[j + 1]
      BY <1>4, <3>1, <3>2
    <3> QED BY <3>1, <3>3
  <2> QED BY <2>1, <2>2
<1>8. IsList(c) /\ DOMAIN c = 1 .. Len(c)
  <2>1. DOMAIN c = 1 .. Len(c)
    BY <1>6
  <2>2. IsList(c)
    BY <1>6, Zenon DEF IsList
  <2> QED BY <2>1, <2>2
<1>9. RemoveAt(b, i) = c
  BY DEF RemoveAt, c, u, v
<1> QED BY <1>7, <1>8, <1>9 DEF GoodBoard

\* A footprint is copied.
LEMMA CopyStep ==
  ASSUME NEW t, NEW b, GoodBoard(b, t), NEW i \in DOMAIN b
  PROVE  GoodBoard(Append(b, b[i]), t)
<1>1. IsList(b)
  BY DEF GoodBoard
<1> DEFINE x == b[i]
           c == Append(b, x)
<1>2. GoodFootprint(x, t)
  BY DEF GoodBoard
<1> HIDE DEF x
<1>3. /\ IsList(c) /\ Len(b) \in Nat /\ Len(c) = Len(b) + 1
      /\ \A j \in 1 .. Len(b) : c[j] = b[j]
      /\ c[Len(b) + 1] = x
  BY <1>1, AppendOne
<1>4. DOMAIN b = 1 .. Len(b)
  BY <1>1 DEF IsList
<1> HIDE DEF c
<1>5. DOMAIN c = 1 .. Len(c)
  BY <1>3 DEF IsList
<1>6. ASSUME NEW j \in DOMAIN c PROVE GoodFootprint(c[j], t)
  <2>1. j \in 1 .. Len(b) \/ j = Len(b) + 1
    BY <1>3, <1>5
  <2> QED BY <1>2, <1>3, <1>4, <2>1 DEF GoodBoard
<1> QED BY <1>3, <1>6 DEF GoodBoard, c, x

\* A pad is put on another net.
LEMMA RewireStep ==
  ASSUME NEW t, NEW b, GoodBoard(b, t), NEW i \in DOMAIN b, NEW j \in DOMAIN b[i].pads,
         NEW net, IsWord(net)
  PROVE  GoodBoard([b EXCEPT ![i].pads[j].net = net], t)
<1> DEFINE f == b[i]
           pin == [f.pads[j] EXCEPT !.net = net]
           pds == [f.pads EXCEPT ![j] = pin]
           g == [f EXCEPT !.pads = pds]
           c == [b EXCEPT ![i] = g]
           pins == Sorted(t.comp[f.ref].pins, PinOrder)
<1>1. GoodFootprint(f, t) /\ IsList(b)
  BY DEF GoodBoard
<1>2. /\ f = [ref |-> f.ref, pads |-> f.pads] /\ f.ref \in DOMAIN t.comp
      /\ DOMAIN f.pads = DOMAIN pins /\ IsWord(f.ref) /\ IsList(f.pads)
      /\ \A k \in DOMAIN pins : /\ f.pads[k].num = Str(pins[k])
                                /\ f.pads[k] = [num |-> f.pads[k].num, net |-> f.pads[k].net]
                                /\ IsWord(f.pads[k].num) /\ IsWord(f.pads[k].net)
  BY <1>1 DEF GoodFootprint, ExactFootprint, Proper
<1>3. c = [b EXCEPT ![i].pads[j].net = net]
  OBVIOUS
<1>0. j \in DOMAIN f.pads
  OBVIOUS
<1> HIDE DEF f, pins
<1>4. pin = [num |-> f.pads[j].num, net |-> net]
  <2> DEFINE p == f.pads[j]
  <2>1. p = [num |-> p.num, net |-> p.net]
    BY <1>0, <1>2
  <2> HIDE DEF p
  <2>2. [p EXCEPT !.net = net] = [num |-> p.num, net |-> net]
    BY <2>1
  <2> QED BY <2>2 DEF p
<1> HIDE DEF pin
<1>5. /\ DOMAIN pds = DOMAIN pins
      /\ \A k \in DOMAIN pins : pds[k] = IF k = j THEN pin ELSE f.pads[k]
  BY <1>2
<1>6. IsList(pds)
  <2>1. PICK X : f.pads \in Seq(X)
    BY <1>2 DEF IsList
  <2>2. f.pads \in Seq(X \union {pin})
    BY <2>1
  <2> DEFINE Y == X \union {pin}
  <2>3. pin \in Y /\ f.pads \in Seq(Y)
    BY <2>2
  <2> HIDE DEF Y
  <2>4. pds \in Seq(Y)
    BY <1>0, <2>3
  <2> HIDE DEF pds
  <2> QED BY <2>4, Zenon DEF IsList
<1> HIDE DEF pds
<1>7. g = [ref |-> f.ref, pads |-> pds]
  BY <1>2
<1> HIDE DEF g
<1>8. g.ref = f.ref /\ g.pads = pds /\ g = [ref |-> g.ref, pads |-> g.pads]
  BY <1>7
<1>9. ASSUME NEW k \in DOMAIN pins
      PROVE  /\ pds[k].num = Str(pins[k])
             /\ pds[k] = [num |-> pds[k].num, net |-> pds[k].net]
             /\ IsWord(pds[k].num) /\ IsWord(pds[k].net)
  <2>1. CASE k = j
    <3>1. pds[k] = [num |-> f.pads[j].num, net |-> net]
      BY <1>4, <1>5, <2>1
    <3>2. pds[k].num = f.pads[k].num /\ pds[k].net = net
      BY <2>1, <3>1
    <3>3. pds[k] = [num |-> pds[k].num, net |-> pds[k].net]
      BY <2>1, <3>1, <3>2
    <3> QED BY <1>2, <3>2, <3>3
  <2>2. CASE k # j
    BY <1>2, <1>5, <2>2
  <2> QED BY <2>1, <2>2
<1>10. GoodFootprint(g, t)
  <2>1. ExactFootprint(g)
    BY <1>2, <1>5, <1>6, <1>8, <1>9 DEF ExactFootprint, Proper
  <2>2. pins = Sorted(t.comp[g.ref].pins, PinOrder)
    BY <1>8 DEF pins
  <2> QED BY <1>2, <1>5, <1>8, <1>9, <2>1, <2>2 DEF GoodFootprint
<1>11. IsList(c)
  <2>1. PICK X : b \in Seq(X)
    BY <1>1 DEF IsList
  <2>2. b \in Seq(X \union {g})
    BY <2>1
  <2>3. c \in Seq(X \union {g})
    BY <2>2
  <2> HIDE DEF c
  <2> QED BY <2>3, Zenon DEF IsList
<1>12. \A k \in DOMAIN c : GoodFootprint(c[k], t)
  BY <1>1, <1>10 DEF GoodBoard
<1>13. GoodBoard(c, t)
  <2> HIDE DEF c
  <2> QED BY <1>11, <1>12 DEF GoodBoard
<1> QED BY <1>3, <1>13

-----------------------------------------------------------------------------
(* The inductive invariant of a board and its file. *)

\* The file ends before the board does.
Torn ==
  \E old \in BOOLEAN :
    \E k \in DOMAIN BoardText(board, old) : text \in CutAt(BoardText(board, old), k)

\* What load() made of the file.
FileLoaded ==
  /\ ~Parse(text).err /\ Result(Parse(text)) # <<>>
  /\ fps = Footprints(Result(Parse(text))[1])

\* The board is its design's, the file is the board's whole or cut short, and
\* load() returned what the file holds.
BoardInv ==
  /\ design \in {Base, Lonely} /\ rev \in Revs /\ touches \in Nat
  /\ GoodBoard(board, Tables(design, rev))
  /\ touches = 0 => board = Imported(Tables(design, rev))
  /\ pc # "kicad" => Whole \/ Torn
  /\ Loaded => FileLoaded

\* Of a file that is whole, load() makes the board that was saved.
LEMMA WholeLoads ==
  ASSUME BoardInv, Loaded, Whole
  PROVE  fps = board
<1>1. PICK old \in BOOLEAN : text = BoardText(board, old)
  BY DEF Whole
<1>2. ExactBoard(board) /\ ProperBoard(board)
  BY DEF BoardInv, GoodBoard, GoodFootprint, ExactBoard, ExactFootprint, ProperBoard
<1> DEFINE root == List(BoardItems(board, old))
<1>3. Parse(text) = At(<<>>, <<root>>)
  BY <1>1, <1>2, ParseBoard DEF Parse, Parsed, Start
<1>4. Footprints(root) = board
  BY <1>2, LoadBoard
<1> HIDE DEF root
<1>5. Result(Parse(text))[1] = root
  BY <1>3 DEF Result, At
<1> QED BY <1>4, <1>5 DEF BoardInv, FileLoaded

\* Of a file cut short, load() makes nothing.
LEMMA TornLoadsNothing ==
  ASSUME BoardInv, Loaded, Torn
  PROVE  fps = <<>>
<1>1. PICK old \in BOOLEAN :
        \E k \in DOMAIN BoardText(board, old) : text \in CutAt(BoardText(board, old), k)
  BY DEF Torn
<1> DEFINE whole == BoardText(board, old)
<1>2. PICK k \in DOMAIN whole : text \in CutAt(whole, k)
  BY <1>1
<1>3. ProperBoard(board)
  BY DEF BoardInv, GoodBoard, GoodFootprint, ExactFootprint, ProperBoard
<1>4. IsList(whole) /\ CutsFindNothing(Start, whole)
  BY <1>3, ParseBoard
<1> HIDE DEF whole
<1>5. FindsNothing(Parse(text))
  BY <1>2, <1>4, ParseCut
<1> DEFINE root == Result(Parse(text))[1]
<1>6. IsAtom(root)
  BY <1>5 DEF FindsNothing, Headed, Result, BoardInv, FileLoaded
<1>7. fps = Footprints(root)
  BY DEF BoardInv, FileLoaded
<1> HIDE DEF root
<1>8. fps = [i \in DOMAIN <<>> |-> LoadFootprint(<<>>[i].list)]
  BY <1>6, <1>7 DEF Footprints
<1>9. DOMAIN <<>> = {} /\ DOMAIN <<>> = 1 .. 0
  OBVIOUS
<1> QED BY <1>8, <1>9

\* It holds at first.
LEMMA BoardInit == Init => BoardInv
<1> SUFFICES ASSUME Init PROVE BoardInv
  OBVIOUS
<1>1. design \in {Base, Lonely} /\ rev \in Revs /\ touches = 0 /\ pc = "kicad"
      /\ board = Imported(Tables(design, rev))
  BY DEF Init
<1>2. GoodBoard(board, Tables(design, rev))
  BY <1>1, TablesOk, ImportedBoard
<1> QED BY <1>1, <1>2 DEF BoardInv, Loaded

\* The hand edits keep it.
LEMMA TouchStep ==
  ASSUME BoardInv, DeleteFootprint \/ CopyFootprint \/ Rewire
  PROVE  BoardInv'
<1>1. Touch
  BY DEF DeleteFootprint, CopyFootprint, Rewire
<1>2. /\ design' = design /\ rev' = rev /\ touches' = touches + 1 /\ pc' = "kicad"
  BY <1>1 DEF Touch
<1> DEFINE t == Tables(design, rev)
<1>3. GoodBoard(board, t)
  BY DEF BoardInv
<1> HIDE DEF t
<1>4. GoodBoard(board', t)
  <2>1. CASE DeleteFootprint
    <3>1. PICK i \in DOMAIN board : board' = RemoveAt(board, i)
      BY <2>1 DEF DeleteFootprint
    <3> QED BY <1>3, <3>1, DeleteStep
  <2>2. CASE CopyFootprint
    <3>1. PICK i \in DOMAIN board : board' = Append(board, board[i])
      BY <2>2 DEF CopyFootprint
    <3> QED BY <1>3, <3>1, CopyStep
  <2>3. CASE Rewire
    <3>0. PICK i \in DOMAIN board :
            \E j \in DOMAIN board[i].pads, net \in DOMAIN NETS \union {NoNet} :
              board' = [board EXCEPT ![i].pads[j].net = net]
      BY <2>3 DEF Rewire
    <3>1. PICK j \in DOMAIN board[i].pads, net \in DOMAIN NETS \union {NoNet} :
            board' = [board EXCEPT ![i].pads[j].net = net]
      BY <3>0
    <3>2. IsWord(net)
      BY DEF NETS, Rails, NoNet, IsWord
    <3> QED BY <1>3, <3>1, <3>2, RewireStep
  <2> QED BY <2>1, <2>2, <2>3
<1>5. t = Tables(design, rev)' /\ touches' \in Nat /\ touches' # 0
  BY <1>2 DEF t, BoardInv
<1> QED BY <1>2, <1>4, <1>5 DEF BoardInv, Loaded

\* Saving keeps it, whether the file is cut or not.
LEMMA SaveStep ==
  ASSUME BoardInv, Save
  PROVE  BoardInv'
<1>1. /\ design' = design /\ rev' = rev /\ touches' = touches /\ pc' = "saved" /\ board' = board
  BY DEF Save
<1>2. (Whole \/ Torn)'
  <2>1. PICK old \in BOOLEAN :
          LET whole == BoardText(board, old)
          IN  \/ text' = whole
              \/ /\ touches = 0
                 /\ \E k \in DOMAIN whole : text' \in CutAt(whole, k)
    BY DEF Save
  <2> QED BY <1>1, <2>1 DEF Whole, Torn
<1>3. Tables(design, rev)' = Tables(design, rev)
  BY <1>1
<1> QED BY <1>1, <1>2, <1>3 DEF BoardInv, Loaded

\* load() keeps it.
LEMMA LoadStep ==
  ASSUME BoardInv, Load
  PROVE  BoardInv'
<1>1. /\ UNCHANGED <<design, rev, board, touches, text>> /\ pc # "kicad"
  BY DEF Load
<1>2. Loaded' => FileLoaded'
  <2>1. CASE pc' = "crashed"
    BY <2>1 DEF Loaded
  <2>2. CASE pc' # "crashed"
    BY <1>1, <2>2 DEF Load, FileLoaded
  <2> QED BY <2>1, <2>2
<1>3. (Whole \/ Torn)' /\ Tables(design, rev)' = Tables(design, rev)
  BY <1>1 DEF BoardInv, Whole, Torn
<1> QED BY <1>1, <1>2, <1>3 DEF BoardInv

\* Nothing else touches the board, its file or what load() returned.
LEMMA DrawStep ==
  ASSUME BoardInv, UNCHANGED <<design, rev, board, touches, text, fps>>,
         pc # "kicad", Loaded
  PROVE  BoardInv'
<1>1. (Whole \/ Torn)' /\ Tables(design, rev)' = Tables(design, rev)
  BY DEF BoardInv, Whole, Torn
<1>2. FileLoaded'
  BY DEF BoardInv, FileLoaded
<1> QED BY <1>1, <1>2 DEF BoardInv

\* Every step keeps it.
LEMMA BoardStep ==
  ASSUME BoardInv, [Next]_vars
  PROVE  BoardInv'
<1>1. CASE Load
  BY <1>1, LoadStep
<1>2. CASE SkipNet \/ TakeNet \/ DrawLine \/ EndNet \/ EndRender
  <2>1. UNCHANGED <<design, rev, board, touches, text, fps>> /\ pc # "kicad" /\ Loaded
    BY <1>2 DEF SkipNet, TakeNet, DrawLine, EndNet, EndRender, renderVars, Loaded
  <2> QED BY <2>1, DrawStep
<1>3. CASE UNCHANGED vars
  <2>1. /\ UNCHANGED <<design, rev, board, touches, text, fps, pc>>
    BY <1>3 DEF vars, renderVars
  <2>2. (Whole \/ Torn)' <=> (Whole \/ Torn)
    BY <2>1 DEF Whole, Torn
  <2>3. (FileLoaded' <=> FileLoaded) /\ (Loaded' <=> Loaded)
    BY <2>1 DEF FileLoaded, Loaded
  <2>4. Tables(design, rev)' = Tables(design, rev)
    BY <2>1
  <2> QED BY <2>1, <2>2, <2>3, <2>4 DEF BoardInv
<1> QED BY <1>1, <1>2, <1>3, TouchStep, SaveStep DEF Next, Render

\* Wherever the saving of a board was cut short, load() finds no board in it.
THEOREM TornFileLoadsNothing == Spec => []CutLoadsNothing
<1>1. BoardInv => CutLoadsNothing
  <2> SUFFICES ASSUME BoardInv, Loaded, ~Whole PROVE fps = <<>>
    BY DEF CutLoadsNothing
  <2>1. pc # "kicad"
    BY DEF Loaded
  <2> QED BY <2>1, TornLoadsNothing DEF BoardInv
<1> QED BY <1>1, BoardInit, BoardStep, PTL DEF Spec

-----------------------------------------------------------------------------
(* What check_pcb.py compares. *)

\* Pad j of footprint i is on net.
OnNet(i, j, net) == i \in DOMAIN fps /\ j \in DOMAIN fps[i].pads /\ fps[i].pads[j].net = net

\* The board's nets: those its pads are on, each with its pads' nodes.
LEMMA BoardNetsFacts ==
  /\ \A net : net \in DOMAIN BoardNets <=> net # NoNet /\ \E i, j : OnNet(i, j, net)
  /\ \A net \in DOMAIN BoardNets : \A m :
       m \in BoardNets[net] <=>
         \E i, j : OnNet(i, j, net) /\ m = <<fps[i].ref, fps[i].pads[j].num>>
<1>1. \A p : p \in Pads => /\ p[1] \in DOMAIN fps /\ p[2] \in DOMAIN fps[p[1]].pads
                           /\ PadAt(p) = fps[p[1]].pads[p[2]]
  <2> TAKE p
  <2> SUFFICES ASSUME p \in Pads
               PROVE  /\ p[1] \in DOMAIN fps /\ p[2] \in DOMAIN fps[p[1]].pads
                      /\ PadAt(p) = fps[p[1]].pads[p[2]]
    OBVIOUS
  <2>1. PICK i \in DOMAIN fps : p \in {i} \X DOMAIN fps[i].pads
    BY DEF Pads, PadsOf
  <2> QED BY <2>1 DEF PadAt
<1>2. \A i \in DOMAIN fps : \A j \in DOMAIN fps[i].pads :
        <<i, j>> \in Pads /\ PadAt(<<i, j>>) = fps[i].pads[j]
  BY DEF Pads, PadsOf, PadAt
<1>3. \A net : net \in DOMAIN BoardNets <=> net # NoNet /\ \E p \in Pads : PadAt(p).net = net
  BY DEF BoardNets
<1>4. ASSUME NEW net
      PROVE  (\E p \in Pads : PadAt(p).net = net) <=> \E i, j : OnNet(i, j, net)
  <2>1. ASSUME NEW p \in Pads, PadAt(p).net = net PROVE \E i, j : OnNet(i, j, net)
    <3>1. OnNet(p[1], p[2], net)
      BY <1>1, <2>1 DEF OnNet
    <3> QED BY <3>1, Zenon
  <2>2. ASSUME NEW i, NEW j, OnNet(i, j, net) PROVE \E p \in Pads : PadAt(p).net = net
    <3>1. <<i, j>> \in Pads /\ PadAt(<<i, j>>).net = net
      BY <1>2, <2>2 DEF OnNet
    <3> QED BY <3>1, Zenon
  <2> QED BY <2>1, <2>2
<1>5. ASSUME NEW net \in DOMAIN BoardNets, NEW m
      PROVE  m \in BoardNets[net] <=>
               \E i, j : OnNet(i, j, net) /\ m = <<fps[i].ref, fps[i].pads[j].num>>
  <2>1. m \in BoardNets[net] <=> \E p \in PadsOn(net) : m = <<fps[p[1]].ref, PadAt(p).num>>
    BY DEF BoardNets
  <2>2. ASSUME NEW p \in PadsOn(net), m = <<fps[p[1]].ref, PadAt(p).num>>
        PROVE  \E i, j : OnNet(i, j, net) /\ m = <<fps[i].ref, fps[i].pads[j].num>>
    <3>1. p \in Pads /\ PadAt(p).net = net
      BY DEF PadsOn
    <3>2. OnNet(p[1], p[2], net) /\ m = <<fps[p[1]].ref, fps[p[1]].pads[p[2]].num>>
      BY <1>1, <2>2, <3>1 DEF OnNet
    <3> QED BY <3>2, Zenon
  <2>3. ASSUME NEW i, NEW j, OnNet(i, j, net), m = <<fps[i].ref, fps[i].pads[j].num>>
        PROVE  \E p \in PadsOn(net) : m = <<fps[p[1]].ref, PadAt(p).num>>
    <3> DEFINE q == <<i, j>>
    <3>1. q \in Pads /\ PadAt(q) = fps[i].pads[j] /\ q[1] = i
      BY <1>2, <2>3 DEF OnNet
    <3>2. PadAt(q).net = net
      BY <2>3, <3>1 DEF OnNet
    <3>3. q \in PadsOn(net)
      BY <3>1, <3>2 DEF PadsOn
    <3>4. m = <<fps[q[1]].ref, PadAt(q).num>>
      BY <2>3, <3>1
    <3> QED BY <3>3, <3>4, Zenon
  <2> QED BY <2>1, <2>2, <2>3
<1> QED BY <1>3, <1>4, <1>5

\* The tables' nets, with pins as they are written.
LEMMA GenNetsFacts ==
  ASSUME NEW t
  PROVE  /\ DOMAIN GenNets(t) = DOMAIN t.nets
         /\ \A net \in DOMAIN t.nets : \A m :
              m \in GenNets(t)[net] <=> \E n \in Range(t.nets[net]) : m = <<n[1], Str(n[2])>>
BY DEF GenNets

\* The node <<ref, pin>> is one pin's, whichever way the pin is written.
LEMMA NodeOfPad ==
  ASSUME NEW t, TableOk(t), NEW net \in DOMAIN t.nets, NEW n \in Range(t.nets[net])
  PROVE  /\ n[1] \in DOMAIN t.comp /\ n[2] \in t.comp[n[1]].pins /\ n[2] \in 1 .. 10
         /\ n = <<n[1], n[2]>>
         /\ NetOf(t, n) = net /\ net # NoNet
         /\ \A q \in 1 .. 10 : \A a : <<n[1], Str(n[2])>> = <<a, Str(q)>> => n = <<a, q>>
<1>1. n \in PinsOf(t.comp)
  BY DEF TableOk, Range
<1>2. PICK r \in DOMAIN t.comp : n \in {r} \X t.comp[r].pins
  BY <1>1 DEF PinsOf
<1>3. n[1] \in DOMAIN t.comp /\ n[2] \in t.comp[n[1]].pins /\ n = <<n[1], n[2]>> /\ n[2] \in 1 .. 10
  BY <1>2 DEF TableOk
<1>4. NetOf(t, n) = net
  <2> DEFINE o == NetOf(t, n)
  <2>1. o \in DOMAIN t.nets /\ n \in Range(t.nets[o])
    BY NetOfFacts
  <2> HIDE DEF o
  <2>2. PICK i \in DOMAIN t.nets[net] : n = t.nets[net][i]
    BY DEF Range
  <2>3. PICK j \in DOMAIN t.nets[o] : n = t.nets[o][j]
    BY <2>1 DEF Range
  <2> DEFINE p == <<net, i>>
             q == <<o, j>>
  <2>4. p \in Places(t.nets) /\ q \in Places(t.nets)
    BY <2>1 DEF Places
  <2>5. NodeAt(t.nets, p) = n /\ NodeAt(t.nets, q) = n
    BY <2>2, <2>3 DEF NodeAt
  <2>6. p = q
    BY <2>4, <2>5 DEF TableOk, OneNet
  <2> QED BY <2>6 DEF o
<1>5. net # NoNet
  BY OrdersOk DEF TableOk
<1>6. \A q \in 1 .. 10 : \A a : <<n[1], Str(n[2])>> = <<a, Str(q)>> => n = <<a, q>>
  BY <1>3, StrFacts
<1> QED BY <1>3, <1>4, <1>5, <1>6

\* A good board with the parts of the tables of r was imported for r.
LEMMA RevOfBoard ==
  ASSUME BoardInv, GoodBoard(fps, Tables(design, rev)), NEW r \in Revs, SameRefs(Tables(design, r))
  PROVE  r = rev
<1>1. BoardRefs \subseteq DOMAIN Tables(design, rev).comp
  BY DEF BoardRefs, GoodBoard, GoodFootprint
<1>2. BoardRefs = DOMAIN Tables(design, r).comp
  BY DEF SameRefs
<1>3. design \in {Base, Lonely} /\ rev \in Revs
  BY DEF BoardInv
<1> QED BY <1>1, <1>2, <1>3, TablesOk DEF Revs

-----------------------------------------------------------------------------
(* A board with the wiring of its tables. *)

\* Every part of t, with its pins on the nets t says.
FaithfulBoard(b, t) ==
  /\ {b[i].ref : i \in DOMAIN b} = DOMAIN t.comp
  /\ \A i \in DOMAIN b : b[i] = Footprint(t, b[i].ref)

\* Two such boards have the same wiring.
LEMMA FaithfulWiring ==
  ASSUME NEW t, NEW b, NEW c, FaithfulBoard(b, t), FaithfulBoard(c, t)
  PROVE  Wiring(b) \subseteq Wiring(c)
<1> SUFFICES ASSUME NEW p \in PadsOf(b)
             PROVE  <<b[p[1]].ref, b[p[1]].pads[p[2]]>> \in Wiring(c)
  BY DEF Wiring
<1>1. PICK i \in DOMAIN b : p \in {i} \X DOMAIN b[i].pads
  BY DEF PadsOf
<1>2. p[1] = i /\ p[2] \in DOMAIN b[i].pads
  BY <1>1
<1>3. PICK k \in DOMAIN c : c[k].ref = b[i].ref
  BY DEF FaithfulBoard
<1>4. c[k] = b[i]
  BY <1>3 DEF FaithfulBoard
<1> DEFINE q == <<k, p[2]>>
<1>5. q \in PadsOf(c) /\ q[1] = k /\ q[2] = p[2]
  BY <1>2, <1>4 DEF PadsOf
<1> HIDE DEF q
<1>6. <<c[q[1]].ref, c[q[1]].pads[q[2]]>> \in Wiring(c)
  BY <1>5 DEF Wiring
<1> QED BY <1>2, <1>4, <1>5, <1>6

\* Where a part is there once, a check that passes leaves its pins no choice.
LEMMA CheckedFootprint ==
  ASSUME NEW t, TableOk(t), GoodBoard(fps, t),
         DOMAIN BoardNets = DOMAIN t.nets, SameNodes(t),
         \A i, j \in DOMAIN fps : fps[i].ref = fps[j].ref => i = j,
         NEW i \in DOMAIN fps
  PROVE  fps[i] = Footprint(t, fps[i].ref)
<1> DEFINE f == fps[i]
           r == f.ref
           pins == Sorted(t.comp[r].pins, PinOrder)
<1>1. /\ r \in DOMAIN t.comp /\ IsList(f.pads) /\ f = [ref |-> r, pads |-> f.pads]
      /\ DOMAIN f.pads = DOMAIN pins
      /\ \A j \in DOMAIN pins : /\ f.pads[j] = [num |-> f.pads[j].num, net |-> f.pads[j].net]
                                /\ f.pads[j].num = Str(pins[j])
  BY DEF GoodBoard, GoodFootprint, ExactFootprint, Proper
<1>2. IsInjective(pins) /\ \A j \in DOMAIN pins : pins[j] \in 1 .. 10
  <2>1. pins \in Seq(1 .. 10) /\ IsInjective(pins)
    BY <1>1, PinsFacts
  <2> HIDE DEF pins
  <2> QED BY <2>1
<1>3. ASSUME NEW j \in DOMAIN pins
      PROVE  f.pads[j].net = NetOf(t, <<r, pins[j]>>)
  <2> DEFINE n == <<r, pins[j]>>
             m == <<r, Str(pins[j])>>
             x == f.pads[j].net
  <2>1. OnNet(i, j, x) /\ m = <<fps[i].ref, fps[i].pads[j].num>>
    BY <1>1 DEF OnNet
  <2>2. CASE x # NoNet
    <3>1. x \in DOMAIN t.nets
      BY <2>1, <2>2, BoardNetsFacts
    <3>2. m \in BoardNets[x]
      BY <2>1, <3>1, BoardNetsFacts
    <3>3. m \in GenNets(t)[x]
      BY <3>1, <3>2 DEF SameNodes
    <3>4. PICK k \in Range(t.nets[x]) : m = <<k[1], Str(k[2])>>
      BY <3>1, <3>3, GenNetsFacts
    <3>5. k = n
      BY <1>2, <3>1, <3>4, NodeOfPad
    <3> QED BY <3>1, <3>5, NodeOfPad
  <2>3. CASE x = NoNet
    <3>1. SUFFICES ASSUME NetOf(t, n) # NoNet PROVE FALSE
      BY <2>3
    <3> DEFINE y == NetOf(t, n)
    <3>2. y \in DOMAIN t.nets /\ n \in Range(t.nets[y]) /\ y # NoNet
      BY <3>1, NetOfFacts
    <3>3. m = <<n[1], Str(n[2])>>
      OBVIOUS
    <3> HIDE DEF y, n, m
    <3>4. m \in GenNets(t)[y]
      BY <3>2, <3>3, GenNetsFacts
    <3>5. m \in BoardNets[y] /\ y \in DOMAIN BoardNets
      BY <3>2, <3>4 DEF SameNodes
    <3>6. PICK k, l : OnNet(k, l, y) /\ m = <<fps[k].ref, fps[k].pads[l].num>>
      BY <3>5, BoardNetsFacts
    <3>7. k = i
      BY <3>6 DEF OnNet, m
    <3>8. l \in DOMAIN pins /\ f.pads[l].net = y /\ Str(pins[l]) = Str(pins[j])
      BY <1>1, <3>6, <3>7 DEF OnNet, m
    <3>9. l = j
      BY <1>2, <3>8, StrFacts DEF IsInjective
    <3> QED BY <2>3, <3>2, <3>8, <3>9
  <2> QED BY <2>2, <2>3
<1>4. f.pads = [j \in DOMAIN pins |-> [num |-> Str(pins[j]), net |-> NetOf(t, <<r, pins[j]>>)]]
  <2>1. f.pads = [j \in DOMAIN f.pads |-> f.pads[j]]
    BY <1>1 DEF IsList
  <2>2. \A j \in DOMAIN pins : f.pads[j] = [num |-> Str(pins[j]), net |-> NetOf(t, <<r, pins[j]>>)]
    BY <1>1, <1>3
  <2> HIDE DEF f, r, pins
  <2> QED BY <1>1, <2>1, <2>2
<1> QED BY <1>1, <1>4 DEF Footprint

\* A board check_pcb.py passes has been saved to its end, and has the parts and
\* the wiring of the tables.
THEOREM CheckedBoardHasTheWiring == Spec => []CheckedBoardIsDesign
<1>1. BoardInv => CheckedBoardIsDesign
  <2> SUFFICES ASSUME BoardInv, NEW r \in Revs, Loaded, CheckPasses(r)
               PROVE  Whole /\ (NoCopies => Wiring(board) = Wiring(Imported(Tables(design, r))))
    BY DEF CheckedBoardIsDesign
  <2> DEFINE t == Tables(design, r)
  <2>1. TableOk(t) /\ "J3" \in DOMAIN t.comp
    BY TablesOk DEF BoardInv
  <2>2. SameRefs(t) /\ DOMAIN BoardNets = DOMAIN t.nets /\ SameNodes(t)
    BY DEF CheckPasses
  <2>3. fps # <<>>
    <3>1. SUFFICES ASSUME fps = <<>> PROVE FALSE
      OBVIOUS
    <3>2. BoardRefs = {}
      BY <3>1 DEF BoardRefs
    <3> QED BY <2>1, <2>2, <3>2 DEF SameRefs
  <2>4. Whole
    BY <2>3, TornLoadsNothing DEF BoardInv, Loaded
  <2>5. fps = board /\ GoodBoard(fps, Tables(design, rev))
    BY <2>4, WholeLoads DEF BoardInv
  <2>6. r = rev
    BY <2>2, <2>5, RevOfBoard
  <2> HIDE DEF t
  <2>7. GoodBoard(fps, t)
    BY <2>5, <2>6 DEF t
  <2>8. ASSUME NoCopies PROVE Wiring(board) = Wiring(Imported(t))
    <3>1. \A i, j \in DOMAIN fps : fps[i].ref = fps[j].ref => i = j
      BY <2>5, <2>8 DEF NoCopies
    <3>2. \A i \in DOMAIN fps : fps[i] = Footprint(t, fps[i].ref)
      BY <2>1, <2>2, <2>7, <3>1, CheckedFootprint
    <3>3. FaithfulBoard(board, t)
      BY <2>2, <2>5, <3>2 DEF FaithfulBoard, SameRefs, BoardRefs
    <3>4. FaithfulBoard(Imported(t), t)
      BY <2>1, ImportedBoard DEF FaithfulBoard
    <3> QED BY <3>3, <3>4, FaithfulWiring
  <2> QED BY <2>4, <2>8 DEF t
<1> QED BY <1>1, BoardInit, BoardStep, PTL DEF Spec

-----------------------------------------------------------------------------
(* A board as it was imported. *)

\* Each pin has its pad.
LEMMA PadOfPin ==
  ASSUME NEW t, TableOk(t), FaithfulBoard(fps, t), NEW r \in DOMAIN t.comp, NEW p \in t.comp[r].pins
  PROVE  \E i, j : /\ OnNet(i, j, NetOf(t, <<r, p>>))
                   /\ <<r, Str(p)>> = <<fps[i].ref, fps[i].pads[j].num>>
<1> DEFINE pins == Sorted(t.comp[r].pins, PinOrder)
<1>1. PICK i \in DOMAIN fps : fps[i].ref = r
  BY DEF FaithfulBoard
<1>2. fps[i] = Footprint(t, r)
  BY <1>1 DEF FaithfulBoard
<1>3. /\ DOMAIN fps[i].pads = DOMAIN pins
      /\ \A j \in DOMAIN pins :
           fps[i].pads[j] = [num |-> Str(pins[j]), net |-> NetOf(t, <<r, pins[j]>>)]
  BY <1>2 DEF Footprint
<1>4. PICK j \in DOMAIN pins : pins[j] = p
  BY PinsFacts DEF Range
<1> DEFINE net == NetOf(t, <<r, p>>)
           num == Str(p)
<1>5. fps[i].pads[j] = [num |-> num, net |-> net] /\ j \in DOMAIN fps[i].pads
  BY <1>3, <1>4
<1> HIDE DEF net, num
<1>6. fps[i].pads[j].num = num /\ fps[i].pads[j].net = net
  BY <1>5
<1>7. OnNet(i, j, net) /\ <<r, num>> = <<fps[i].ref, fps[i].pads[j].num>>
  BY <1>1, <1>5, <1>6 DEF OnNet
<1> QED BY <1>7, Zenon DEF net, num

\* Each pad is a pin's.
LEMMA PinOfPad ==
  ASSUME NEW t, TableOk(t), FaithfulBoard(fps, t), NEW i, NEW j, NEW net, OnNet(i, j, net)
  PROVE  \E n : /\ net = NetOf(t, n)
                /\ <<n[1], Str(n[2])>> = <<fps[i].ref, fps[i].pads[j].num>>
<1> DEFINE r == fps[i].ref
           pins == Sorted(t.comp[r].pins, PinOrder)
           n == <<r, pins[j]>>
<1>1. fps[i] = Footprint(t, r)
  BY DEF FaithfulBoard, OnNet
<1>2. /\ DOMAIN fps[i].pads = DOMAIN pins
      /\ \A k \in DOMAIN pins :
           fps[i].pads[k] = [num |-> Str(pins[k]), net |-> NetOf(t, <<r, pins[k]>>)]
  <2>1. fps[i].pads = Footprint(t, r).pads
    BY ONLY <1>1
  <2> QED BY ONLY <2>1 DEF Footprint
<1>3. j \in DOMAIN pins /\ fps[i].pads[j].net = net
  BY <1>2 DEF OnNet
<1> DEFINE num == Str(pins[j])
           o == NetOf(t, n)
<1>4. fps[i].pads[j] = [num |-> num, net |-> o] /\ n[1] = r /\ Str(n[2]) = num
  BY <1>2, <1>3
<1> HIDE DEF num, o, n
<1>5. fps[i].pads[j].num = num /\ fps[i].pads[j].net = o
  BY <1>4
<1>6. net = NetOf(t, n) /\ <<n[1], Str(n[2])>> = <<fps[i].ref, fps[i].pads[j].num>>
  BY <1>3, <1>4, <1>5 DEF o
<1> QED BY <1>6, Zenon

\* Such a board has the nets of t, but for the empty ones.
LEMMA FaithfulNodes ==
  ASSUME NEW t, TableOk(t), FaithfulBoard(fps, t)
  PROVE  /\ DOMAIN BoardNets \subseteq DOMAIN t.nets
         /\ \A net \in DOMAIN t.nets : Range(t.nets[net]) # {} => net \in DOMAIN BoardNets
         /\ \A net \in DOMAIN t.nets : net \in DOMAIN BoardNets => GenNets(t)[net] = BoardNets[net]
<1>1. ASSUME NEW net \in DOMAIN BoardNets PROVE net \in DOMAIN t.nets
  <2>1. PICK i, j : OnNet(i, j, net)
    BY BoardNetsFacts
  <2>2. PICK n : net = NetOf(t, n)
    BY <2>1, PinOfPad
  <2>3. net # NoNet
    BY BoardNetsFacts
  <2> QED BY <2>2, <2>3, NetOfFacts
<1>2. ASSUME NEW net \in DOMAIN t.nets, NEW n \in Range(t.nets[net])
      PROVE  \E i, j : OnNet(i, j, net) /\ <<n[1], Str(n[2])>> = <<fps[i].ref, fps[i].pads[j].num>>
  <2>1. /\ n[1] \in DOMAIN t.comp /\ n[2] \in t.comp[n[1]].pins /\ n = <<n[1], n[2]>>
        /\ NetOf(t, n) = net
    BY NodeOfPad
  <2> DEFINE a == n[1]
             p == n[2]
  <2>2. a \in DOMAIN t.comp /\ p \in t.comp[a].pins /\ NetOf(t, <<a, p>>) = net
    BY <2>1
  <2> HIDE DEF a, p
  <2>3. \E i, j : /\ OnNet(i, j, NetOf(t, <<a, p>>))
                  /\ <<a, Str(p)>> = <<fps[i].ref, fps[i].pads[j].num>>
    BY <2>2, PadOfPin
  <2> QED BY <2>2, <2>3 DEF a, p
<1>3. ASSUME NEW net \in DOMAIN t.nets, Range(t.nets[net]) # {} PROVE net \in DOMAIN BoardNets
  <2>1. PICK n : n \in Range(t.nets[net])
    BY <1>3
  <2>2. net # NoNet
    BY <2>1, NodeOfPad
  <2>3. \E i, j : OnNet(i, j, net)
    BY <1>2, <2>1
  <2> QED BY <2>2, <2>3, BoardNetsFacts
<1>4. ASSUME NEW net \in DOMAIN t.nets, net \in DOMAIN BoardNets
      PROVE  GenNets(t)[net] = BoardNets[net]
  <2>1. ASSUME NEW m \in GenNets(t)[net] PROVE m \in BoardNets[net]
    <3>1. PICK n \in Range(t.nets[net]) : m = <<n[1], Str(n[2])>>
      BY GenNetsFacts
    <3> QED BY <1>2, <1>4, <3>1, BoardNetsFacts
  <2>2. ASSUME NEW m \in BoardNets[net] PROVE m \in GenNets(t)[net]
    <3>1. PICK i, j : OnNet(i, j, net) /\ m = <<fps[i].ref, fps[i].pads[j].num>>
      BY <1>4, BoardNetsFacts
    <3>2. PICK n : net = NetOf(t, n) /\ <<n[1], Str(n[2])>> = <<fps[i].ref, fps[i].pads[j].num>>
      BY <3>1, PinOfPad
    <3>3. net # NoNet
      BY <1>4, BoardNetsFacts
    <3>4. n \in Range(t.nets[net])
      BY <3>2, <3>3, NetOfFacts
    <3> QED BY <3>1, <3>2, <3>4, GenNetsFacts
  <2> QED BY <2>1, <2>2
<1> QED BY <1>1, <1>3, <1>4

\* Two nodes of a net are two places in its list, and two pads.
LEMMA TwoNodes ==
  ASSUME NEW t, TableOk(t), NEW net \in DOMAIN t.nets
  PROVE  (\E n, m \in GenNets(t)[net] : n # m) <=> Len(t.nets[net]) > 1
<1> DEFINE s == t.nets[net]
<1>1. DOMAIN s = 1 .. Len(s) /\ Len(s) \in Nat
  BY DEF TableOk
<1>2. ASSUME Len(s) > 1 PROVE \E n, m \in GenNets(t)[net] : n # m
  <2> DEFINE x == s[1]
             y == s[2]
             n == <<x[1], Str(x[2])>>
             m == <<y[1], Str(y[2])>>
  <2>1. 1 \in DOMAIN s /\ 2 \in DOMAIN s
    BY <1>1, <1>2
  <2>2. x \in Range(s) /\ y \in Range(s)
    BY <2>1 DEF Range
  <2>3. x # y
    <3> DEFINE p == <<net, 1>>
               q == <<net, 2>>
    <3>1. p \in Places(t.nets) /\ q \in Places(t.nets) /\ p # q
      BY <2>1 DEF Places
    <3>2. NodeAt(t.nets, p) = x /\ NodeAt(t.nets, q) = y
      BY DEF NodeAt
    <3> HIDE DEF p, q
    <3> QED BY <3>1, <3>2 DEF TableOk, OneNet
  <2>4. n \in GenNets(t)[net] /\ m \in GenNets(t)[net]
    BY <2>2, GenNetsFacts
  <2>5. n # m
    <3> HIDE DEF x, y, s
    <3>1. x \in Range(t.nets[net]) /\ y \in Range(t.nets[net])
      BY <2>2 DEF s
    <3>2. y = <<y[1], y[2]>> /\ y[2] \in 1 .. 10
      BY <3>1, NodeOfPad
    <3>3. n = m => x = <<y[1], y[2]>>
      BY <3>1, <3>2, NodeOfPad
    <3> QED BY <2>3, <3>2, <3>3
  <2> HIDE DEF n, m
  <2> QED BY <2>4, <2>5
<1>3. ASSUME NEW n \in GenNets(t)[net], NEW m \in GenNets(t)[net], n # m PROVE Len(s) > 1
  <2>1. PICK x \in Range(s) : n = <<x[1], Str(x[2])>>
    BY GenNetsFacts
  <2>2. PICK y \in Range(s) : m = <<y[1], Str(y[2])>>
    BY GenNetsFacts
  <2>3. x # y
    BY <1>3, <2>1, <2>2
  <2>4. PICK i \in DOMAIN s : x = s[i]
    BY DEF Range
  <2>5. PICK j \in DOMAIN s : y = s[j]
    BY DEF Range
  <2>6. i # j
    BY <2>3, <2>4, <2>5
  <2> HIDE DEF s
  <2> QED BY <1>1, <2>6
<1> QED BY <1>2, <1>3

\* check_pcb.py raises no false alarm: a board just imported passes for its
\* revision and no other, unless a net has a single node.
THEOREM FreshBoardAgrees == Spec => []FreshBoardPasses
<1>1. BoardInv => FreshBoardPasses
  <2> SUFFICES ASSUME BoardInv, Loaded, touches = 0, Whole, NEW r \in Revs
               PROVE  CheckPasses(r) <=> r = rev /\ NoLonelyNet(r)
    BY DEF FreshBoardPasses
  <2> DEFINE t == Tables(design, r)
             own == Tables(design, rev)
  <2>1. TableOk(t) /\ TableOk(own)
    BY TablesOk DEF BoardInv
  <2>2. fps = Imported(own)
    BY WholeLoads DEF BoardInv
  <2>3. GoodBoard(fps, own) /\ FaithfulBoard(fps, own)
    BY <2>1, <2>2, ImportedBoard DEF FaithfulBoard
  <2>4. SameRefs(t) => r = rev
    BY <2>3, RevOfBoard
  <2>5. SameRefs(own)
    BY <2>3 DEF SameRefs, BoardRefs, FaithfulBoard
  <2> HIDE DEF t, own
  <2>6. ASSUME CheckPasses(r) PROVE r = rev /\ NoLonelyNet(r)
    <3>1. /\ SameRefs(t) /\ DOMAIN BoardNets = DOMAIN t.nets /\ SameNodes(t)
          /\ \A net \in DOMAIN BoardNets : \E n, m \in BoardNets[net] : n # m
      BY <2>6 DEF CheckPasses, t
    <3>2. \A net \in DOMAIN t.nets : Len(t.nets[net]) > 1
      <4> TAKE net \in DOMAIN t.nets
      <4>1. BoardNets[net] = GenNets(t)[net]
        BY <3>1 DEF SameNodes
      <4>2. \E n, m \in GenNets(t)[net] : n # m
        BY <3>1, <4>1
      <4> QED BY <2>1, <4>2, TwoNodes
    <3> QED BY <2>4, <3>1, <3>2 DEF NoLonelyNet, t
  <2>7. ASSUME r = rev, NoLonelyNet(r) PROVE CheckPasses(r)
    <3>1. t = own
      BY <2>7 DEF t, own
    <3>2. \A net \in DOMAIN t.nets : Len(t.nets[net]) > 1
      BY <2>7 DEF NoLonelyNet, t
    <3>3. \A net \in DOMAIN t.nets : Range(t.nets[net]) # {}
      <4> TAKE net \in DOMAIN t.nets
      <4>1. t.nets[net] \in Seq(PinsOf(t.comp)) /\ Len(t.nets[net]) > 1
        BY <2>1, <3>2 DEF TableOk
      <4>2. 1 \in DOMAIN t.nets[net]
        BY <4>1
      <4> QED BY <4>2 DEF Range
    <3>4. DOMAIN BoardNets = DOMAIN t.nets
      BY <2>1, <2>3, <3>1, <3>3, FaithfulNodes
    <3>5. \A net \in DOMAIN t.nets : GenNets(t)[net] = BoardNets[net]
      BY <2>1, <2>3, <3>1, <3>4, FaithfulNodes
    <3>6. \A net \in DOMAIN BoardNets : \E n, m \in BoardNets[net] : n # m
      <4> TAKE net \in DOMAIN BoardNets
      <4>1. \E n, m \in GenNets(t)[net] : n # m
        BY <2>1, <3>2, <3>4, TwoNodes
      <4> QED BY <3>4, <3>5, <4>1
    <3> QED BY <2>5, <3>1, <3>4, <3>5, <3>6 DEF CheckPasses, SameNodes, t
  <2> QED BY <2>6, <2>7
<1> QED BY <1>1, BoardInit, BoardStep, PTL DEF Spec
=============================================================================
