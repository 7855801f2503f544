--------------------------- MODULE Homeworks_proof --------------------------
(***************************************************************************)
(* Proofs about the programs of Homeworks 3, 1 and 4: the wholesaler, the  *)
(* replacement in a file and the supplier, each for every value of its     *)
(* constants.  The three have nothing in common but their size, and no     *)
(* definition of one uses a variable of another.                           *)
(***************************************************************************)
EXTENDS Wholesaler, Replace, Supplier, FiniteSetTheorems, SequenceTheorems,
        WellFoundedInduction, TLAPS

\* Two ingredients are a chef, and there are no other chefs.
LEMMA Pairs ==
    ASSUME NEW g \in Ingredients, NEW h \in Ingredients
    PROVE  /\ g # h => {g, h} \in Chefs
           /\ g = h => {g, h} \notin Chefs
<1>1. IsFiniteSet({g}) /\ Cardinality({g}) = 1
  BY FS_Singleton
<1>2. g # h => Cardinality({g} \union {h}) = 2
  BY <1>1, FS_AddElement
<1>3. {g} \union {h} = {g, h}
  OBVIOUS
<1>4. QED BY <1>1, <1>2, <1>3 DEF Chefs

LEMMA ChefsAreSix ==
    /\ \A k \in 1 .. 6 : ChefOrder[k] \in Chefs
    /\ \A d \in Chefs : \E k \in 1 .. 6 : d = ChefOrder[k]
    /\ \A k, l \in 1 .. 6 : ChefOrder[k] = ChefOrder[l] => k = l
    /\ Len(ChefOrder) = 6
<1>1. /\ ChefOrder[1] = {"Walnuts", "Sugar"} /\ ChefOrder[2] = {"Flour", "Walnuts"}
      /\ ChefOrder[3] = {"Sugar", "Flour"} /\ ChefOrder[4] = {"Milk", "Flour"}
      /\ ChefOrder[5] = {"Milk", "Walnuts"} /\ ChefOrder[6] = {"Sugar", "Milk"}
      /\ Len(ChefOrder) = 6
  BY DEF ChefOrder
<1>2. ASSUME NEW k \in 1 .. 6 PROVE ChefOrder[k] \in Chefs
  <2>1. /\ {"Walnuts", "Sugar"} \in Chefs /\ {"Flour", "Walnuts"} \in Chefs
        /\ {"Sugar", "Flour"} \in Chefs /\ {"Milk", "Flour"} \in Chefs
        /\ {"Milk", "Walnuts"} \in Chefs /\ {"Sugar", "Milk"} \in Chefs
    BY Pairs DEF Ingredients
  <2>2. k = 1 \/ k = 2 \/ k = 3 \/ k = 4 \/ k = 5 \/ k = 6
    OBVIOUS
  <2>3. QED BY <1>1, <2>1, <2>2
<1>3. ASSUME NEW d \in Chefs PROVE \E k \in 1 .. 6 : d = ChefOrder[k]
  <2>1. PICK g, h \in Ingredients : g # h /\ d = {g, h}
    <3>1. /\ d \subseteq Ingredients /\ Cardinality(d) = 2
          /\ IsFiniteSet(Ingredients)
      <4>1. IsFiniteSet({"Milk"} \union {"Sugar"})
        BY FS_Singleton, FS_AddElement
      <4>2. IsFiniteSet({"Milk"} \union {"Sugar"} \union {"Flour"})
        BY <4>1, FS_AddElement
      <4>3. IsFiniteSet({"Milk"} \union {"Sugar"} \union {"Flour"} \union {"Walnuts"})
        BY <4>2, FS_AddElement
      <4>4. Ingredients = {"Milk"} \union {"Sugar"} \union {"Flour"} \union {"Walnuts"}
        BY DEF Ingredients
      <4>5. IsFiniteSet(Ingredients)
        BY <4>3, <4>4
      <4>6. QED BY <4>5 DEF Chefs
    <3>2. IsFiniteSet(d)
      BY <3>1, FS_Subset
    <3>3. PICK g \in d : TRUE
      BY <3>1, FS_EmptySet
    <3>4. IsFiniteSet(d \ {g}) /\ Cardinality(d \ {g}) = 1
      BY <3>1, <3>2, <3>3, FS_RemoveElement
    <3>5. PICK h : d \ {g} = {h}
      BY <3>4, FS_Singleton
    <3>6. d = {g, h} /\ g # h
      BY <3>3, <3>5
    <3>7. QED BY <3>1, <3>6
  <2>2. \/ d = {"Milk", "Sugar"} \/ d = {"Milk", "Flour"} \/ d = {"Milk", "Walnuts"}
        \/ d = {"Sugar", "Flour"} \/ d = {"Sugar", "Walnuts"}
        \/ d = {"Flour", "Walnuts"}
    BY <2>1 DEF Ingredients
  <2>3. QED BY <1>1, <2>2
<1>4. ASSUME NEW k \in 1 .. 6, NEW l \in 1 .. 6, ChefOrder[k] = ChefOrder[l]
      PROVE  k = l
  <2>1. k \in {1, 2, 3, 4, 5, 6} /\ l \in {1, 2, 3, 4, 5, 6}
    OBVIOUS
  <2>2. QED BY <1>1, <1>4, <2>1
<1>5. QED BY <1>1, <1>2, <1>3, <1>4
-----------------------------------------------------------------------------
\* What a pusher does with no ingredient, with no flag, and with one flag
\* that it tests.
State(s, f, m) == [sem |-> s, is |-> f, made |-> m]
Less(s, g) == [s EXCEPT ![g] = @ - 1]

LEMMA PusherIdle ==
    ASSUME NEW s, NEW f, NEW m, NEW g \in Ingredients, s[g] = 0
    PROVE  Pusher(g, State(s, f, m)) = State(s, f, m)
BY DEF Pusher, State

LEMMA PusherMatches ==
    ASSUME NEW s \in [Ingredients -> Nat], NEW f, NEW m, NEW g \in Ingredients,
           s[g] # 0
    PROVE  Pusher(g, State(s, f, m)) = Match(g, State(Less(s, g), f, m))
BY DEF Pusher, State, Less

LEMMA MatchFlags ==
    ASSUME NEW s, NEW f, NEW m, NEW g \in Ingredients,
           \A k \in 1 .. 3 : Tests[g][k] \notin f
    PROVE  Match(g, State(s, f, m)) = State(s, f \union {g}, m)
<1>1. Flagged(g, f) = {}
  BY DEF Flagged
<1>2. QED BY <1>1 DEF Match, State

\* Milk and walnuts look for each other in no order.
Tested(g, q) == ~ (g = "Walnuts" /\ q = "Milk") /\ ~ (g = "Milk" /\ q = "Walnuts")

\* Names for the sets that State holds, which the provers need not open.
Single(q) == {q}
Without(D, g) == D \ {g}
With(m, g, q) == m \union {{g, q}}

LEMMA MatchMakes ==
    ASSUME NEW s, NEW m, NEW g \in Ingredients, NEW q \in Ingredients, q # g,
           Tested(g, q)
    PROVE  Match(g, State(s, Single(q), m)) = State(s, {}, With(m, g, q))
<1>1. PICK k \in 1 .. 3 : Tests[g][k] = q
  <2>1. /\ g = "Milk" \/ g = "Sugar" \/ g = "Flour" \/ g = "Walnuts"
        /\ q = "Milk" \/ q = "Sugar" \/ q = "Flour" \/ q = "Walnuts"
    BY DEF Ingredients
  <2>2. QED BY <2>1 DEF Tests, Tested
<1>2. \A l \in 1 .. 3 : Tests[g][l] = q => l = k
  BY <1>1 DEF Tests, Ingredients
<1>3. Flagged(g, {q}) = {k}
  BY <1>1, <1>2 DEF Flagged
<1>4. Found(g, {q}) = q
  BY <1>1, <1>3 DEF Found
<1>5. Posted(g, q) = {g, q} /\ {q} \ ({g, q} \ {g}) = {}
  BY DEF Posted
<1>6. QED BY <1>3, <1>4, <1>5 DEF Match, State, Single, With

\* Ingredient semaphores that are 1 for the members of D.
One(D) == [g \in Ingredients |-> IF g \in D THEN 1 ELSE 0]

LEMMA PusherPasses ==
    ASSUME NEW D, NEW f, NEW m, NEW g \in Ingredients, g \notin D
    PROVE  Pusher(g, State(One(D), f, m)) = State(One(D), f, m)
<1>1. One(D)[g] = 0
  BY DEF One
<1>2. QED BY <1>1, PusherIdle

LEMMA PusherTakes ==
    ASSUME NEW D, NEW f, NEW m, NEW g \in Ingredients, g \in D
    PROVE  Pusher(g, State(One(D), f, m)) = Match(g, State(One(D \ {g}), f, m))
<1>1. One(D) \in [Ingredients -> Nat] /\ One(D)[g] # 0
  BY DEF One
<1>2. Less(One(D), g) = One(D \ {g})
  <2>1. \A k \in Ingredients :
            [One(D) EXCEPT ![g] = @ - 1][k] = IF k \in D \ {g} THEN 1 ELSE 0
    BY DEF One
  <2>2. Less(One(D), g) = [k \in Ingredients |-> Less(One(D), g)[k]]
    BY <1>1 DEF Less
  <2>3. QED BY <2>1, <2>2 DEF One, Less
<1>3. QED BY <1>1, <1>2, PusherMatches

LEMMA PusherFlags ==
    ASSUME NEW D, NEW m, NEW g \in Ingredients, g \in D
    PROVE  Pusher(g, State(One(D), {}, m)) = State(One(D \ {g}), {g}, m)
<1>1. Match(g, State(One(D \ {g}), {}, m)) = State(One(D \ {g}), {} \union {g}, m)
  BY MatchFlags
<1>2. {} \union {g} = {g}
  OBVIOUS
<1>3. QED BY <1>1, <1>2, PusherTakes

LEMMA PusherMakes ==
    ASSUME NEW D, NEW m, NEW g \in Ingredients, g \in D, NEW q \in Ingredients, q # g,
           Tested(g, q)
    PROVE  Pusher(g, State(One(D), Single(q), m)) =
               State(One(Without(D, g)), {}, With(m, g, q))
<1>1. \A s : Match(g, State(s, Single(q), m)) = State(s, {}, With(m, g, q))
  BY MatchMakes
<1>2. QED BY <1>1, PusherTakes DEF Without

LEMMA WalnutsAfterMilk ==
    ASSUME NEW D, NEW m, "Walnuts" \in D
    PROVE  Pusher("Walnuts", State(One(D), {"Milk"}, m)) =
               State(One(D \ {"Walnuts"}), {"Milk", "Walnuts"}, m)
<1>1. \A k \in 1 .. 3 : Tests["Walnuts"][k] \notin {"Milk"}
  BY DEF Tests
<1>2. "Walnuts" \in Ingredients
  BY DEF Ingredients
<1>3. Match("Walnuts", State(One(D \ {"Walnuts"}), {"Milk"}, m)) =
          State(One(D \ {"Walnuts"}), {"Milk"} \union {"Walnuts"}, m)
  BY <1>1, <1>2, MatchFlags
<1>4. {"Milk"} \union {"Walnuts"} = {"Milk", "Walnuts"}
  OBVIOUS
<1>5. QED BY <1>2, <1>3, <1>4, PusherTakes

\* What the pushers make of the two letters of a line, when nothing was left
\* of the lines before.
LEMMA PushersMakeThePair ==
    ASSUME NEW g \in Ingredients, NEW h \in Ingredients, g # h
    PROVE  Pushed(One({g, h})) =
               IF {g, h} = {"Milk", "Walnuts"}
               THEN State(One({}), {"Milk", "Walnuts"}, {})
               ELSE State(One({}), {}, {{g, h}})
<1> DEFINE D == {g, h}
           st1 == Pusher("Milk", State(One(D), {}, {}))
           st2 == Pusher("Sugar", st1)
           st3 == Pusher("Flour", st2)
           st4 == Pusher("Walnuts", st3)
<1>1. Pushed(One(D)) = st4
  BY DEF Pushed, State
<1>2. /\ "Milk" \in Ingredients /\ "Sugar" \in Ingredients
      /\ "Flour" \in Ingredients /\ "Walnuts" \in Ingredients
      /\ Ingredients \subseteq {"Milk", "Sugar", "Flour", "Walnuts"}
  BY DEF Ingredients
<1>3. /\ D \in SUBSET Ingredients
      /\ \/ D = {"Milk", "Sugar"} \/ D = {"Milk", "Flour"} \/ D = {"Milk", "Walnuts"}
         \/ D = {"Sugar", "Flour"} \/ D = {"Sugar", "Walnuts"} \/ D = {"Flour", "Walnuts"}
  BY DEF Ingredients
<1> HIDE DEF D, st1, st2, st3, st4
<1>4. st1 = State(One(D \ {"Milk"}), D \intersect {"Milk"}, {})
  <2>1. CASE "Milk" \in D
    <3>1. D \intersect {"Milk"} = {"Milk"}
      BY <2>1
    <3>2. QED BY <1>2, <1>3, <2>1, <3>1, PusherFlags DEF st1
  <2>2. CASE "Milk" \notin D
    <3>1. D \intersect {"Milk"} = {} /\ D \ {"Milk"} = D
      BY <2>2
    <3>2. QED BY <1>2, <1>3, <2>2, <3>1, PusherPasses DEF st1
  <2>3. QED BY <2>1, <2>2
<1>5. st2 = IF D = {"Milk", "Sugar"} THEN State(One({}), {}, {D})
            ELSE State(One(D \ {"Milk", "Sugar"}), D \intersect {"Milk", "Sugar"}, {})
  <2> DEFINE E == D \ {"Milk"}
  <2>0. E \in SUBSET Ingredients /\ E \ {"Sugar"} = D \ {"Milk", "Sugar"}
    BY <1>3
  <2>1. CASE "Sugar" \notin D
    <3>1. /\ D \intersect {"Milk"} = D \intersect {"Milk", "Sugar"}
          /\ E = D \ {"Milk", "Sugar"} /\ D # {"Milk", "Sugar"}
          /\ "Sugar" \notin E /\ D \intersect {"Milk"} \in SUBSET Ingredients
      BY <1>3, <2>1
    <3>2. st2 = st1
      BY <1>2, <1>4, <2>0, <3>1, PusherPasses DEF st2
    <3>3. QED BY <1>4, <3>1, <3>2
  <2>2. CASE "Sugar" \in D /\ "Milk" \notin D
    <3>1. /\ D \intersect {"Milk"} = {} /\ D \intersect {"Milk", "Sugar"} = {"Sugar"}
          /\ D # {"Milk", "Sugar"} /\ "Sugar" \in E
      BY <2>2
    <3>2. st2 = State(One(E \ {"Sugar"}), {"Sugar"}, {})
      BY <1>2, <1>4, <2>0, <3>1, PusherFlags DEF st2
    <3>3. QED BY <2>0, <3>1, <3>2
  <2>3. CASE D = {"Milk", "Sugar"}
    <3>1. /\ D \intersect {"Milk"} = {"Milk"} /\ "Sugar" \in E /\ E \ {"Sugar"} = {}
          /\ D = {"Sugar", "Milk"}
      BY <2>3
    <3>2. Tested("Sugar", "Milk") /\ "Milk" # "Sugar"
      BY DEF Tested
    <3>3. Pusher("Sugar", State(One(E), Single("Milk"), {})) =
              State(One(Without(E, "Sugar")), {}, With({}, "Sugar", "Milk"))
      BY <1>2, <3>1, <3>2, PusherMakes
    <3>5. /\ D \intersect {"Milk"} = Single("Milk") /\ Without(E, "Sugar") = {}
          /\ With({}, "Sugar", "Milk") = {D}
      BY <3>1 DEF Single, Without, With
    <3>6. QED BY <1>4, <2>3, <3>3, <3>5 DEF st2
  <2>4. QED BY <1>3, <2>1, <2>2, <2>3
<1>6. st3 = IF "Walnuts" \notin D THEN State(One({}), {}, {D})
            ELSE State(One({"Walnuts"}), D \ {"Walnuts"}, {})
  <2> DEFINE E == D \ {"Milk", "Sugar"}
  <2>1. CASE D = {"Milk", "Sugar"}
    <3>1. Pusher("Flour", State(One({}), {}, {D})) = State(One({}), {}, {D})
      BY <1>2, PusherPasses
    <3>2. "Walnuts" \notin D
      BY <2>1
    <3>3. QED BY <1>5, <2>1, <3>1, <3>2 DEF st3
  <2>2. CASE "Flour" \notin D /\ D # {"Milk", "Sugar"}
    <3>1. /\ E = {"Walnuts"} /\ "Flour" \notin E /\ "Walnuts" \in D
          /\ D \intersect {"Milk", "Sugar"} = D \ {"Walnuts"}
      BY <1>3, <2>2
    <3>2. Pusher("Flour", State(One(E), D \ {"Walnuts"}, {})) =
              State(One(E), D \ {"Walnuts"}, {})
      BY <1>2, <3>1, PusherPasses
    <3>3. QED BY <1>5, <2>2, <3>1, <3>2 DEF st3
  <2>3. CASE D = {"Flour", "Walnuts"}
    <3>1. /\ D \intersect {"Milk", "Sugar"} = {} /\ "Flour" \in E
          /\ E \ {"Flour"} = {"Walnuts"} /\ D \ {"Walnuts"} = {"Flour"}
          /\ D # {"Milk", "Sugar"} /\ "Walnuts" \in D
      BY <2>3
    <3>2. Pusher("Flour", State(One(E), {}, {})) = State(One(E \ {"Flour"}), {"Flour"}, {})
      BY <1>2, <3>1, PusherFlags
    <3>3. QED BY <1>5, <3>1, <3>2 DEF st3
  <2>4. ASSUME NEW q \in {"Milk", "Sugar"}, D = {"Flour", q}
        PROVE  st3 = State(One({}), {}, {D}) /\ "Walnuts" \notin D
    <3>0. q = "Milk" \/ q = "Sugar"
      OBVIOUS
    <3>1. /\ D \intersect {"Milk", "Sugar"} = {q} /\ "Flour" \in E
          /\ E \ {"Flour"} = {}
      BY <2>4, <3>0
    <3>5. "Flour" \in D /\ "Flour" \notin {"Milk", "Sugar"} /\ "Walnuts" \notin D
      BY <2>4, <3>0
    <3>2. Tested("Flour", q) /\ q # "Flour" /\ q \in Ingredients
      BY DEF Tested, Ingredients
    <3>3. Pusher("Flour", State(One(E), Single(q), {})) =
              State(One(Without(E, "Flour")), {}, With({}, "Flour", q))
      BY <1>2, <3>1, <3>2, PusherMakes
    <3>6. /\ D \intersect {"Milk", "Sugar"} = Single(q) /\ Without(E, "Flour") = {}
          /\ With({}, "Flour", q) = {D}
      BY <2>4, <3>1 DEF Single, Without, With
    <3>7. QED BY <1>5, <3>3, <3>5, <3>6 DEF st3
  <2>5. QED BY <1>3, <2>1, <2>2, <2>3, <2>4
<1>7. st4 = IF D = {"Milk", "Walnuts"} THEN State(One({}), {"Milk", "Walnuts"}, {})
            ELSE State(One({}), {}, {D})
  <2>1. CASE "Walnuts" \notin D
    <3>1. Pusher("Walnuts", State(One({}), {}, {D})) = State(One({}), {}, {D})
      BY <1>2, PusherPasses
    <3>2. D # {"Milk", "Walnuts"}
      BY <2>1
    <3>3. QED BY <1>6, <2>1, <3>1, <3>2 DEF st4
  <2>2. ASSUME NEW q \in {"Sugar", "Flour"}, D = {"Walnuts", q}
        PROVE  st4 = State(One({}), {}, {D}) /\ D # {"Milk", "Walnuts"}
    <3>1. /\ "Walnuts" \in D /\ D \ {"Walnuts"} = {q} /\ D # {"Milk", "Walnuts"}
          /\ {"Walnuts"} \ {"Walnuts"} = {} /\ "Walnuts" \in {"Walnuts"}
      BY <2>2
    <3>2. Tested("Walnuts", q) /\ q # "Walnuts" /\ q \in Ingredients
      BY DEF Tested, Ingredients
    <3>3. Pusher("Walnuts", State(One({"Walnuts"}), Single(q), {})) =
              State(One(Without({"Walnuts"}, "Walnuts")), {}, With({}, "Walnuts", q))
      BY <1>2, <3>1, <3>2, PusherMakes
    <3>5. /\ D \ {"Walnuts"} = Single(q) /\ Without({"Walnuts"}, "Walnuts") = {}
          /\ With({}, "Walnuts", q) = {D}
      BY <2>2, <3>1 DEF Single, Without, With
    <3>4. QED BY <1>6, <3>1, <3>3, <3>5 DEF st4
  <2>3. CASE D = {"Milk", "Walnuts"}
    <3>1. /\ "Walnuts" \in D /\ D \ {"Walnuts"} = {"Milk"}
          /\ {"Walnuts"} \ {"Walnuts"} = {} /\ "Walnuts" \in {"Walnuts"}
      BY <2>3
    <3>2. Pusher("Walnuts", State(One({"Walnuts"}), {"Milk"}, {})) =
              State(One({"Walnuts"} \ {"Walnuts"}), {"Milk", "Walnuts"}, {})
      BY <3>1, WalnutsAfterMilk
    <3>3. QED BY <1>6, <2>3, <3>1, <3>2 DEF st4
  <2>4. QED BY <1>3, <2>1, <2>2, <2>3
<1>8. QED BY <1>1, <1>7 DEF D

\* One ingredient alone, once or twice: its pusher flags it, and nobody answers.
LEMMA PushersLeaveOne ==
    ASSUME NEW g \in Ingredients, NEW s \in [Ingredients -> Nat], NEW number \in Nat \ {0},
           \A k \in Ingredients : s[k] = IF k = g THEN number ELSE 0
    PROVE  /\ Pushed(s).made = {}
           /\ Pushed(s).sem \in [Ingredients -> Nat]
<1> DEFINE old == State(s, {}, {})
           new == State(Less(s, g), {g}, {})
<1>1. Pushed(s) =
          Pusher("Walnuts", Pusher("Flour", Pusher("Sugar", Pusher("Milk", old))))
  BY DEF Pushed, State
<1>2. Pusher(g, old) = new
  <2>1. s[g] # 0
    OBVIOUS
  <2>2. Match(g, State(Less(s, g), {}, {})) = State(Less(s, g), {} \union {g}, {})
    BY MatchFlags
  <2>3. {} \union {g} = {g}
    OBVIOUS
  <2>4. QED BY <2>1, <2>2, <2>3, PusherMatches
<1>3. ASSUME NEW k \in Ingredients, k # g
      PROVE  Pusher(k, old) = old /\ Pusher(k, new) = new
  <2>1. s[k] = 0 /\ Less(s, g)[k] = 0
    BY <1>3 DEF Less
  <2>2. QED BY <2>1, PusherIdle
<1>4. Less(s, g) \in [Ingredients -> Nat]
  <2>1. s[g] - 1 \in Nat
    OBVIOUS
  <2>2. QED BY <2>1 DEF Less
<1> HIDE DEF old, new
<1>5. g = "Milk" \/ g = "Sugar" \/ g = "Flour" \/ g = "Walnuts"
  BY DEF Ingredients
<1>6. /\ "Milk" \in Ingredients /\ "Sugar" \in Ingredients
      /\ "Flour" \in Ingredients /\ "Walnuts" \in Ingredients
  BY DEF Ingredients
<1>7. Pushed(s) = new
  BY <1>1, <1>2, <1>3, <1>5, <1>6
<1>8. QED BY <1>4, <1>7 DEF new, State

\* No ingredient at all: nobody does anything.
LEMMA PushersLeaveNone ==
    /\ Pushed(One({})).made = {}
    /\ Pushed(One({})).sem = One({})
<1> DEFINE old == State(One({}), {}, {})
<1>1. Pushed(One({})) =
          Pusher("Walnuts", Pusher("Flour", Pusher("Sugar", Pusher("Milk", old))))
  BY DEF Pushed, State
<1>2. \A k \in Ingredients : Pusher(k, old) = old
  BY PusherPasses
<1> HIDE DEF old
<1>3. /\ "Milk" \in Ingredients /\ "Sugar" \in Ingredients
      /\ "Flour" \in Ingredients /\ "Walnuts" \in Ingredients
  BY DEF Ingredients
<1>4. Pushed(One({})) = old
  BY <1>1, <1>2, <1>3
<1>5. QED BY <1>4 DEF old, State

\* So for any line.
Both(g, h) == {g, h}
Answered(g, h) == Both(g, h) \in Chefs /\ Both(g, h) # Both("Milk", "Walnuts")

LEMMA Pushing ==
    ASSUME NEW g \in LineLetters, NEW h \in LineLetters,
           NEW st, st = Pushed(Post(Post(One({}), g), h))
    PROVE  /\ st.sem \in [Ingredients -> Nat]
           /\ Both(g, h) \in Chefs => st.sem = One({})
           /\ ~ Answered(g, h) => st.made = {}
           /\ Answered(g, h) => st.made = Single(Both(g, h))
<1> DEFINE s == Post(Post(One({}), g), h)
<1>1. /\ s \in [Ingredients -> Nat] /\ One({}) \in [Ingredients -> Nat]
      /\ \A k \in Ingredients :
            s[k] = IF k = g /\ k = h THEN 2 ELSE IF k = g \/ k = h THEN 1 ELSE 0
  BY DEF Post, One
<1>2. \A G : Both(g, h) = G /\ G \in Chefs => g # h /\ G \subseteq Ingredients
  <2>1. ASSUME Both(g, h) \in Chefs PROVE g # h
    <3>1. CASE g = h /\ g \in Ingredients
      BY <2>1, <3>1, Pairs DEF Both
    <3>2. CASE g = h /\ g \notin Ingredients
      BY <2>1, <3>2 DEF Both, Chefs
    <3>3. QED BY <3>1, <3>2
  <2>2. QED BY <2>1 DEF Chefs
<1> HIDE DEF s
<1>3. ASSUME NEW k \in Ingredients, g = k \/ h = k, g = h \/ "Other" \in {g, h}
      PROVE  Both(g, h) \notin Chefs /\ st.made = {} /\ st.sem \in [Ingredients -> Nat]
  <2>0. "Other" \notin Ingredients
    BY DEF Ingredients
  <2>1. \/ g = k /\ h = k
        \/ g = k /\ h = "Other"
        \/ g = "Other" /\ h = k
    BY <1>3, <2>0
  <2>2. PICK number \in {1, 2} : \A l \in Ingredients : s[l] = IF l = k THEN number ELSE 0
    BY <1>1, <2>0, <2>1
  <2>3. Pushed(s).made = {} /\ Pushed(s).sem \in [Ingredients -> Nat]
    BY <1>1, <2>2, PushersLeaveOne
  <2>4. Both(g, h) \notin Chefs
    BY <1>2, <2>0, <2>1 DEF Both
  <2>5. QED BY <2>3, <2>4 DEF s
<1>4. CASE g = "Other" /\ h = "Other"
  <2>0. "Other" \notin Ingredients
    BY DEF Ingredients
  <2>1. s = One({})
    BY <1>1, <1>4, <2>0 DEF One
  <2>2. Both(g, h) \notin Chefs
    BY <1>2, <1>4
  <2>3. QED BY <1>1, <2>1, <2>2, PushersLeaveNone DEF s, Answered
<1>5. CASE g \in Ingredients /\ h \in Ingredients /\ g # h
  <2>1. s = One({g, h})
    BY <1>1, <1>5 DEF One
  <2>2. st = IF {g, h} = {"Milk", "Walnuts"}
             THEN State(One({}), {"Milk", "Walnuts"}, {})
             ELSE State(One({}), {}, {{g, h}})
    BY <1>5, <2>1, PushersMakeThePair DEF s
  <2>3. CASE {g, h} = {"Milk", "Walnuts"}
    BY <1>1, <2>2, <2>3 DEF State, Answered, Both
  <2>4. CASE {g, h} # {"Milk", "Walnuts"}
    <3>1. st = State(One({}), {}, {{g, h}})
      BY <2>2, <2>4
    <3>2. st.sem = One({}) /\ st.made = {{g, h}}
      BY <3>1 DEF State
    <3>3. Answered(g, h)
      BY <1>5, <2>4, Pairs DEF Answered, Both
    <3>4. QED BY <1>1, <3>2, <3>3 DEF Single, Both
  <2>5. QED BY <2>3, <2>4
<1>6. \/ \E k \in Ingredients : (g = k \/ h = k) /\ (g = h \/ "Other" \in {g, h})
      \/ g = "Other" /\ h = "Other"
      \/ g \in Ingredients /\ h \in Ingredients /\ g # h
  BY DEF LineLetters
<1>7. QED BY <1>3, <1>4, <1>5, <1>6 DEF Answered
-----------------------------------------------------------------------------
\* What the processes have in hand, phase by phase: a pair that has been
\* delivered and not served is all there is, the ingredient semaphores are
\* back at 0 unless a line was of no two ingredients (then nobody is woken),
\* no chef is signalled while lines are read, and none is busy afterwards.
DeliveryInv ==
    /\ TypeOK /\ input \in Inputs
    /\ OneDelivery
    /\ agent = 1 \/ (\E d \in Chefs : Owed(d)) => sem = One({})
    /\ wpc = "agent" => signalled = {} /\ \A d \in Chefs : cpc[d] # "exited"
    /\ wpc \in {"kill", "waitpid", "done"} =>
          /\ agent = 0 /\ line = Len(input)
          /\ \A d \in Chefs : ~ Owed(d)
    /\ wpc = "waitpid" => i <= 6

\* The letters of a good line, and what is done for it.
Pair == {input[line + 1][1], input[line + 1][2]}
Odd == Pair \notin Chefs

LEMMA DeliverIs ==
    ASSUME DeliveryInv, Deliver
    PROVE  /\ UNCHANGED <<input, wpc, i, totalDeserts, chefVars, signalled>>
           /\ wpc = "agent" /\ agent = 1 /\ agent' = 0
           /\ line \in Nat /\ line' = line + 1 /\ line' <= Len(input)
           /\ input[line + 1] # Wrong
           /\ \A d \in Chefs : ~ Owed(d) /\ chefSem[d] = 0
           /\ sem' \in [Ingredients -> Nat] /\ (~ Odd => sem' = One({}))
           /\ \/ Odd \/ Pair = {"Milk", "Walnuts"}
              \/ Pair \in Chefs /\ chefSem' = [chefSem EXCEPT ![Pair] = 1]
           /\ Odd \/ Pair = {"Milk", "Walnuts"} => chefSem' = chefSem
           /\ Odd => Pair \notin Chefs
<1>1. /\ wpc = "agent" /\ agent > 0 /\ line < Len(input) /\ input[line + 1] # Wrong
      /\ agent' = agent - 1 /\ line' = line + 1
      /\ UNCHANGED <<input, wpc, i, totalDeserts, chefVars, signalled>>
  BY DEF Deliver
<1>2. agent = 1 /\ agent' = 0 /\ line \in Nat /\ line' <= Len(input)
  BY <1>1 DEF DeliveryInv, OneDelivery, TypeOK
<1>3. \A d \in Chefs : ~ Owed(d) /\ chefSem[d] = 0
  BY <1>2 DEF DeliveryInv, OneDelivery, TypeOK, Owed
<1> DEFINE g == input[line + 1][1]
           h == input[line + 1][2]
<1>4. g \in LineLetters /\ h \in LineLetters
  <2>1. line + 1 \in 1 .. Len(input)
    BY <1>1, <1>2
  <2>2. {g, h} \subseteq LineLetters
    BY <1>1, <2>1, InputAssumption DEF DeliveryInv
  <2>3. QED BY <2>2
<1>5. PICK st : /\ st = Pushed(Post(Post(sem, g), h)) /\ sem' = st.sem
                /\ chefSem' = [d \in Chefs |-> IF d \in st.made THEN chefSem[d] + 1
                                                                ELSE chefSem[d]]
  BY DEF Deliver
<1>6. sem = One({})
  BY <1>2 DEF DeliveryInv
<1> HIDE DEF g, h
<1>7. /\ st.sem \in [Ingredients -> Nat]
      /\ Both(g, h) \in Chefs => st.sem = One({})
      /\ ~ Answered(g, h) => st.made = {}
      /\ Answered(g, h) => st.made = Single(Both(g, h))
  BY <1>4, <1>5, <1>6, Pushing
<1>8. /\ Pair = Both(g, h)
      /\ Answered(g, h) <=> ~ (Odd \/ Pair = {"Milk", "Walnuts"})
  BY DEF Pair, Odd, g, h, Both, Answered
<1>9. chefSem \in [Chefs -> Nat]
  BY DEF DeliveryInv, TypeOK
<1>10. Odd => Pair \notin Chefs
  BY DEF Odd
<1>11. ~ Answered(g, h) => chefSem' = chefSem
  BY <1>5, <1>7, <1>9
<1>12. ASSUME Answered(g, h)
       PROVE  Pair \in Chefs /\ chefSem' = [chefSem EXCEPT ![Pair] = 1]
  <2>1. Pair \in Chefs
    BY <1>8, <1>12 DEF Answered
  <2>2. \A d \in Chefs : d \in st.made <=> d = Pair
    BY <1>7, <1>8, <1>12 DEF Single
  <2>3. \A d \in Chefs : chefSem'[d] = IF d = Pair THEN 1 ELSE chefSem[d]
    BY <1>3, <1>5, <1>9, <2>2
  <2>4. chefSem' = [d \in Chefs |-> chefSem'[d]]
    BY <1>5
  <2>5. chefSem' = [d \in Chefs |-> IF d = Pair THEN 1 ELSE chefSem[d]]
    BY <2>3, <2>4
  <2>6. QED BY <1>9, <2>1, <2>5
<1>13. QED
  BY <1>1, <1>2, <1>3, <1>5, <1>7, <1>8, <1>10, <1>11, <1>12 DEF Odd

\* A pair delivered: at most one chef is owed it, and the wholesaler waits.
LEMMA DeliverKeepsDelivery ==
    ASSUME DeliveryInv, Deliver PROVE DeliveryInv'
<1> USE DeliverIs DEF DeliveryInv, chefVars
<1>1. ASSUME NEW d \in Chefs, Owed(d)' PROVE d = Pair /\ ~ Odd
  <2>1. ~ Busy(d) /\ ~ Busy(d)' /\ chefSem[d] = 0
    BY DEF Owed, Busy
  <2>2. chefSem'[d] # 0
    BY <1>1, <2>1 DEF Owed, TypeOK
  <2>3. Pair \in Chefs /\ chefSem' = [chefSem EXCEPT ![Pair] = 1]
    BY <2>1, <2>2
  <2>4. QED BY <2>1, <2>2, <2>3 DEF TypeOK
<1>2. \A d \in Chefs : chefSem'[d] \in {0, 1} /\ ~ Busy(d)'
  BY DEF Owed, Busy, TypeOK
<1>3. TypeOK'
  BY <1>2 DEF TypeOK
<1>4. OneDelivery'
  BY <1>1, <1>2 DEF OneDelivery
<1>5. QED BY <1>1, <1>3, <1>4

LEMMA WholesalerKeepsDelivery ==
    ASSUME DeliveryInv, WrongLine \/ EndOfInput \/ Kill \/ Waitpid \/ Done \/ Sigint
    PROVE  DeliveryInv'
<1> USE DEF DeliveryInv, chefVars
<1>0. Len(ChefOrder) = 6
  BY ChefsAreSix
<1>1. CASE WrongLine \/ EndOfInput
  <2>1. /\ UNCHANGED <<input, sem, i, totalDeserts, chefSem, chefVars, signalled>>
        /\ agent = 1 /\ agent' = 0 /\ line' \in 0 .. Len(input)
        /\ wpc = "agent" /\ wpc' \in {"failed", "kill"}
        /\ wpc' = "kill" => line' = Len(input)
    BY <1>1 DEF WrongLine, EndOfInput, TypeOK, OneDelivery
  <2>2. \A d \in Chefs : (Owed(d)' <=> Owed(d)) /\ ~ Owed(d) /\ (Busy(d)' <=> Busy(d))
    BY <2>1 DEF OneDelivery, Owed, Busy
  <2>3. TypeOK'
    BY <2>1 DEF TypeOK
  <2>4. OneDelivery'
    BY <2>1, <2>2 DEF OneDelivery
  <2>5. QED BY <2>1, <2>2, <2>3, <2>4
<1>2. CASE Kill \/ Waitpid \/ Done \/ Sigint
  <2>1. /\ UNCHANGED <<input, line, agent, sem, chefSem, chefVars>>
        /\ wpc' \in {"kill", "waitpid", "done", "interrupted"}
        /\ wpc' # "interrupted" => wpc \in {"kill", "waitpid", "done"}
        /\ i' \in 1 .. 7 /\ (wpc' = "waitpid" => i' <= 6)
        /\ totalDeserts' \in Nat /\ signalled' \in SUBSET Chefs
    <3>1. CASE Kill
      <4>1. i \in 1 .. 6
        BY <1>0, <3>1 DEF Kill, TypeOK
      <4>2. ChefOrder[i] \in Chefs
        BY <4>1, ChefsAreSix
      <4>3. QED BY <3>1, <4>1, <4>2 DEF Kill, TypeOK
    <3>2. CASE Waitpid
      <4>1. ChefOrder[i] \in Chefs
        <5>1. i \in 1 .. 6
          BY <3>2 DEF Waitpid, TypeOK
        <5>2. QED BY <5>1, ChefsAreSix
      <4>2. desserts[ChefOrder[i]] % Statuses \in Nat
        BY <4>1, StatusAssumption DEF TypeOK
      <4>3. QED BY <1>0, <3>2, <4>2 DEF Waitpid, TypeOK
    <3>3. CASE Done \/ Sigint
      BY <1>0, <3>3 DEF Done, Sigint, TypeOK
    <3>4. QED BY <1>2, <3>1, <3>2, <3>3
  <2>2. \A d \in Chefs : (Owed(d)' <=> Owed(d)) /\ (Busy(d)' <=> Busy(d))
    BY <2>1 DEF Owed, Busy
  <2>3. TypeOK'
    BY <1>0, <2>1 DEF TypeOK
  <2>4. OneDelivery'
    BY <2>1, <2>2 DEF OneDelivery
  <2>5. QED BY <2>1, <2>2, <2>3, <2>4
<1>3. QED BY <1>1, <1>2

LEMMA ChefKeepsDelivery ==
    ASSUME DeliveryInv, NEW d \in Chefs, ChefStep(d)
    PROVE  DeliveryInv'
<1> USE DEF DeliveryInv, wholesalerVars
<1>1. CASE Take(d)
  <2>1. /\ UNCHANGED <<wholesalerVars, agent, desserts, signalled>>
        /\ cpc[d] = "look" /\ cpc' = [cpc EXCEPT ![d] = "cook"]
        /\ chefSem[d] = 1 /\ chefSem' = [chefSem EXCEPT ![d] = 0]
    <3>1. chefSem[d] = 1
      BY <1>1 DEF Take, TypeOK, OneDelivery
    <3>2. QED BY <1>1, <3>1 DEF Take
  <2>2. \A e \in Chefs : /\ Owed(e)' <=> Owed(e)
                         /\ chefSem'[e] <= 1 /\ (Busy(e)' => chefSem'[e] = 0)
    BY <2>1 DEF Owed, Busy, TypeOK, OneDelivery
  <2>3. TypeOK'
    BY <2>1 DEF TypeOK
  <2>4. OneDelivery'
    BY <2>1, <2>2 DEF OneDelivery
  <2>5. QED BY <2>1, <2>2, <2>3, <2>4 DEF TypeOK
<1>2. CASE Cook(d)
  <2>1. /\ UNCHANGED <<wholesalerVars, agent, chefSem, signalled>>
        /\ cpc[d] = "cook" /\ cpc' = [cpc EXCEPT ![d] = "post"]
        /\ desserts' = [desserts EXCEPT ![d] = @ + 1]
    BY <1>2 DEF Cook
  <2>2. \A e \in Chefs : (Owed(e)' <=> Owed(e)) /\ (Busy(e)' <=> Busy(e))
    BY <2>1 DEF Owed, Busy, TypeOK
  <2>3. TypeOK'
    BY <2>1 DEF TypeOK
  <2>4. OneDelivery'
    BY <2>1, <2>2 DEF OneDelivery
  <2>5. QED BY <2>1, <2>2, <2>3, <2>4 DEF TypeOK
<1>3. CASE PostAgent(d)
  <2>1. /\ UNCHANGED <<wholesalerVars, chefSem, desserts, signalled>>
        /\ cpc[d] = "post" /\ cpc' = [cpc EXCEPT ![d] = "look"]
        /\ agent' = agent + 1
    BY <1>3 DEF PostAgent
  <2>2. Owed(d) /\ agent = 0 /\ chefSem[d] = 0
    BY <2>1 DEF Owed, Busy, OneDelivery
  <2>3. \A e \in Chefs : /\ ~ Owed(e)' /\ chefSem'[e] = 0 /\ ~ Busy(e)'
    BY <2>1, <2>2 DEF Owed, Busy, TypeOK, OneDelivery
  <2>4. TypeOK'
    BY <2>1 DEF TypeOK
  <2>5. OneDelivery'
    BY <2>1, <2>2, <2>3 DEF OneDelivery
  <2>6. QED BY <2>1, <2>2, <2>3, <2>4, <2>5 DEF TypeOK
<1>4. CASE Exit(d)
  <2>1. /\ UNCHANGED <<wholesalerVars, agent, chefSem, desserts, signalled>>
        /\ d \in signalled /\ cpc' = [cpc EXCEPT ![d] = "exited"]
    BY <1>4 DEF Exit
  <2>2. \A e \in Chefs : (Owed(e)' => Owed(e)) /\ (Busy(e)' => Busy(e))
    BY <2>1 DEF Owed, Busy, TypeOK
  <2>3. TypeOK'
    BY <2>1 DEF TypeOK
  <2>4. OneDelivery'
    BY <2>1, <2>2 DEF OneDelivery
  <2>5. QED BY <2>1, <2>2, <2>3, <2>4
<1>5. QED BY <1>1, <1>2, <1>3, <1>4 DEF ChefStep

LEMMA DeliveryHolds == Spec => []DeliveryInv
<1>1. Init => DeliveryInv
  <2> SUFFICES ASSUME Init PROVE DeliveryInv
    OBVIOUS
  <2>1. input \in Inputs /\ Len(input) \in Nat /\ Len(ChefOrder) = 6
    BY InputAssumption, ChefsAreSix DEF Init
  <2>2. TypeOK
    BY <2>1 DEF Init, TypeOK
  <2>3. \A d \in Chefs : ~ Owed(d) /\ ~ Busy(d) /\ chefSem[d] = 0
    BY DEF Init, Owed, Busy
  <2>4. OneDelivery
    BY <2>3 DEF Init, OneDelivery
  <2>5. QED BY <2>1, <2>2, <2>3, <2>4 DEF Init, DeliveryInv, One
<1>2. DeliveryInv /\ [Next]_vars => DeliveryInv'
  <2>1. CASE UNCHANGED vars
    BY <2>1 DEF vars, wholesalerVars, chefVars, DeliveryInv, TypeOK, OneDelivery,
                Owed, Busy
  <2>2. QED
    BY <2>1, DeliverKeepsDelivery, WholesalerKeepsDelivery, ChefKeepsDelivery
       DEF Next, WholesalerStep
<1>3. QED BY <1>1, <1>2, PTL DEF Spec
-----------------------------------------------------------------------------
(***************************************************************************)
(* Right chefs.                                                            *)
(***************************************************************************)
\* The lines of a chef that some pusher answers.
LinesOf(d, l) ==
    {number \in 1 .. l : /\ input[number] # Wrong /\ {input[number][1], input[number][2]} = d
                    /\ d # {"Milk", "Walnuts"}}

Waiting(d) == IF chefSem[d] > 0 \/ cpc[d] = "cook" THEN 1 ELSE 0

\* Until the process is ended from outside or by a wrong line, each chef has
\* made a dessert for each of its lines, but for the one it is to make.
CountInv ==
    wpc \in {"agent", "kill", "waitpid", "done"} =>
        \A d \in Chefs : desserts[d] + Waiting(d) = Cardinality(LinesOf(d, line))

LEMMA OneLineMore ==
    ASSUME NEW l \in Nat, NEW d
    PROVE  /\ Cardinality(LinesOf(d, l)) \in Nat
           /\ Cardinality(LinesOf(d, l + 1)) = Cardinality(LinesOf(d, l)) +
                  IF l + 1 \in LinesOf(d, l + 1) THEN 1 ELSE 0
<1>1. IsFiniteSet(LinesOf(d, l))
  <2>1. LinesOf(d, l) \subseteq 1 .. l /\ IsFiniteSet(1 .. l)
    BY FS_Interval DEF LinesOf
  <2>2. QED BY <2>1, FS_Subset
<1>2. l + 1 \notin LinesOf(d, l)
  BY DEF LinesOf
<1>3. CASE l + 1 \in LinesOf(d, l + 1)
  <2>1. LinesOf(d, l + 1) = LinesOf(d, l) \union {l + 1}
    BY <1>3 DEF LinesOf
  <2>2. QED BY <1>1, <1>2, <1>3, <2>1, FS_AddElement, FS_CardinalityType
<1>4. CASE l + 1 \notin LinesOf(d, l + 1)
  <2>1. LinesOf(d, l + 1) = LinesOf(d, l)
    BY <1>4 DEF LinesOf
  <2>2. QED BY <1>1, <1>4, <2>1, FS_CardinalityType
<1>5. QED BY <1>3, <1>4

LEMMA DeliverKeepsCount ==
    ASSUME DeliveryInv, CountInv, Deliver PROVE CountInv'
<1> USE DeliverIs DEF chefVars
<1>1. \A d \in Chefs : desserts[d] + Waiting(d) = Cardinality(LinesOf(d, line))
  BY DEF CountInv
<1>2. \A d \in Chefs : Waiting(d) = 0 /\ cpc[d] # "cook"
  BY DEF Waiting, Owed, Busy
<1> DEFINE own(d) == d = Pair /\ Pair # {"Milk", "Walnuts"}
<1>3. ASSUME NEW d \in Chefs PROVE line + 1 \in LinesOf(d, line + 1) <=> own(d)
  <2>1. line + 1 \in 1 .. line + 1 /\ input[line + 1] # Wrong
    OBVIOUS
  <2>2. line + 1 \in LinesOf(d, line + 1) <=> Pair = d /\ d # {"Milk", "Walnuts"}
    BY ONLY <2>1 DEF LinesOf, Pair
  <2>3. QED BY ONLY <2>2
<1>4. ASSUME NEW d \in Chefs PROVE Waiting(d)' = IF own(d) THEN 1 ELSE 0
  <2>1. CASE Odd \/ Pair = {"Milk", "Walnuts"}
    <3>1. chefSem' = chefSem /\ cpc' = cpc /\ ~ own(d)
      BY <2>1
    <3>2. QED BY <1>2, <3>1 DEF Waiting, Owed
  <2>2. CASE ~ Odd /\ Pair # {"Milk", "Walnuts"}
    <3>1. Pair \in Chefs /\ chefSem' = [chefSem EXCEPT ![Pair] = 1] /\ cpc' = cpc
      BY <2>2
    <3>2. chefSem'[d] = IF d = Pair THEN 1 ELSE 0
      BY <3>1 DEF DeliveryInv, TypeOK
    <3>3. QED BY <1>2, <2>2, <3>1, <3>2 DEF Waiting
  <2>3. QED BY <2>1, <2>2
<1>7. ASSUME NEW d \in Chefs
      PROVE  desserts'[d] + Waiting(d)' = Cardinality(LinesOf(d, line + 1))
  <2>1. desserts'[d] = desserts[d] /\ desserts[d] \in Nat
    BY DEF DeliveryInv, TypeOK
  <2>2. /\ Cardinality(LinesOf(d, line)) = desserts[d]
        /\ Cardinality(LinesOf(d, line + 1)) = Cardinality(LinesOf(d, line)) +
               IF own(d) THEN 1 ELSE 0
    BY <1>1, <1>2, <1>3, <2>1, OneLineMore
  <2>3. QED BY <1>4, <2>1, <2>2
<1>8. \A d \in Chefs : LinesOf(d, line)' = LinesOf(d, line + 1)
  BY DEF LinesOf
<1>9. QED BY <1>7, <1>8 DEF CountInv

\* The others leave the lines alone, and each dessert counted was owed.
LEMMA OthersKeepCount ==
    ASSUME DeliveryInv, CountInv,
           \/ WrongLine \/ EndOfInput \/ Kill \/ Waitpid \/ Done \/ Sigint
           \/ \E d \in Chefs : ChefStep(d)
    PROVE  CountInv'
<1> SUFFICES ASSUME wpc' \in {"agent", "kill", "waitpid", "done"}, NEW e \in Chefs
             PROVE  (desserts[e] + Waiting(e) = Cardinality(LinesOf(e, line)))'
  BY DEF CountInv
<1>1. /\ UNCHANGED <<input, line>> /\ wpc \in {"agent", "kill", "waitpid", "done"}
  BY DEF WrongLine, EndOfInput, Kill, Waitpid, Done, Sigint, ChefStep, Take, Cook,
         PostAgent, Exit, wholesalerVars
<1>2. LinesOf(e, line)' = LinesOf(e, line)
  BY <1>1 DEF LinesOf
<1>3. desserts'[e] + Waiting(e)' = desserts[e] + Waiting(e)
  <2>1. CASE WrongLine \/ EndOfInput \/ Kill \/ Waitpid \/ Done \/ Sigint
    BY <2>1 DEF WrongLine, EndOfInput, Kill, Waitpid, Done, Sigint, chefVars, Waiting
  <2>2. ASSUME NEW d \in Chefs, ChefStep(d) 
        PROVE  desserts'[e] + Waiting(e)' = desserts[e] + Waiting(e)
    <3> USE DEF DeliveryInv, TypeOK, OneDelivery, Waiting
    <3>1. CASE Take(d)
      BY <3>1 DEF Take, Busy
    <3>2. CASE Cook(d)
      <4>1. chefSem[d] = 0
        BY <3>2 DEF Cook, Busy
      <4>2. QED BY <3>2, <4>1 DEF Cook
    <3>3. CASE PostAgent(d)
      BY <3>3 DEF PostAgent
    <3>4. CASE Exit(d)
      <4>1. d \in signalled /\ wpc # "agent"
        BY <1>1, <3>4 DEF Exit, wholesalerVars
      <4>2. ~ Owed(d)
        BY <1>1, <4>1
      <4>3. QED BY <3>4, <4>2 DEF Exit, Owed, Busy
    <3>5. QED BY <2>2, <3>1, <3>2, <3>3, <3>4 DEF ChefStep
  <2>3. QED BY <2>1, <2>2
<1>4. desserts[e] + Waiting(e) = Cardinality(LinesOf(e, line))
  BY <1>1 DEF CountInv
<1>5. QED BY <1>2, <1>3, <1>4

LEMMA CountHolds == Spec => []CountInv
<1>1. Init => CountInv
  <2> SUFFICES ASSUME Init, NEW d \in Chefs
               PROVE  desserts[d] + Waiting(d) = Cardinality(LinesOf(d, line))
    BY DEF CountInv
  <2>1. LinesOf(d, 0) = {}
    BY DEF LinesOf
  <2>2. QED BY <2>1, FS_EmptySet DEF Init, Waiting
<1>2. DeliveryInv /\ CountInv /\ [Next]_vars => CountInv'
  <2>1. CASE UNCHANGED vars
    BY <2>1 DEF vars, wholesalerVars, chefVars, CountInv, LinesOf, Waiting
  <2>2. QED
    BY <2>1, DeliverKeepsCount, OthersKeepCount DEF Next, WholesalerStep
<1>3. QED BY <1>1, <1>2, DeliveryHolds, PTL DEF Spec

\* No line so far was of the pair that no pusher answers.
AllAnswered ==
    \A number \in 1 .. line :
        input[number] # Wrong => {input[number][1], input[number][2]} # {"Milk", "Walnuts"}

(***************************************************************************)
(* Each line is delivered to one chef, the right one, and the next only    *)
(* after its dessert, in every file and up to the first line of milk and   *)
(* walnuts: that one wakes nobody (WaitsForSomebody).                      *)
(***************************************************************************)
THEOREM RightChefIsServed == Spec => [](AllAnswered => DeliveryIsRight)
<1>1. DeliveryInv /\ CountInv /\ AllAnswered => DeliveryIsRight
  <2> SUFFICES ASSUME DeliveryInv, CountInv, AllAnswered PROVE RightChef
    BY DEF DeliveryInv, DeliveryIsRight
  <2>1. ASSUME NEW d \in Chefs
        PROVE  LinesOf(d, line) = {number \in 1 .. line :
                   input[number] # Wrong /\ {input[number][1], input[number][2]} = d}
    BY DEF AllAnswered, LinesOf
  <2>2. QED BY <2>1 DEF CountInv, RightChef, Waiting
<1>2. QED BY <1>1, DeliveryHolds, CountHolds, PTL
-----------------------------------------------------------------------------
(***************************************************************************)
(* The total.                                                              *)
(***************************************************************************)
\* The desserts of the chef at place k of chefArray, the one it is to make
\* included, and all of them.
Made(k) == desserts[ChefOrder[k]] + Waiting(ChefOrder[k])
AllMade == Made(1) + Made(2) + Made(3) + Made(4) + Made(5) + Made(6)

\* What the chefs before place k have made.
Desserts(k) == desserts[ChefOrder[k]]
Collected(k) ==
    (IF k > 1 THEN Desserts(1) ELSE 0) + (IF k > 2 THEN Desserts(2) ELSE 0)
    + (IF k > 3 THEN Desserts(3) ELSE 0) + (IF k > 4 THEN Desserts(4) ELSE 0)
    + (IF k > 5 THEN Desserts(5) ELSE 0) + (IF k > 6 THEN Desserts(6) ELSE 0)

\* As long as somebody has what the others wait for, there is a dessert for
\* each line read; then there is one for each line of the file, and those of
\* the chefs that have been waited for are in the total.
TotalInv ==
    /\ wpc = "agent" => i = 1 /\ totalDeserts = 0
    /\ wpc = "agent" /\ (agent = 1 \/ \E d \in Chefs : Owed(d)) => AllMade = line
    /\ wpc \in {"kill", "waitpid", "done"} =>
          /\ AllMade = Len(input)
          /\ \A k \in 1 .. i - 1 : cpc[ChefOrder[k]] = "exited"
          /\ (\A d \in Chefs : desserts[d] < Statuses) => totalDeserts = Collected(i)
    /\ wpc = "done" => i = 7

LEMMA MadeTypes ==
    ASSUME TypeOK
    PROVE  /\ \A k \in 1 .. 6 : ChefOrder[k] \in Chefs /\ Desserts(k) \in Nat
                                /\ Made(k) \in Nat
           /\ Made(1) \in Nat /\ Made(2) \in Nat /\ Made(3) \in Nat
           /\ Made(4) \in Nat /\ Made(5) \in Nat /\ Made(6) \in Nat
<1>1. ASSUME NEW k \in 1 .. 6
      PROVE  ChefOrder[k] \in Chefs /\ Desserts(k) \in Nat /\ Made(k) \in Nat
  <2>1. ChefOrder[k] \in Chefs
    BY ChefsAreSix
  <2>2. desserts[ChefOrder[k]] \in Nat /\ Waiting(ChefOrder[k]) \in Nat
    BY <2>1 DEF TypeOK, Waiting
  <2>3. QED BY <2>1, <2>2 DEF Desserts, Made
<1>2. QED BY <1>1

\* One chef's number goes up: so does the sum.
LEMMA OneMore ==
    ASSUME TypeOK, NEW j \in 1 .. 6,
           \A k \in 1 .. 6 : Made(k)' = Made(k) + IF k = j THEN 1 ELSE 0
    PROVE  AllMade' = AllMade + 1
<1>1. /\ Made(1)' = Made(1) + IF 1 = j THEN 1 ELSE 0
      /\ Made(2)' = Made(2) + IF 2 = j THEN 1 ELSE 0
      /\ Made(3)' = Made(3) + IF 3 = j THEN 1 ELSE 0
      /\ Made(4)' = Made(4) + IF 4 = j THEN 1 ELSE 0
      /\ Made(5)' = Made(5) + IF 5 = j THEN 1 ELSE 0
      /\ Made(6)' = Made(6) + IF 6 = j THEN 1 ELSE 0
  OBVIOUS
<1>2. AllMade' = Made(1)' + Made(2)' + Made(3)' + Made(4)' + Made(5)' + Made(6)'
  BY DEF AllMade
<1>3. j = 1 \/ j = 2 \/ j = 3 \/ j = 4 \/ j = 5 \/ j = 6
  OBVIOUS
<1>4. QED BY <1>1, <1>2, <1>3, MadeTypes DEF AllMade

LEMMA SameMade ==
    ASSUME \A d \in Chefs : desserts'[d] + Waiting(d)' = desserts[d] + Waiting(d)
    PROVE  AllMade' = AllMade
<1>1. \A k \in 1 .. 6 : Made(k)' = Made(k)
  BY ChefsAreSix DEF Made
<1>2. /\ Made(1)' = Made(1) /\ Made(2)' = Made(2) /\ Made(3)' = Made(3)
      /\ Made(4)' = Made(4) /\ Made(5)' = Made(5) /\ Made(6)' = Made(6)
  BY <1>1
<1>3. QED BY <1>2 DEF AllMade

LEMMA DeliverKeepsTotal ==
    ASSUME DeliveryInv, TotalInv, Deliver PROVE TotalInv'
<1> USE DeliverIs DEF chefVars
<1>1. \A d \in Chefs : Waiting(d) = 0 /\ cpc[d] # "cook" /\ ~ Busy(d) /\ ~ Busy(d)'
  BY DEF Waiting, Owed, Busy
<1>2. AllMade = line
  BY DEF TotalInv
<1>3. SUFFICES ASSUME NEW d \in Chefs, Owed(d)' PROVE AllMade' = line'
  BY DEF TotalInv
<1>4. d = Pair /\ chefSem' = [chefSem EXCEPT ![Pair] = 1]
  BY <1>1, <1>3 DEF Owed, DeliveryInv, TypeOK
<1>5. \A e \in Chefs : desserts'[e] = desserts[e] /\ Waiting(e)' = IF e = d THEN 1 ELSE 0
  <2>1. \A e \in Chefs : chefSem'[e] = IF e = d THEN 1 ELSE 0
    BY <1>4 DEF DeliveryInv, TypeOK
  <2>2. QED BY <1>1, <2>1 DEF Waiting
<1>6. PICK j \in 1 .. 6 : d = ChefOrder[j]
  BY ChefsAreSix
<1>7. \A k \in 1 .. 6 : Made(k)' = Made(k) + IF k = j THEN 1 ELSE 0
  <2> SUFFICES ASSUME NEW k \in 1 .. 6
               PROVE  Made(k)' = Made(k) + IF k = j THEN 1 ELSE 0
    OBVIOUS
  <2>1. ChefOrder[k] \in Chefs /\ (ChefOrder[k] = d <=> k = j)
    BY <1>6, ChefsAreSix
  <2>2. desserts[ChefOrder[k]] \in Nat
    BY <2>1 DEF DeliveryInv, TypeOK
  <2>3. QED BY <1>1, <1>5, <2>1, <2>2 DEF Made
<1>8. AllMade' = AllMade + 1
  BY <1>7, OneMore DEF DeliveryInv
<1>9. QED BY <1>2, <1>8

LEMMA ChefKeepsTotal ==
    ASSUME DeliveryInv, TotalInv, NEW d \in Chefs, ChefStep(d)
    PROVE  TotalInv'
<1> USE DEF wholesalerVars
<1>1. CASE Take(d) \/ Cook(d) \/ PostAgent(d)
  <2>1. UNCHANGED wholesalerVars /\ Owed(d)
    BY <1>1 DEF Take, Cook, PostAgent, Owed, Busy
  <2>2. wpc \notin {"kill", "waitpid", "done"}
    BY <2>1 DEF DeliveryInv
  <2>3. \A e \in Chefs : desserts'[e] + Waiting(e)' = desserts[e] + Waiting(e)
    <3> USE DEF DeliveryInv, TypeOK, OneDelivery, Waiting
    <3>1. CASE Take(d)
      BY <3>1 DEF Take, Busy
    <3>2. CASE Cook(d)
      <4>1. chefSem[d] = 0
        BY <3>2 DEF Cook, Busy
      <4>2. QED BY <3>2, <4>1 DEF Cook
    <3>3. CASE PostAgent(d)
      BY <3>3 DEF PostAgent
    <3>4. QED BY <1>1, <3>1, <3>2, <3>3
  <2>4. wpc = "agent" => AllMade' = line'
    BY <2>1, <2>3, SameMade DEF TotalInv
  <2>5. QED BY <2>1, <2>2, <2>4 DEF TotalInv
<1>2. CASE Exit(d)
  <2>1. /\ UNCHANGED <<wholesalerVars, agent, chefSem, desserts, signalled>>
        /\ cpc' = [cpc EXCEPT ![d] = "exited"] /\ wpc # "agent"
    BY <1>2 DEF Exit, DeliveryInv
  <2>2. CASE wpc \in {"kill", "waitpid", "done"}
    <3>1. ~ Owed(d)
      BY <2>2 DEF DeliveryInv
    <3>2. \A e \in Chefs : desserts'[e] + Waiting(e)' = desserts[e] + Waiting(e)
      BY <2>1, <3>1 DEF Waiting, Owed, Busy, DeliveryInv, TypeOK
    <3>3. AllMade' = AllMade
      BY <3>2, SameMade
    <3>4. \A k : Desserts(k)' = Desserts(k)
      BY <2>1 DEF Desserts
    <3>5. Collected(i)' = Collected(i)
      BY <2>1, <3>4 DEF Collected
    <3>6. \A k \in 1 .. i' - 1 : cpc'[ChefOrder[k]] = "exited"
      <4>1. \A k \in 1 .. i - 1 : ChefOrder[k] \in Chefs
        <5>1. i \in 1 .. 7
          BY ChefsAreSix DEF DeliveryInv, TypeOK
        <5>2. QED BY <5>1, ChefsAreSix
      <4>2. QED BY <2>1, <2>2, <4>1 DEF TotalInv, DeliveryInv, TypeOK
    <3>7. QED BY <2>1, <2>2, <3>3, <3>5, <3>6 DEF TotalInv
  <2>3. CASE wpc \notin {"kill", "waitpid", "done"}
    BY <2>1, <2>3 DEF TotalInv
  <2>4. QED BY <2>2, <2>3
<1>3. QED BY <1>1, <1>2 DEF ChefStep

\* The chef waited for is the next of the total.
LEMMA OneCollected ==
    ASSUME TypeOK, i \in 1 .. 6
    PROVE  Collected(i + 1) = Collected(i) + Desserts(i)
<1>1. i = 1 \/ i = 2 \/ i = 3 \/ i = 4 \/ i = 5 \/ i = 6
  OBVIOUS
<1>2. /\ Desserts(1) \in Nat /\ Desserts(2) \in Nat /\ Desserts(3) \in Nat
      /\ Desserts(4) \in Nat /\ Desserts(5) \in Nat /\ Desserts(6) \in Nat
  BY MadeTypes
<1>3. QED BY <1>1, <1>2 DEF Collected

LEMMA WholesalerKeepsTotal ==
    ASSUME DeliveryInv, TotalInv,
           WrongLine \/ EndOfInput \/ Kill \/ Waitpid \/ Done \/ Sigint
    PROVE  TotalInv'
<1>0. i \in 1 .. 7 /\ Len(ChefOrder) = 6
  BY ChefsAreSix DEF DeliveryInv, TypeOK
<1>1. AllMade' = AllMade /\ \A k : Desserts(k)' = Desserts(k)
  BY DEF WrongLine, EndOfInput, Kill, Waitpid, Done, Sigint, chefVars, AllMade, Made,
         Desserts, Waiting
<1>2. CASE WrongLine \/ Sigint
  BY <1>2 DEF WrongLine, Sigint, TotalInv
<1>3. CASE EndOfInput
  <2>1. /\ wpc = "agent" /\ agent = 1 /\ line = Len(input) /\ wpc' = "kill"
        /\ UNCHANGED <<input, i, totalDeserts>>
    BY <1>3 DEF EndOfInput, DeliveryInv, OneDelivery
  <2>2. i' = 1 /\ totalDeserts' = 0 /\ AllMade' = Len(input')
    BY <1>1, <2>1 DEF TotalInv
  <2>3. Collected(i)' = 0
    BY <2>2 DEF Collected
  <2>4. QED BY <2>1, <2>2, <2>3 DEF TotalInv
<1>4. CASE Kill \/ Done
  <2>1. /\ UNCHANGED <<input, i, totalDeserts, cpc, desserts>>
        /\ wpc \in {"kill", "waitpid", "done"} /\ wpc' \in {"waitpid", "done"}
        /\ wpc' = "done" => i > 6
    BY <1>0, <1>4 DEF Kill, Done, chefVars
  <2>2. Collected(i)' = Collected(i)
    BY <1>1, <2>1 DEF Collected
  <2>3. QED BY <1>0, <1>1, <2>1, <2>2 DEF TotalInv
<1>5. CASE Waitpid
  <2>1. /\ UNCHANGED <<input, cpc, desserts>> /\ i \in 1 .. 6
        /\ wpc = "waitpid" /\ wpc' = "kill" /\ i' = i + 1
        /\ cpc[ChefOrder[i]] = "exited"
        /\ totalDeserts' = totalDeserts + (Desserts(i) % Statuses)
    BY <1>0, <1>5 DEF Waitpid, chefVars, DeliveryInv, Desserts
  <2>2. ASSUME \A d \in Chefs : desserts[d] < Statuses
        PROVE  totalDeserts' = Collected(i)'
    <3>1. Desserts(i) \in Nat /\ Desserts(i) < Statuses
      BY <2>1, <2>2, MadeTypes DEF DeliveryInv, Desserts
    <3>2. Desserts(i) % Statuses = Desserts(i)
      BY <3>1, StatusAssumption
    <3>3. totalDeserts = Collected(i)
      BY <2>1, <2>2 DEF TotalInv
    <3>4. Collected(i)' = Collected(i + 1)
      BY <1>1, <2>1 DEF Collected
    <3>5. QED BY <2>1, <3>2, <3>3, <3>4, OneCollected DEF DeliveryInv
  <2>3. \A k \in 1 .. i' - 1 : cpc'[ChefOrder[k]] = "exited"
    BY <2>1 DEF TotalInv
  <2>4. AllMade' = Len(input')
    BY <1>1, <2>1 DEF TotalInv
  <2>5. QED BY <2>1, <2>2, <2>3, <2>4 DEF TotalInv
<1>6. QED BY <1>2, <1>3, <1>4, <1>5

LEMMA TotalHolds == Spec => []TotalInv
<1>1. Init => TotalInv
  <2> SUFFICES ASSUME Init PROVE AllMade = 0
    BY DEF Init, TotalInv
  <2>1. \A k \in 1 .. 6 : Made(k) = 0
    BY ChefsAreSix DEF Init, Made, Waiting
  <2>2. /\ Made(1) = 0 /\ Made(2) = 0 /\ Made(3) = 0
        /\ Made(4) = 0 /\ Made(5) = 0 /\ Made(6) = 0
    BY <2>1
  <2>3. QED BY <2>2 DEF AllMade
<1>2. DeliveryInv /\ TotalInv /\ [Next]_vars => TotalInv'
  <2>1. CASE UNCHANGED vars
    BY <2>1 DEF vars, wholesalerVars, chefVars, TotalInv, AllMade, Made, Collected,
                Desserts, Waiting, Owed, Busy
  <2>2. QED
    BY <2>1, DeliverKeepsTotal, WholesalerKeepsTotal, ChefKeepsTotal
       DEF Next, WholesalerStep
<1>3. QED BY <1>1, <1>2, DeliveryHolds, PTL DEF Spec

(***************************************************************************)
(* The total that is printed is true for every file, also one that has a   *)
(* line of milk and walnuts, of one letter twice or of another letter:     *)
(* such a file is never done.                                              *)
(***************************************************************************)
THEOREM TotalIsTrue == Spec => []TotalIsRight
<1>1. DeliveryInv /\ TotalInv => TotalIsRight
  <2> SUFFICES ASSUME DeliveryInv, TotalInv, wpc = "done",
                      \A d \in Chefs : desserts[d] < Statuses
               PROVE  totalDeserts = Len(input) /\ \A d \in Chefs : cpc[d] = "exited"
    BY DEF TotalIsRight
  <2>1. i = 7 /\ totalDeserts = Collected(i) /\ AllMade = Len(input)
    BY DEF TotalInv
  <2>2. \A d \in Chefs : Waiting(d) = 0
    BY DEF DeliveryInv, Owed, Busy, Waiting
  <2>3. ASSUME NEW k \in 1 .. 6 PROVE Made(k) = Desserts(k)
    <3>1. ChefOrder[k] \in Chefs /\ Desserts(k) \in Nat
      BY MadeTypes DEF DeliveryInv
    <3>2. Waiting(ChefOrder[k]) = 0
      BY <2>2, <3>1
    <3>3. QED BY <3>1, <3>2 DEF Made, Desserts
  <2>4. /\ Made(1) = Desserts(1) /\ Made(2) = Desserts(2) /\ Made(3) = Desserts(3)
        /\ Made(4) = Desserts(4) /\ Made(5) = Desserts(5) /\ Made(6) = Desserts(6)
    BY <2>3
  <2>5. Collected(i) = AllMade
    BY <2>1, <2>4 DEF Collected, AllMade
  <2>6. \A d \in Chefs : cpc[d] = "exited"
    BY <2>1, ChefsAreSix DEF TotalInv
  <2>7. QED BY <2>1, <2>5, <2>6
<1>2. QED BY <1>1, DeliveryHolds, TotalHolds, PTL
-----------------------------------------------------------------------------
(***************************************************************************)
(* Homework 1.                                                             *)
(***************************************************************************)

(***************************************************************************)
(* The inductive invariant behind TextStands: who writes has the lock, so  *)
(* that between his lock and a truncation he alone changes the file.       *)
(***************************************************************************)
ReplaceInv ==
    /\ ReplaceTypeOK
    /\ operations \in [Procs -> Seq(Operation)]
    /\ \A p \in Procs :
          /\ Active(p) => operations[p] # <<>>
          /\ pc[p] = "write" => lock = p /\ offset[p] <= Len(word_list[p])
          /\ pc[p] = "write" /\ stands =>
                /\ offset[p] <= Len(file)
                /\ \A k \in 1 .. offset[p] : file[k] = word_list[p][k]
-----------------------------------------------------------------------------
\* A set of naturals has a least element, which Min chooses: the order of the
\* naturals is well-founded.
LEMMA SmallestOf ==
    ASSUME NEW D \in SUBSET Nat, D # {}
    PROVE  Min(D) \in D /\ \A k \in D : Min(D) <= k
<1> DEFINE Lower == {pair \in Nat \X Nat : pair[1] < pair[2]}
<1>1. IsWellFoundedOn(Lower, Nat)
  BY NatLessThanWellFounded DEF OpToRel
<1>2. PICK k \in D : \A j \in D : ~ (<<j, k>> \in Lower)
  BY <1>1, WFMin
<1>3. ASSUME NEW j \in D PROVE k <= j
  <2>1. j \in Nat /\ k \in Nat /\ <<j, k>> \notin Lower
    BY <1>2
  <2>2. j < k => <<j, k>> \in Lower
    BY <2>1
  <2>3. QED BY <2>1, <2>2
<1>4. QED BY <1>3 DEF Min

\* The place of the first x of a sequence, or 0 (SelectInSeq).
FirstOf(w, x) == SelectInSeq(w, LAMBDA ch : ch = x)

LEMMA FirstPlace ==
    ASSUME NEW X, NEW w \in Seq(X), NEW x
    PROVE  /\ FirstOf(w, x) \in 0 .. Len(w)
           /\ \A k \in 1 .. FirstOf(w, x) - 1 : w[k] # x
           /\ (\E k \in 1 .. Len(w) : w[k] = x) => FirstOf(w, x) > 0
           /\ FirstOf(w, x) > 0 => w[FirstOf(w, x)] = x
<1> DEFINE I == {k \in 1 .. Len(w) : w[k] = x}
           first == FirstOf(w, x)
<1>1. first = IF I # {} THEN Min(I) ELSE 0
  BY DEF FirstOf, SelectInSeq
<1> HIDE DEF first
<1>2. Len(w) \in Nat
  BY LenProperties
<1>3. CASE I = {}
  BY <1>1, <1>2, <1>3 DEF first
<1>4. CASE I # {}
  <2>1. I \in SUBSET Nat
    OBVIOUS
  <2>2. Min(I) \in I /\ \A k \in I : Min(I) <= k
    BY <1>4, <2>1, SmallestOf
  <2>3. first \in 1 .. Len(w) /\ w[first] = x /\ \A k \in I : first <= k
    BY <1>1, <1>4, <2>2
  <2>4. ASSUME NEW k \in 1 .. first - 1 PROVE w[k] # x
    <3>1. k \in 1 .. Len(w) /\ k < first /\ k \in Nat
      BY <1>2, <2>3
    <3>2. k \notin I
      BY <2>3, <3>1
    <3>3. QED BY <3>1, <3>2
  <2>5. QED BY <2>3, <2>4 DEF first
<1>5. QED BY <1>3, <1>4

\* What the file is made of, and what a list of words is made of.
Text == Letters \union Special
Written == Letters \union {Blank, Newline, Garbage}

\* A string has no Nul, and nor has what a list is made from.
LEMMA StringIsWritten ==
    ASSUME NEW w \in Seq(Text)
    PROVE  String(w) \in Seq(Written)
<1>1. /\ Terminated(w) \in -1 .. Len(w) - 1
      /\ \A k \in 1 .. Terminated(w) : w[k] # Nul
      /\ (\E k \in 1 .. Len(w) : w[k] = Nul) => Terminated(w) >= 0
  <2>1. Terminated(w) = FirstOf(w, Nul) - 1
    BY DEF Terminated, FirstOf, SelectInSeq
  <2>2. /\ FirstOf(w, Nul) \in 0 .. Len(w)
        /\ \A k \in 1 .. FirstOf(w, Nul) - 1 : w[k] # Nul
        /\ (\E k \in 1 .. Len(w) : w[k] = Nul) => FirstOf(w, Nul) > 0
    BY FirstPlace
  <2>3. Len(w) \in Nat
    BY LenProperties
  <2>4. QED BY <2>1, <2>2, <2>3
<1>2. Len(w) \in Nat /\ \A k \in 1 .. Len(w) : w[k] \in Text
  BY LenProperties, ElementOfSeq
<1>3. \A k \in 1 .. Len(w) : w[k] # Nul => w[k] \in Written
  BY <1>2 DEF Text, Written, Special
<1>4. CASE \E k \in 1 .. Len(w) : w[k] = Nul
  <2>1. String(w) = SubSeq(w, 1, Terminated(w))
    BY <1>4 DEF String
  <2> DEFINE m == Terminated(w)
  <2>2. m \in 0 .. Len(w) /\ \A k \in 1 .. m : w[k] \in Written
    BY <1>1, <1>2, <1>3, <1>4
  <2>3. Len(SubSeq(w, 1, m)) = m /\ \A k \in 1 .. m : SubSeq(w, 1, m)[k] = w[k]
    BY <2>2
  <2>4. SubSeq(w, 1, m) \in Seq(Text)
    BY <2>2
  <2>5. QED BY <2>1, <2>2, <2>3, <2>4
<1>5. CASE ~ \E k \in 1 .. Len(w) : w[k] = Nul
  <2>1. String(w) = w
    BY <1>5 DEF String
  <2>2. QED BY <1>2, <1>3, <1>5, <2>1
<1>6. QED BY <1>4, <1>5

LEMMA UnterminatedIsWritten ==
    ASSUME NEW w \in Seq(Text), NEW v \in Unterminated(w)
    PROVE  v \in Seq(Written)
<1>1. String(w) \in Seq(Written) /\ Garbage \in Written
  BY StringIsWritten DEF Written
<1>2. String(w) = w => Append(w, Garbage) \in Seq(Written)
  BY <1>1, AppendProperties
<1>3. QED BY <1>1, <1>2 DEF Unterminated

LEMMA ReplacedIsWritten ==
    ASSUME NEW w \in Seq(Written), NEW op \in Operation
    PROVE  check_words(w, op) \in Seq(Written)
<1> DEFINE k == FirstOf(w, op.from)
<1>1. k \in 0 .. Len(w)
  BY FirstPlace
<1>2. check_words(w, op) =
          IF k = 0 THEN w ELSE Append(SubSeq(w, 1, k - 1), op.to)
  BY DEF check_words, FirstOf, SelectInSeq
<1>3. op.to \in Written
  BY DEF Operation, Written
<1> HIDE DEF k
<1>4. k # 0 => SubSeq(w, 1, k - 1) \in Seq(Written)
  BY <1>1
<1>5. k # 0 => Append(SubSeq(w, 1, k - 1), op.to) \in Seq(Written)
  BY <1>3, <1>4, AppendProperties
<1>6. QED BY <1>2, <1>5

\* A copy of what is put, terminated or not.
LEMMA CopyIs ==
    ASSUME NEW v \in Seq(Written), NEW copy \in {v} \union Unterminated(v)
    PROVE  copy \in Seq(Written) /\ (copy = v \/ copy = Append(v, Garbage))
<1>1. \A k \in 1 .. Len(v) : v[k] # Nul
  <2>1. Nul \notin Written
    BY SituationAssumption DEF Written, Special, Nul, Blank, Newline, Garbage
  <2>2. QED BY <2>1, ElementOfSeq
<1>2. String(v) = v
  BY <1>1 DEF String
<1>3. Garbage \in Written
  BY DEF Written
<1>4. QED BY <1>2, <1>3 DEF Unterminated

\* The types, and what the invariant says of process p.
Types ==
    /\ file \in Seq(Text)
    /\ pc \in [Procs -> {"next", "read", "truncate", "lock", "write", "ended"}]
    /\ offset \in [Procs -> Nat]
    /\ word \in [Procs -> Seq(Text)]
    /\ word_list \in [Procs -> Seq(Written)]
    /\ lock \in Procs \union {Nobody}
    /\ operations \in [Procs -> Seq(Operation)]

Stands(p) ==
    /\ Active(p) => operations[p] # <<>>
    /\ pc[p] = "write" => lock = p /\ offset[p] <= Len(word_list[p])
    /\ pc[p] = "write" /\ stands =>
          /\ offset[p] <= Len(file)
          /\ \A k \in 1 .. offset[p] : file[k] = word_list[p][k]

\* Both together are the invariant of the module.
LEMMA InvIs == ReplaceInv <=> Types /\ \A p \in Procs : Stands(p)
BY DEF ReplaceInv, ReplaceTypeOK, Types, Stands, Text, Written

\* The word goes into the list in one of these forms.
LEMMA PutIsWritten ==
    ASSUME Types, NEW p \in Procs, NEW w \in Seq(Written),
           NEW separator \in Seq(Written), Put(p, w, separator)
    PROVE  /\ word_list' \in [Procs -> Seq(Written)]
           /\ \A j \in Procs : j # p => word_list'[j] = word_list[j]
<1>1. word_list' = [word_list EXCEPT ![p] = word_list[p] \o w \o separator]
  BY DEF Put
<1>2. word_list[p] \in Seq(Written)
  BY DEF Types
<1>3. word_list[p] \o w \o separator \in Seq(Written)
  BY <1>2, ConcatProperties
<1>4. QED BY <1>1, <1>3 DEF Types

LEMMA EndOfWordIsWritten ==
    ASSUME Types, NEW p \in Procs, operations[p] # <<>>, NEW replaced,
           NEW strings, \A w \in strings : w \in Seq(Written),
           NEW separator \in Seq(Written),
           EndOfWord(p, replaced, strings, separator)
    PROVE  /\ word_list' \in [Procs -> Seq(Written)]
           /\ \A j \in Procs : j # p => word_list'[j] = word_list[j]
           /\ word' \in [Procs -> Seq(Text)]
<1>1. word' \in [Procs -> Seq(Text)]
  <2>1. word' = [word EXCEPT ![p] = <<>>] /\ <<>> \in Seq(Text)
    BY DEF EndOfWord
  <2>2. QED BY <2>1 DEF Types
<1>2. Op(p) \in Operation
  BY HeadTailProperties DEF Types, Op
<1>3. <<>> \in Seq(Written)
  OBVIOUS
<1>4. \E w \in Seq(Written) : Put(p, w, separator)
  <2>1. CASE word[p] = <<>>
    BY <1>3, <2>1 DEF EndOfWord
  <2>2. CASE word[p] # <<>>
    <3>1. PICK w \in strings :
              Put(p, IF replaced THEN check_words(w, Op(p)) ELSE w, separator)
      BY <2>2 DEF EndOfWord
    <3>2. w \in Seq(Written) /\ check_words(w, Op(p)) \in Seq(Written)
      BY <1>2, <3>1, ReplacedIsWritten
    <3>3. QED BY <3>1, <3>2
  <2>3. QED BY <2>1, <2>2
<1>5. QED BY <1>1, <1>4, PutIsWritten

\* Nothing that a process does before it locks the file concerns another
\* one that has it.
LEMMA OthersStand ==
    ASSUME NEW p \in Procs, NEW j \in Procs, j # p, Stands(j),
           pc'[j] = pc[j], offset'[j] = offset[j],
           word_list'[j] = word_list[j], operations'[j] = operations[j],
           UNCHANGED <<file, lock, stands>>
    PROVE  Stands(j)'
BY DEF Stands, Active

\* The steps of a process, one by one.
LEMMA BeginKeeps ==
    ASSUME Types, \A j \in Procs : Stands(j), NEW p \in Procs, Begin(p)
    PROVE  Types' /\ \A j \in Procs : Stands(j)'
<1>1. /\ UNCHANGED <<file, operations, lock, stands>>
      /\ offset' = [offset EXCEPT ![p] = 0]
      /\ word' = [word EXCEPT ![p] = <<>>]
      /\ word_list' = [word_list EXCEPT ![p] = <<>>]
  BY DEF Begin
<1>2. \/ pc' = [pc EXCEPT ![p] = "read"] /\ operations[p] # <<>>
      \/ pc' = [pc EXCEPT ![p] = "ended"]
  BY DEF Begin, Goto
<1>3. Types'
  <2>1. <<>> \in Seq(Text) /\ <<>> \in Seq(Written)
    OBVIOUS
  <2>2. QED BY <1>1, <1>2, <2>1 DEF Types
<1>4. ASSUME NEW j \in Procs, j # p PROVE Stands(j)'
  <2>1. Stands(j)
    OBVIOUS
  <2>2. /\ pc'[j] = pc[j] /\ offset'[j] = offset[j]
        /\ word_list'[j] = word_list[j] /\ operations'[j] = operations[j]
    BY <1>1, <1>2, <1>4 DEF Types
  <2>3. QED BY <1>1, <1>4, <2>1, <2>2, OthersStand
<1>5. Stands(p)'
  BY <1>1, <1>2 DEF Types, Stands, Active
<1>6. QED BY <1>3, <1>4, <1>5

LEMMA ReadCharKeeps ==
    ASSUME Types, \A j \in Procs : Stands(j), NEW p \in Procs, ReadChar(p)
    PROVE  Types' /\ \A j \in Procs : Stands(j)'
<1> DEFINE ch == file[offset[p] + 1]
<1>1. /\ UNCHANGED <<file, operations, pc, lock, stands>>
      /\ offset' = [offset EXCEPT ![p] = offset[p] + 1]
      /\ pc[p] = "read" /\ offset[p] < Len(file)
  BY DEF ReadChar
<1>2. ch \in Text
  BY <1>1, ElementOfSeq DEF Types
<1>3. operations[p] # <<>>
  BY <1>1 DEF Stands, Active
<1>4. \/ AtNewline(p)
      \/ AtBlank(p)
      \/ InWord(p, ch)
  <2>1. offset'[p] = offset[p] + 1
    BY <1>1 DEF Types
  <2>2. QED BY <2>1 DEF ReadChar
<1>5. /\ word_list' \in [Procs -> Seq(Written)]
      /\ \A j \in Procs : j # p => word_list'[j] = word_list[j]
      /\ word' \in [Procs -> Seq(Text)]
  <2>1. word[p] \in Seq(Text)
    BY DEF Types
  <2>2. <<Newline>> \in Seq(Written) /\ <<Blank>> \in Seq(Written)
    BY DEF Written
  <2>3. CASE AtNewline(p)
    <3>1. PICK replaced : EndOfWord(p, replaced, Unterminated(word[p]), <<Newline>>)
      BY <2>3 DEF AtNewline
    <3>2. \A w \in Unterminated(word[p]) : w \in Seq(Written)
      BY <2>1, UnterminatedIsWritten
    <3>3. QED BY <1>3, <2>2, <3>1, <3>2, EndOfWordIsWritten
  <2>4. CASE AtBlank(p)
    <3>1. PICK replaced : EndOfWord(p, replaced, {String(word[p])}, <<Blank>>)
      BY <2>4 DEF AtBlank
    <3>2. \A w \in {String(word[p])} : w \in Seq(Written)
      BY <2>1, StringIsWritten
    <3>3. QED BY <1>3, <2>2, <3>1, <3>2, EndOfWordIsWritten
  <2>5. CASE InWord(p, ch)
    <3>1. word' = [word EXCEPT ![p] = Append(word[p], ch)]
          /\ UNCHANGED word_list
      BY <2>5 DEF InWord
    <3>2. Append(word[p], ch) \in Seq(Text)
      BY <1>2, <2>1, AppendProperties
    <3>3. QED BY <3>1, <3>2 DEF Types
  <2>6. QED BY <1>4, <2>3, <2>4, <2>5
<1>6. Types'
  <2>1. offset' \in [Procs -> Nat]
    BY <1>1 DEF Types
  <2>2. QED BY <1>1, <1>5, <2>1 DEF Types
<1>7. ASSUME NEW j \in Procs, j # p PROVE Stands(j)'
  <2>1. Stands(j)
    OBVIOUS
  <2>2. /\ pc'[j] = pc[j] /\ offset'[j] = offset[j]
        /\ word_list'[j] = word_list[j] /\ operations'[j] = operations[j]
    BY <1>1, <1>5, <1>7 DEF Types
  <2>3. QED BY <1>1, <1>7, <2>1, <2>2, OthersStand
<1>8. Stands(p)'
  BY <1>1, <1>3 DEF Stands
<1>9. QED BY <1>6, <1>7, <1>8

LEMMA ReadEndKeeps ==
    ASSUME Types, \A j \in Procs : Stands(j), NEW p \in Procs, ReadEnd(p)
    PROVE  Types' /\ \A j \in Procs : Stands(j)'
<1>1. /\ UNCHANGED <<file, operations, offset, word, lock, stands>>
      /\ pc[p] = "read" /\ pc' = [pc EXCEPT ![p] = "truncate"]
  BY DEF ReadEnd, Goto
<1>2. operations[p] # <<>> /\ word[p] \in Seq(Text)
  BY <1>1 DEF Stands, Active, Types
<1>3. /\ word_list' \in [Procs -> Seq(Written)]
      /\ \A j \in Procs : j # p => word_list'[j] = word_list[j]
  <2>1. PICK w \in Unterminated(word[p]) :
          \E copy \in {check_words(w, Op(p))} \union Unterminated(check_words(w, Op(p))) :
             Put(p, copy, <<>>)
    BY DEF ReadEnd
  <2>2. w \in Seq(Written) /\ Op(p) \in Operation
    BY <1>2, UnterminatedIsWritten, HeadTailProperties DEF Types, Op
  <2> DEFINE v == check_words(w, Op(p))
  <2>3. v \in Seq(Written) /\ <<>> \in Seq(Written)
    BY <2>2, ReplacedIsWritten
  <2>4. PICK copy \in {v} \union Unterminated(v) : Put(p, copy, <<>>)
    BY <2>1
  <2> HIDE DEF v
  <2>5. copy \in Seq(Written)
    BY <2>3, CopyIs
  <2>6. QED BY <2>3, <2>4, <2>5, PutIsWritten
<1>4. Types'
  BY <1>1, <1>3 DEF Types
<1>5. ASSUME NEW j \in Procs, j # p PROVE Stands(j)'
  <2>1. Stands(j)
    OBVIOUS
  <2>2. /\ pc'[j] = pc[j] /\ offset'[j] = offset[j]
        /\ word_list'[j] = word_list[j] /\ operations'[j] = operations[j]
    BY <1>1, <1>3, <1>5 DEF Types
  <2>3. QED BY <1>1, <1>5, <2>1, <2>2, OthersStand
<1>6. Stands(p)'
  BY <1>1, <1>2 DEF Types, Stands
<1>7. QED BY <1>4, <1>5, <1>6

LEMMA TruncateKeeps ==
    ASSUME Types, \A j \in Procs : Stands(j), NEW p \in Procs, Truncate(p)
    PROVE  Types' /\ \A j \in Procs : Stands(j)'
<1>1. /\ UNCHANGED <<operations, offset, word, word_list, lock>>
      /\ pc[p] = "truncate" /\ pc' = [pc EXCEPT ![p] = "lock"]
      /\ file' = <<>> /\ stands' = FALSE
  BY DEF Truncate, Goto
<1>2. Types'
  <2>1. <<>> \in Seq(Text)
    OBVIOUS
  <2>2. QED BY <1>1, <2>1 DEF Types
<1>3. ASSUME NEW j \in Procs PROVE Stands(j)'
  <2>1. /\ Stands(j)
        /\ (pc'[j] = pc[j]) \/ (pc[j] = "truncate" /\ pc'[j] = "lock")
    BY <1>1 DEF Types
  <2>2. QED BY <1>1, <2>1 DEF Stands, Active
<1>4. QED BY <1>2, <1>3

\* The lock is free: nobody else writes.
LEMMA LockKeeps ==
    ASSUME Types, \A j \in Procs : Stands(j),
           NEW p \in Procs, Lock(p)
    PROVE  Types' /\ \A j \in Procs : Stands(j)'
<1>1. /\ UNCHANGED <<file, operations, word, word_list>>
      /\ pc[p] = "lock" /\ pc' = [pc EXCEPT ![p] = "write"]
      /\ lock = Nobody /\ lock' = p
      /\ offset' = [offset EXCEPT ![p] = 0]
  BY DEF Lock, Goto
<1>2. Types'
  BY <1>1 DEF Types
<1>3. ASSUME NEW j \in Procs, j # p PROVE Stands(j)'
  <2>1. Stands(j) /\ lock # j
    BY <1>1, SituationAssumption
  <2>2. pc'[j] = pc[j] /\ pc[j] # "write"
    BY <1>1, <1>3, <2>1 DEF Types, Stands
  <2>3. QED BY <1>1, <2>1, <2>2 DEF Stands, Active
<1>4. Stands(p)'
  <2>1. /\ pc'[p] = "write" /\ offset'[p] = 0 /\ operations[p] # <<>>
        /\ word_list[p] \in Seq(Written) /\ file \in Seq(Text)
    BY <1>1 DEF Types, Stands, Active
  <2>2. QED BY <1>1, <2>1 DEF Stands
<1>5. QED BY <1>2, <1>3, <1>4

LEMMA WriteCharKeeps ==
    ASSUME Types, \A j \in Procs : Stands(j), NEW p \in Procs, WriteChar(p)
    PROVE  Types' /\ \A j \in Procs : Stands(j)'
<1> DEFINE next == offset[p] + 1
           length == IF next > Len(file) THEN next ELSE Len(file)
           at(k) == IF k = next THEN word_list[p][next]
                    ELSE IF k <= Len(file) THEN file[k] ELSE Nul
<1>1. /\ UNCHANGED <<operations, pc, word, word_list, lock, stands>>
      /\ pc[p] = "write" /\ offset[p] < Len(word_list[p])
      /\ offset' = [offset EXCEPT ![p] = next]
      /\ file' = [k \in 1 .. length |-> at(k)]
  BY DEF WriteChar
<1>2. next \in Nat \ {0} /\ Len(file) \in Nat /\ length \in Nat /\ length >= next
      /\ length >= Len(file) /\ Len(word_list[p]) \in Nat
  BY LenProperties DEF Types
<1>3. /\ \A k \in 1 .. Len(word_list[p]) : word_list[p][k] \in Written
      /\ \A k \in 1 .. Len(file) : file[k] \in Text
  BY ElementOfSeq DEF Types
<1>4. ASSUME NEW k \in 1 .. length PROVE at(k) \in Text
  <2>1. Written \subseteq Text /\ Nul \in Text
    BY DEF Written, Text, Special
  <2>2. next \in 1 .. Len(word_list[p])
    <3>1. offset[p] \in Nat
      BY DEF Types
    <3>2. QED BY <1>1, <1>2, <3>1
  <2>3. CASE k = next
    BY <1>3, <2>1, <2>2, <2>3
  <2>4. CASE k # next /\ k <= Len(file)
    BY <1>2, <1>3, <2>4
  <2>5. CASE k # next /\ ~ (k <= Len(file))
    BY <2>1, <2>5
  <2>6. QED BY <2>3, <2>4, <2>5
<1>5. file' \in Seq(Text) /\ Len(file') = length
  <2> HIDE DEF length, at
  <2>1. QED BY <1>1, <1>2, <1>4
<1>6. Types'
  BY <1>1, <1>2, <1>5 DEF Types
<1>7. ASSUME NEW j \in Procs, j # p PROVE Stands(j)'
  <2>1. Stands(j) /\ pc[j] # "write"
    BY <1>1, <1>7 DEF Stands
  <2>2. QED BY <1>1, <2>1 DEF Stands, Active
<1>8. Stands(p)'
  <2>1. Stands(p) /\ pc'[p] = "write" /\ offset'[p] = next
    BY <1>1 DEF Types
  <2>2. lock' = p /\ operations'[p] # <<>>
    BY <1>1, <2>1 DEF Stands, Active
  <2>6. offset'[p] <= Len(word_list'[p])
    <3>1. offset[p] \in Nat
      BY DEF Types
    <3>2. QED BY <1>1, <1>2, <2>1, <3>1
  <2>3. ASSUME stands, NEW k \in 1 .. next PROVE file'[k] = word_list[p][k]
    <3>1. offset[p] <= Len(file) /\ \A l \in 1 .. offset[p] : file[l] = word_list[p][l]
      BY <1>1, <2>1, <2>3 DEF Stands
    <3>2. file'[k] = at(k)
      BY <1>1, <1>2
    <3>3. CASE k = next
      BY <3>2, <3>3
    <3>4. CASE k # next
      <4>1. k \in 1 .. offset[p] /\ k <= Len(file)
        BY <1>2, <3>1, <3>4 DEF Types
      <4>2. QED BY <3>1, <3>2, <3>4, <4>1
    <3>5. QED BY <3>3, <3>4
  <2>4. stands => offset'[p] <= Len(file')
    BY <1>2, <1>5, <2>1
  <2> HIDE DEF next
  <2>5. QED BY <1>1, <2>1, <2>2, <2>3, <2>4, <2>6 DEF Stands
<1>9. QED BY <1>6, <1>7, <1>8

LEMMA UnlockKeeps ==
    ASSUME Types, \A j \in Procs : Stands(j), NEW p \in Procs, Unlock(p)
    PROVE  Types' /\ \A j \in Procs : Stands(j)'
<1>1. /\ UNCHANGED <<file, offset, word, word_list, stands>>
      /\ pc[p] = "write" /\ pc' = [pc EXCEPT ![p] = "next"]
      /\ lock' = Nobody
      /\ operations' = [operations EXCEPT ![p] = Tail(operations[p])]
  BY DEF Unlock, Goto
<1>2. operations[p] \in Seq(Operation) /\ operations[p] # <<>> /\ lock = p
  BY <1>1 DEF Types, Stands, Active
<1>3. Tail(operations[p]) \in Seq(Operation)
  BY <1>2, HeadTailProperties
<1>4. Types'
  BY <1>1, <1>3 DEF Types
<1>5. ASSUME NEW j \in Procs, j # p PROVE Stands(j)'
  <2>1. Stands(j) /\ pc[j] # "write" /\ pc'[j] = pc[j]
        /\ operations'[j] = operations[j]
    BY <1>1, <1>2, <1>5 DEF Types, Stands
  <2>2. QED BY <1>1, <2>1 DEF Stands, Active
<1>6. Stands(p)'
  BY <1>1 DEF Types, Stands, Active
<1>7. QED BY <1>4, <1>5, <1>6

\* Init and every step keep it.
LEMMA ReplaceInvHolds == ReplaceSpec => []ReplaceInv
<1> DEFINE Inv == Types /\ \A j \in Procs : Stands(j)
<1>1. ReplaceInit => Inv
  <2> SUFFICES ASSUME ReplaceInit PROVE Inv
    OBVIOUS
  <2>1. PICK s \in Situations : file = s.text /\ operations = s.operations
    BY DEF ReplaceInit
  <2>2. /\ s.text \in Seq(Letters \union {Blank, Newline})
        /\ s.operations \in [Procs -> Seq(Operation)]
    BY SituationAssumption
  <2>3. s.text \in Seq(Text)
    <3>1. Letters \union {Blank, Newline} \subseteq Text
      BY DEF Text, Special
    <3>2. QED BY <2>2, <3>1
  <2>4. <<>> \in Seq(Text) /\ <<>> \in Seq(Written)
    OBVIOUS
  <2>5. Types
    BY <2>1, <2>2, <2>3, <2>4 DEF Types, ReplaceInit
  <2>6. \A j \in Procs : Stands(j)
    BY DEF Stands, Active, ReplaceInit
  <2>7. QED BY <2>5, <2>6
<1>2. Inv /\ [ReplaceNext]_replaceVars => Inv'
  <2> SUFFICES ASSUME Inv, [ReplaceNext]_replaceVars PROVE Inv'
    OBVIOUS
  <2>1. CASE UNCHANGED replaceVars
    BY <2>1 DEF replaceVars, Types, Stands, Active
  <2>2. ASSUME NEW p \in Procs, Step(p) PROVE Inv'
    BY <2>2, BeginKeeps, ReadCharKeeps, ReadEndKeeps, TruncateKeeps, LockKeeps,
       WriteCharKeeps, UnlockKeeps DEF Step
  <2>3. QED BY <2>1, <2>2 DEF ReplaceNext
<1>3. Inv <=> ReplaceInv
  BY InvIs
<1> HIDE DEF Inv
<1>4. QED BY <1>1, <1>2, <1>3, PTL DEF ReplaceSpec

(***************************************************************************)
(* What is written under the lock stands there until another process       *)
(* truncates the file, and no list of words holds a Nul, for any number of *)
(* processes, any text and any operations (write_file, read_file).         *)
(***************************************************************************)
THEOREM WhatIsWrittenStands == ReplaceSpec => []TextStands
<1>1. ReplaceInv => TextStands
  <2> SUFFICES ASSUME ReplaceInv PROVE TextStands
    OBVIOUS
  <2>1. ReplaceTypeOK /\ Types /\ \A p \in Procs : Stands(p)
    BY InvIs DEF ReplaceInv
  <2>2. ASSUME NEW p \in Procs, pc[p] = "write", stands
        PROVE  /\ offset[p] <= Len(file)
               /\ SubSeq(file, 1, offset[p]) = SubSeq(word_list[p], 1, offset[p])
    <3>1. /\ offset[p] <= Len(file) /\ offset[p] <= Len(word_list[p])
          /\ \A k \in 1 .. offset[p] : file[k] = word_list[p][k]
          /\ file \in Seq(Text) /\ word_list[p] \in Seq(Written)
          /\ offset[p] \in Nat
      BY <2>1, <2>2 DEF Stands, Types
    <3> DEFINE a == SubSeq(file, 1, offset[p])
               b == SubSeq(word_list[p], 1, offset[p])
    <3>2. /\ a \in Seq(Text) /\ Len(a) = offset[p]
          /\ \A k \in 1 .. offset[p] : a[k] = file[k]
      BY <3>1
    <3>3. /\ b \in Seq(Written) /\ Len(b) = offset[p]
          /\ \A k \in 1 .. offset[p] : b[k] = word_list[p][k]
      BY <3>1
    <3>4. \A k \in 1 .. Len(a) : a[k] = b[k]
      BY <3>1, <3>2, <3>3
    <3>5. a \in Seq(Text) /\ b \in Seq(Text)
      <4>1. Written \subseteq Text
        BY DEF Written, Text, Special
      <4>2. QED BY <3>2, <3>3, <4>1
    <3> HIDE DEF a, b
    <3>6. a = b
      BY <3>2, <3>3, <3>4, <3>5, SeqEqual
    <3>7. QED BY <3>1, <3>6 DEF a, b
  <2>3. LockedTextStands
    BY <2>2 DEF LockedTextStands
  <2>4. QED BY <2>1, <2>3 DEF TextStands
<1>2. QED BY <1>1, ReplaceInvHolds, PTL
-----------------------------------------------------------------------------
(***************************************************************************)
(* Operations that nobody ran into.                                        *)
(***************************************************************************)
\* How many places of a text up to k count.
LEMMA RankIs ==
    ASSUME NEW text, Len(text) \in Nat, NEW k \in Nat
    PROVE  /\ IsFiniteSet({j \in Solid(text) : j <= k})
           /\ Rank(text, k) \in Nat
<1>1. IsFiniteSet(1 .. Len(text))
  BY FS_Interval
<1>2. {j \in Solid(text) : j <= k} \subseteq 1 .. Len(text)
  BY DEF Solid
<1>3. IsFiniteSet({j \in Solid(text) : j <= k})
  BY <1>1, <1>2, FS_Subset
<1>4. QED BY <1>3, FS_CardinalityType DEF Rank

\* What malloc left does not count.
LEMMA RankSkips ==
    ASSUME NEW text, Len(text) \in Nat, NEW k \in Nat, NEW q \in Nat, k <= q,
           \A j \in k + 1 .. q : text[j] = Garbage
    PROVE  /\ Rank(text, q) = Rank(text, k)
           /\ \A j \in Solid(text) : j <= q => j <= k
<1>1. ASSUME NEW j \in Solid(text), j <= q PROVE j <= k
  BY <1>1 DEF Solid
<1>2. {j \in Solid(text) : j <= q} = {j \in Solid(text) : j <= k}
  <2>1. \A j \in Solid(text) : j \in Nat
    BY DEF Solid
  <2>2. \A j \in Solid(text) : j <= q <=> j <= k
    BY <1>1, <2>1
  <2>3. QED BY <2>2
<1>3. QED BY <1>1, <1>2 DEF Rank

\* Anything else does.
LEMMA RankCounts ==
    ASSUME NEW text, Len(text) \in Nat, NEW k \in Nat, k + 1 \in Solid(text)
    PROVE  Rank(text, k + 1) = Rank(text, k) + 1
<1> DEFINE S(q) == {j \in Solid(text) : j <= q}
<1>1. S(k + 1) = S(k) \union {k + 1} /\ k + 1 \notin S(k)
  <2>1. \A j \in Solid(text) : j \in Nat
    BY DEF Solid
  <2>2. \A j \in Solid(text) : j <= k + 1 <=> j <= k \/ j = k + 1
    BY <2>1
  <2>3. QED BY <2>2
<1>2. IsFiniteSet(S(k))
  BY RankIs
<1> HIDE DEF S
<1>3. Cardinality(S(k + 1)) = Cardinality(S(k)) + 1
  BY <1>1, <1>2, FS_AddElement
<1>4. QED BY <1>3 DEF Rank, S

LEMMA RankGrows ==
    ASSUME NEW text, Len(text) \in Nat, NEW k \in Nat, NEW q \in Nat, k <= q
    PROVE  Rank(text, k) <= Rank(text, q)
<1> DEFINE S(r) == {j \in Solid(text) : j <= r}
<1>1. S(k) \subseteq S(q)
  BY DEF Solid
<1>2. IsFiniteSet(S(q)) /\ IsFiniteSet(S(k))
  BY RankIs
<1> HIDE DEF S
<1>3. Cardinality(S(k)) <= Cardinality(S(q))
  BY <1>1, <1>2, FS_Subset
<1>4. QED BY <1>3 DEF Rank, S

\* Only what stands up to k matters.
LEMMA RankOfPrefix ==
    ASSUME NEW text, NEW other, NEW k \in Nat, Len(text) \in Nat,
           Len(other) \in Nat, k <= Len(text), k <= Len(other),
           \A j \in 1 .. k : text[j] = other[j]
    PROVE  /\ Rank(text, k) = Rank(other, k)
           /\ \A j : j \in Solid(text) /\ j <= k <=> j \in Solid(other) /\ j <= k
<1>1. \A j : j \in Solid(text) /\ j <= k <=> j \in Solid(other) /\ j <= k
  BY DEF Solid
<1>2. {j \in Solid(text) : j <= k} = {j \in Solid(other) : j <= k}
  BY <1>1
<1>3. QED BY <1>1, <1>2 DEF Rank

\* What is right of two texts stays so when both grow in step.
LEMMA RightStart ==
    ASSUME NEW old, NEW new, Len(old) \in Nat, Len(new) \in Nat, NEW op
    PROVE  RightText(old, 0, new, 0, op)
<1>1. {j \in Solid(old) : j <= 0} = {} /\ {j \in Solid(new) : j <= 0} = {}
  BY DEF Solid
<1>2. \A j \in Solid(old) : ~ j <= 0
  BY DEF Solid
<1>3. Rank(old, 0) = Rank(new, 0)
  BY <1>1 DEF Rank
<1>4. QED BY <1>2, <1>3 DEF RightText

LEMMA RightSkipsOld ==
    ASSUME NEW old, NEW new, Len(old) \in Nat, Len(new) \in Nat, NEW op,
           NEW m \in Nat, NEW q \in Nat, RightText(old, m, new, q, op),
           NEW o \in Nat, m <= o, \A j \in m + 1 .. o : old[j] = Garbage
    PROVE  RightText(old, o, new, q, op)
<1>1. /\ Rank(old, o) = Rank(old, m)
      /\ \A j \in Solid(old) : j <= o => j <= m
  BY RankSkips
<1>2. QED BY <1>1 DEF RightText

LEMMA RightSkipsNew ==
    ASSUME NEW old, NEW new, Len(old) \in Nat, Len(new) \in Nat, NEW op,
           NEW m \in Nat, NEW q \in Nat, RightText(old, m, new, q, op),
           NEW o \in Nat, q <= o, \A j \in q + 1 .. o : new[j] = Garbage
    PROVE  RightText(old, m, new, o, op)
<1>1. /\ Rank(new, o) = Rank(new, q)
      /\ \A j \in Solid(new) : j <= o => j <= q
  BY RankSkips
<1>2. QED BY <1>1 DEF RightText

LEMMA RightNext ==
    ASSUME NEW old, NEW new, Len(old) \in Nat, Len(new) \in Nat, NEW op,
           NEW m \in Nat, NEW q \in Nat, RightText(old, m, new, q, op),
           m + 1 \in Solid(old), q + 1 \in Solid(new),
           RightLetter(old, m + 1, new[q + 1], op)
    PROVE  RightText(old, m + 1, new, q + 1, op)
<1>1. /\ Rank(old, m + 1) = Rank(old, m) + 1
      /\ Rank(new, q + 1) = Rank(new, q) + 1
  BY RankCounts
<1>2. Rank(old, m) = Rank(new, q) /\ Rank(old, m) \in Nat
  BY RankIs DEF RightText
<1>3. ASSUME NEW j \in Solid(old), NEW k \in Solid(new), j <= m + 1, k <= q + 1,
             Rank(old, j) = Rank(new, k)
      PROVE  RightLetter(old, j, new[k], op)
  <2>1. j \in Nat /\ k \in Nat
    BY DEF Solid
  <2>2. CASE j <= m /\ k <= q
    BY <1>3, <2>2 DEF RightText
  <2>3. CASE j = m + 1 /\ k = q + 1
    BY <2>3
  <2>4. CASE j = m + 1 /\ k <= q
    <3>1. Rank(new, k) <= Rank(new, q) /\ Rank(new, k) \in Nat
      BY <2>1, <2>4, RankGrows, RankIs
    <3>2. QED BY <1>1, <1>2, <1>3, <2>4, <3>1
  <2>5. CASE j <= m /\ k = q + 1
    <3>1. Rank(old, j) <= Rank(old, m) /\ Rank(old, j) \in Nat
      BY <2>1, <2>5, RankGrows, RankIs
    <3>2. QED BY <1>1, <1>2, <1>3, <2>5, <3>1
  <2>6. QED BY <1>3, <2>1, <2>2, <2>3, <2>4, <2>5
<1>4. QED BY <1>1, <1>2, <1>3 DEF RightText

LEMMA RightPrefix ==
    ASSUME NEW old, NEW new, NEW longer, Len(new) \in Nat,
           Len(longer) \in Nat, NEW op, NEW m \in Nat, NEW q \in Nat,
           RightText(old, m, new, q, op), q <= Len(new), q <= Len(longer),
           \A k \in 1 .. q : longer[k] = new[k]
    PROVE  RightText(old, m, longer, q, op)
<1>1. /\ Rank(longer, q) = Rank(new, q)
      /\ \A k : k \in Solid(longer) /\ k <= q <=> k \in Solid(new) /\ k <= q
  BY RankOfPrefix
<1>2. ASSUME NEW j \in Solid(old), NEW k \in Solid(longer), j <= m, k <= q,
             Rank(old, j) = Rank(longer, k)
      PROVE  RightLetter(old, j, longer[k], op)
  <2>1. k \in 1 .. q /\ k \in Solid(new)
    BY <1>1, <1>2 DEF Solid
  <2>2. Rank(longer, k) = Rank(new, k)
    BY <2>1, RankOfPrefix
  <2>3. RightLetter(old, j, new[k], op)
    BY <1>2, <2>1, <2>2 DEF RightText
  <2>4. QED BY <2>1, <2>3
<1>3. QED BY <1>1, <1>2 DEF RightText

-----------------------------------------------------------------------------
\* The word at the places m + 1 .. o of a whole text: a letter, or none, and
\* what malloc left.
Separators == {Blank, Newline}

Word(text, m, o) ==
    /\ m \in Nat /\ o \in Nat /\ m <= o /\ o <= Len(text)
    /\ \A k \in m + 1 .. o : text[k] \notin Separators
    /\ m > 0 => text[m] \in Separators

LEMMA WordIs ==
    ASSUME NEW text \in Seq(Text), Whole(text), NEW m, NEW o, Word(text, m, o)
    PROVE  /\ \A k \in m + 2 .. o : text[k] = Garbage
           /\ m < o => text[m + 1] \in Letters \union {Garbage}
<1>1. Len(text) \in Nat /\ \A k \in 1 .. Len(text) : text[k] \in Text
  BY LenProperties, ElementOfSeq
<1>2. ASSUME NEW k \in m + 1 .. o
      PROVE  text[k] \in Letters \union {Garbage} /\ (text[k] \in Letters => k = m + 1)
  <2>1. k \in 1 .. Len(text) /\ text[k] \notin Separators
    BY <1>1 DEF Word
  <2>2. /\ text[k] # Nul
        /\ text[k] \in Letters /\ k > 1 => text[k - 1] \in Separators
    BY <2>1 DEF Whole, Separators
  <2>3. text[k] \in Letters \union {Garbage}
    BY <1>1, <2>1, <2>2 DEF Text, Special, Separators
  <2>4. ASSUME text[k] \in Letters, k # m + 1 PROVE FALSE
    <3>1. k > 1 /\ k - 1 \in m + 1 .. o
      BY <2>4 DEF Word
    <3>2. QED BY <2>2, <2>4, <3>1 DEF Word
  <2>5. QED BY <2>3, <2>4
<1>3. QED BY <1>1, <1>2 DEF Word

\* Before a separator a word is not only what malloc left.
LEMMA LetterOfWord ==
    ASSUME NEW text \in Seq(Text), Whole(text), NEW m, NEW o, Word(text, m, o),
           m < o, o < Len(text), text[o + 1] \in Separators
    PROVE  text[m + 1] \in Letters
<1>1. /\ m \in Nat /\ o \in Nat /\ Len(text) \in Nat
      /\ m > 0 => text[m] \in Separators
  BY LenProperties DEF Word
<1>2. SUFFICES ASSUME text[m + 1] = Garbage PROVE FALSE
  BY WordIs
<1>3. m + 1 \in 1 .. Len(text) /\ (m + 1) - 1 = m
  BY <1>1
<1>4. \/ m + 1 > 1 /\ text[(m + 1) - 1] \notin Separators
      \/ \A j \in m + 1 .. Len(text) : text[j] = Garbage
  BY <1>2, <1>3 DEF Whole, Separators
<1>5. CASE m + 1 > 1 /\ text[(m + 1) - 1] \notin Separators
  BY <1>1, <1>3, <1>5
<1>6. CASE \A j \in m + 1 .. Len(text) : text[j] = Garbage
  <2>1. o + 1 \in m + 1 .. Len(text)
    BY <1>1
  <2>2. text[o + 1] = Garbage
    BY <1>6, <2>1
  <2>3. QED BY <2>2 DEF Separators, Garbage, Blank, Newline
<1>7. QED BY <1>4, <1>5, <1>6

\* What check_words makes of such a word.
LEMMA LetterReplaced ==
    ASSUME NEW w \in Seq(Written), NEW op \in Operation,
           \A k \in 2 .. Len(w) : w[k] = Garbage
    PROVE  check_words(w, op) =
               IF Len(w) > 0 /\ w[1] = op.from THEN <<op.to>> ELSE w
<1> DEFINE k == FirstOf(w, op.from)
<1>1. /\ k \in 0 .. Len(w) /\ Len(w) \in Nat
      /\ \A j \in 1 .. k - 1 : w[j] # op.from
      /\ (\E j \in 1 .. Len(w) : w[j] = op.from) => k > 0
      /\ k > 0 => w[k] = op.from
  BY FirstPlace, LenProperties
<1>2. check_words(w, op) =
          IF k = 0 THEN w ELSE Append(SubSeq(w, 1, k - 1), op.to)
  BY DEF check_words, FirstOf, SelectInSeq
<1>3. op.from # Garbage
  BY SituationAssumption DEF Operation, Special
<1> HIDE DEF k
<1>4. CASE Len(w) > 0 /\ w[1] = op.from
  <2>1. k = 1
    BY <1>1, <1>4
  <2>2. SubSeq(w, 1, k - 1) = <<>>
    <3>1. SubSeq(w, 1, 0) = <<>>
      OBVIOUS
    <3>2. k - 1 = 0
      BY <2>1
    <3>3. QED BY <3>1, <3>2
  <2>3. check_words(w, op) = Append(<<>>, op.to)
    <3>1. k # 0
      BY <2>1
    <3>2. check_words(w, op) = Append(SubSeq(w, 1, k - 1), op.to)
      BY <1>2, <3>1, Zenon
    <3>3. QED BY <2>2, <3>2, Zenon
  <2>4. Append(<<>>, op.to) = <<op.to>>
    OBVIOUS
  <2>5. QED BY <1>4, <2>3, <2>4
<1>5. CASE ~ (Len(w) > 0 /\ w[1] = op.from)
  <2>1. k = 0
    BY <1>1, <1>3, <1>5
  <2>2. QED BY <1>2, <1>5, <2>1
<1>6. QED BY <1>4, <1>5

\* The word v is put for the word of the text: its letter, if it has one, is
\* the letter meant.
LEMMA RightWord ==
    ASSUME NEW old \in Seq(Text), Whole(old), NEW m, NEW o, Word(old, m, o),
           NEW op, NEW list \in Seq(Written), NEW v \in Seq(Written),
           RightText(old, m, list, Len(list), op),
           \A k \in 2 .. Len(v) : v[k] = Garbage,
           \/ /\ m < o /\ Len(v) > 0
              /\ old[m + 1] # Garbage /\ v[1] # Garbage
              /\ RightLetter(old, m + 1, v[1], op)
           \/ /\ m < o => old[m + 1] = Garbage
              /\ Len(v) > 0 => v[1] = Garbage
    PROVE  RightText(old, o, list \o v, Len(list \o v), op)
<1> DEFINE new == list \o v
           q == Len(list)
<1>1. /\ q \in Nat /\ Len(v) \in Nat /\ Len(old) \in Nat
      /\ Len(new) = q + Len(v)
      /\ \A k \in 1 .. q : new[k] = list[k]
      /\ \A k \in 1 .. Len(v) : new[q + k] = v[k]
  BY LenProperties, ConcatProperties
<1>2. m \in Nat /\ o \in Nat /\ m <= o /\ o <= Len(old)
  BY DEF Word
<1>3. \A k \in m + 2 .. o : old[k] = Garbage
  BY WordIs
<1>4. \A k \in q + 2 .. Len(new) : new[k] = Garbage
  <2> TAKE k \in q + 2 .. Len(new)
  <2>1. k - q \in 2 .. Len(v) /\ k = q + (k - q) /\ k - q \in 1 .. Len(v)
    BY <1>1
  <2>2. QED BY <1>1, <2>1
<1> HIDE DEF new, q
<1>5. RightText(old, m, new, q, op)
  <2>1. Len(list) = q /\ RightText(old, m, list, q, op)
    BY DEF q
  <2>2. QED BY <1>1, <1>2, <2>1, RightPrefix
<1>6. CASE /\ m < o /\ Len(v) > 0
           /\ old[m + 1] # Garbage /\ v[1] # Garbage
           /\ RightLetter(old, m + 1, v[1], op)
  <2>1. m + 1 \in Solid(old) /\ q + 1 \in Solid(new) /\ new[q + 1] = v[1]
    BY <1>1, <1>2, <1>6 DEF Solid
  <2>2. RightText(old, m + 1, new, q + 1, op)
    <3>1. Len(new) \in Nat
      BY <1>1
    <3>2. RightLetter(old, m + 1, new[q + 1], op)
      BY <1>6, <2>1
    <3>3. QED BY <1>1, <1>2, <1>5, <2>1, <3>1, <3>2, RightNext
  <2>3. m + 1 \in Nat /\ q + 1 \in Nat /\ m + 1 <= o /\ q + 1 <= Len(new)
        /\ Len(new) \in Nat
    BY <1>1, <1>2, <1>6
  <2>4. /\ \A j \in (m + 1) + 1 .. o : old[j] = Garbage
        /\ \A j \in (q + 1) + 1 .. Len(new) : new[j] = Garbage
    BY <1>1, <1>2, <1>3, <1>4
  <2>5. RightText(old, o, new, q + 1, op)
    BY <1>1, <1>2, <2>2, <2>3, <2>4, RightSkipsOld
  <2>6. RightText(old, o, new, Len(new), op)
    BY <1>1, <1>2, <2>3, <2>4, <2>5, RightSkipsNew
  <2>7. QED BY <2>6 DEF new
<1>7. CASE /\ m < o => old[m + 1] = Garbage
           /\ Len(v) > 0 => v[1] = Garbage
  <2>1. \A j \in m + 1 .. o : old[j] = Garbage
    BY <1>2, <1>3, <1>7
  <2>2. \A j \in q + 1 .. Len(new) : new[j] = Garbage
    <3> TAKE j \in q + 1 .. Len(new)
    <3>1. CASE j = q + 1
      BY <1>1, <1>7, <3>1
    <3>2. CASE j # q + 1
      BY <1>1, <1>4, <3>2
    <3>3. QED BY <3>1, <3>2
  <2>3. RightText(old, o, new, q, op)
    BY <1>1, <1>2, <1>5, <2>1, RightSkipsOld
  <2>4. q <= Len(new) /\ Len(new) \in Nat
    BY <1>1
  <2>5. RightText(old, o, new, Len(new), op)
    BY <1>1, <1>2, <2>2, <2>3, <2>4, RightSkipsNew
  <2>6. QED BY <2>5 DEF new
<1>8. QED BY <1>6, <1>7

-----------------------------------------------------------------------------
\* What the flags of read_file tell, once m characters are in the list.
FlagsTell(text, m, f) ==
    /\ f.first_word <=> FirstWord(text, m + 1)
    /\ f.start_line <=> StartsLine(text, m + 1)

\* The process p, alone with a whole text, has put what its first m characters
\* become into the list, and the rest of what it read is in the word.
ReadSoFar(p) ==
    LET text == before[p]
        m == offset[p] - Len(word[p])
    IN  /\ file = text
        /\ m \in 0 .. Len(text) /\ offset[p] <= Len(text)
        /\ \A k \in 1 .. Len(word[p]) :
              word[p][k] = text[m + k] /\ text[m + k] \notin Separators
        /\ m > 0 => text[m] \in Separators
        /\ RightText(text, m, word_list[p], Len(word_list[p]), Op(p))
        /\ Op(p).line_case = START_OF_LINE => FlagsTell(text, m, flags[p])

\* The list is what the whole text becomes.
ListIsRight(p) ==
    RightText(before[p], Len(before[p]), word_list[p], Len(word_list[p]), Op(p))

\* Where an undisturbed operation is, and what the file is then.
Stage(p) ==
    /\ pc[p] = "read" => ReadSoFar(p)
    /\ pc[p] \in {"truncate", "lock", "write"} => ListIsRight(p)
    /\ pc[p] = "lock" => file = <<>>
    /\ pc[p] = "write" => stands /\ Len(file) = offset[p]

Alone(p) ==
    Active(p) /\ alone[p] =>
        /\ \A j \in Procs : j # p => ~ Active(j)
        /\ Whole(before[p]) => Stage(p)

\* The types of the flags and of the history.
History ==
    /\ flags \in [Procs -> [start_line : BOOLEAN, first_word : BOOLEAN]]
    /\ before \in [Procs -> Seq(Text)]
    /\ alone \in [Procs -> BOOLEAN]

\* The places that are in the list.
Listed(p) == offset[p] - Len(word[p])

\* Where a word is replaced, and where it is left.
Justified(p, replaced) ==
    LET k == Listed(p) + 1
    IN  Listed(p) < offset[p] /\ before[p][k] = Op(p).from =>
            (replaced <=> Replaces(before[p], k, Op(p).line_case))

\* So the word is the text's from there, with nothing cut off.
LEMMA WordRead ==
    ASSUME Types, History, NEW p \in Procs, ReadSoFar(p), Whole(before[p])
    PROVE  /\ Word(before[p], Listed(p), offset[p])
           /\ String(word[p]) = word[p]
           /\ Listed(p) \in Nat /\ offset[p] = Listed(p) + Len(word[p])
           /\ Len(word[p]) \in Nat
           /\ \A k \in 1 .. Len(word[p]) : word[p][k] = before[p][Listed(p) + k]
<1> DEFINE m == Listed(p)
<1>1. /\ Len(before[p]) \in Nat /\ Len(word[p]) \in Nat /\ offset[p] \in Nat
  BY LenProperties DEF Types, History
<1>2. /\ m \in 0 .. Len(before[p]) /\ offset[p] <= Len(before[p])
      /\ m = offset[p] - Len(word[p])
      /\ \A k \in 1 .. Len(word[p]) :
            word[p][k] = before[p][m + k] /\ before[p][m + k] \notin Separators
      /\ m > 0 => before[p][m] \in Separators
  BY DEF ReadSoFar, Listed
<1> HIDE DEF m
<1>3. ASSUME NEW k \in m + 1 .. offset[p] PROVE before[p][k] \notin Separators
  <2>1. m \in Int /\ Len(word[p]) \in Nat /\ offset[p] = m + Len(word[p])
    BY <1>1, <1>2
  <2>2. k - m \in 1 .. Len(word[p]) /\ m + (k - m) = k
    BY <2>1
  <2>3. QED BY <1>2, <2>2
<1>4. Word(before[p], m, offset[p])
  BY <1>1, <1>2, <1>3 DEF Word
<1>5. \A k \in 1 .. Len(word[p]) : word[p][k] # Nul
  <2> TAKE k \in 1 .. Len(word[p])
  <2>1. m + k \in 1 .. Len(before[p])
    BY <1>1, <1>2
  <2>2. QED BY <1>2, <2>1 DEF Whole
<1>6. String(word[p]) = word[p]
  BY <1>5 DEF String
<1>7. m \in Nat /\ offset[p] = m + Len(word[p])
  BY <1>1, <1>2
<1>8. QED BY <1>1, <1>2, <1>4, <1>6, <1>7 DEF m

\* What is put for the word is right up to the place read.
LEMMA RightPut ==
    ASSUME Types, History, NEW p \in Procs, operations[p] # <<>>,
           ReadSoFar(p), Whole(before[p]), NEW w \in Unterminated(word[p]),
           NEW replaced \in BOOLEAN, Justified(p, replaced),
           NEW v, v = IF replaced THEN check_words(w, Op(p)) ELSE w
    PROVE  /\ v \in Seq(Written)
           /\ RightText(before[p], offset[p], word_list[p] \o v,
                        Len(word_list[p] \o v), Op(p))
<1> DEFINE text == before[p]
           m == Listed(p)
           o == offset[p]
           op == Op(p)
<1>1. /\ Word(text, m, o) /\ String(word[p]) = word[p] /\ m \in Nat
      /\ o = m + Len(word[p]) /\ Len(word[p]) \in Nat
      /\ \A k \in 1 .. Len(word[p]) : word[p][k] = text[m + k]
  BY WordRead
<1>2. text \in Seq(Text) /\ word[p] \in Seq(Text) /\ word_list[p] \in Seq(Written)
  BY DEF Types, History
<1>3. op \in Operation /\ op.from \in Letters /\ op.to \in Letters
  <2>1. operations[p] \in Seq(Operation)
    BY DEF Types
  <2>2. op \in Operation
    BY <2>1, HeadTailProperties DEF Op
  <2>3. QED BY <2>2 DEF Operation
<1>4. Garbage \notin Letters
  BY SituationAssumption DEF Special
<1>5. w \in Seq(Written)
  BY <1>2, UnterminatedIsWritten
<1>6. v \in Seq(Written)
  BY <1>3, <1>5, ReplacedIsWritten
<1>7. RightText(text, m, word_list[p], Len(word_list[p]), op)
  BY DEF ReadSoFar, Listed
<1>8. w = word[p] \/ w = Append(word[p], Garbage)
  BY <1>1 DEF Unterminated
<1>9. Whole(text)
  OBVIOUS
<1> HIDE DEF text, m, o, op
<1>10. /\ \A k \in m + 2 .. o : text[k] = Garbage
       /\ m < o => text[m + 1] \in Letters \union {Garbage}
  BY <1>1, <1>2, WordIs DEF text
<1>11. /\ Len(w) \in Nat /\ Len(w) >= Len(word[p])
       /\ \A k \in 1 .. Len(word[p]) : w[k] = word[p][k]
       /\ \A k \in 1 .. Len(w) : k > Len(word[p]) => w[k] = Garbage
  <2>1. CASE w = word[p]
    BY <1>1, <2>1
  <2>2. CASE w = Append(word[p], Garbage)
    <3>1. /\ Len(w) = Len(word[p]) + 1
          /\ \A k \in 1 .. Len(word[p]) : w[k] = word[p][k]
          /\ w[Len(word[p]) + 1] = Garbage
      BY <1>2, <2>2, AppendProperties
    <3>2. QED BY <1>1, <3>1
  <2>3. QED BY <1>8, <2>1, <2>2
<1>12. \A k \in 2 .. Len(w) : w[k] = Garbage
  <2> TAKE k \in 2 .. Len(w)
  <2>1. CASE k <= Len(word[p])
    <3>1. k \in 1 .. Len(word[p]) /\ m + k \in m + 2 .. o
      BY <1>1, <2>1
    <3>2. w[k] = word[p][k]
      BY <1>11, <3>1
    <3>3. word[p][k] = text[m + k]
      BY <1>1, <3>1
    <3>4. text[m + k] = Garbage
      BY <1>10, <3>1
    <3>5. QED BY <3>2, <3>3, <3>4
  <2>2. CASE k > Len(word[p])
    BY <1>11, <2>2
  <2>3. QED BY <1>1, <2>1, <2>2
<1>13. check_words(w, op) = IF Len(w) > 0 /\ w[1] = op.from THEN <<op.to>> ELSE w
  BY <1>3, <1>5, <1>12, LetterReplaced
<1>14. v = IF replaced THEN check_words(w, op) ELSE w
  BY DEF op
<1>15. \/ v = w /\ ~ (replaced /\ Len(w) > 0 /\ w[1] = op.from)
       \/ v = <<op.to>> /\ replaced /\ Len(w) > 0 /\ w[1] = op.from
  BY <1>13, <1>14
<1>16. \A k \in 2 .. Len(v) : v[k] = Garbage
  BY <1>12, <1>15
<1>17. m < o => Len(w) > 0 /\ w[1] = text[m + 1]
  BY <1>1, <1>11
<1>18. ASSUME m < o, text[m + 1] \in Letters
       PROVE  RightText(text, o, word_list[p] \o v, Len(word_list[p] \o v), op)
  <2>1. Justified(p, replaced)
    OBVIOUS
  <2>2. text[m + 1] = op.from => (replaced <=> Replaces(text, m + 1, op.line_case))
    BY <1>18, <2>1 DEF Justified, text, m, o, op
  <2>3. CASE v = w /\ ~ (replaced /\ Len(w) > 0 /\ w[1] = op.from)
    <3>1. v[1] = text[m + 1]
      BY <1>17, <1>18, <2>3
    <3>2. RightLetter(text, m + 1, v[1], op)
      BY <1>17, <1>18, <2>2, <2>3, <3>1 DEF RightLetter
    <3>3. Len(v) > 0 /\ text[m + 1] # Garbage /\ v[1] # Garbage
      BY <1>4, <1>17, <1>18, <2>3, <3>1
    <3>4. QED
      BY <1>1, <1>2, <1>6, <1>7, <1>16, <1>18, <1>9, <3>2, <3>3, RightWord
  <2>4. CASE v = <<op.to>> /\ replaced /\ Len(w) > 0 /\ w[1] = op.from
    <3>1. v[1] = op.to /\ Len(v) = 1
      BY <2>4
    <3>2. RightLetter(text, m + 1, v[1], op)
      BY <1>17, <1>18, <2>2, <2>4, <3>1 DEF RightLetter
    <3>3. Len(v) > 0 /\ text[m + 1] # Garbage /\ v[1] # Garbage
      BY <1>3, <1>4, <1>18, <3>1
    <3>4. QED
      BY <1>1, <1>2, <1>6, <1>7, <1>16, <1>18, <1>9, <3>2, <3>3, RightWord
  <2>5. QED BY <1>15, <2>3, <2>4
<1>19. ASSUME ~ (m < o /\ text[m + 1] \in Letters)
       PROVE  RightText(text, o, word_list[p] \o v, Len(word_list[p] \o v), op)
  <2>1. m < o => text[m + 1] = Garbage
    BY <1>10, <1>19
  <2>2. Len(w) > 0 => w[1] = Garbage
    BY <1>1, <1>11, <1>17, <2>1
  <2>3. v = w
    BY <1>3, <1>4, <1>15, <2>2
  <2>4. QED
    BY <1>1, <1>2, <1>6, <1>7, <1>16, <1>9, <2>1, <2>2, <2>3, RightWord
<1>20. RightText(text, o, word_list[p] \o v, Len(word_list[p] \o v), op)
  BY <1>18, <1>19
<1>21. QED BY <1>6, <1>20 DEF text, o, op

\* A separator is itself.
LEMMA RightSeparator ==
    ASSUME NEW old \in Seq(Text), NEW o \in Nat, o < Len(old),
           NEW op \in Operation, NEW list \in Seq(Written),
           RightText(old, o, list, Len(list), op),
           NEW separator \in Separators, old[o + 1] = separator
    PROVE  RightText(old, o + 1, list \o <<separator>>,
                     Len(list \o <<separator>>), op)
<1> DEFINE new == list \o <<separator>>
           q == Len(list)
<1>1. <<separator>> \in Seq(Written) /\ Len(<<separator>>) = 1
      /\ <<separator>>[1] = separator
  BY DEF Separators, Written
<1>2. /\ q \in Nat /\ Len(old) \in Nat /\ Len(new) = q + 1
      /\ \A k \in 1 .. q : new[k] = list[k]
      /\ new[q + 1] = separator
  BY <1>1, LenProperties, ConcatProperties
<1>3. separator # Garbage /\ separator # op.from
  BY SituationAssumption DEF Separators, Special, Operation,
     Blank, Newline, Garbage
<1> HIDE DEF new
<1>4. RightText(old, o, new, q, op)
  BY <1>2, RightPrefix
<1>5. RightLetter(old, o + 1, new[q + 1], op)
  BY <1>2, <1>3 DEF RightLetter
<1>6. o + 1 \in Solid(old) /\ q + 1 \in Solid(new)
  BY <1>2, <1>3 DEF Solid
<1>7. RightText(old, o + 1, new, q + 1, op)
  BY <1>2, <1>4, <1>5, <1>6, RightNext
<1>8. QED BY <1>2, <1>7 DEF new

-----------------------------------------------------------------------------
\* A word and the separator after it have gone into the list.
LEMMA WordAndSeparator ==
    ASSUME Types, History, NEW p \in Procs, operations[p] # <<>>,
           ReadSoFar(p), Whole(before[p]), offset[p] < Len(before[p]),
           NEW replaced \in BOOLEAN, Justified(p, replaced),
           NEW strings \in SUBSET Unterminated(word[p]),
           NEW separator \in Separators, before[p][offset[p] + 1] = separator,
           EndOfWord(p, replaced, strings, <<separator>>)
    PROVE  /\ word'[p] = <<>>
           /\ RightText(before[p], offset[p] + 1, word_list'[p],
                        Len(word_list'[p]), Op(p))
<1> DEFINE list == word_list[p]
<1>1. /\ list \in Seq(Written) /\ offset[p] \in Nat
      /\ before[p] \in Seq(Text) /\ operations[p] \in Seq(Operation)
  BY DEF Types, History
<1>2. Op(p) \in Operation
  BY <1>1, HeadTailProperties DEF Op
<1>3. \E v \in Seq(Written) :
        /\ word_list'[p] = list \o v \o <<separator>>
        /\ RightText(before[p], offset[p], list \o v, Len(list \o v), Op(p))
  <2>1. CASE word[p] = <<>>
    <3>1. Put(p, <<>>, <<separator>>)
      BY <2>1 DEF EndOfWord
    <3>2. word_list'[p] = list \o <<>> \o <<separator>> /\ list \o <<>> = list
      BY <1>1, <3>1 DEF Put, Types
    <3>3. offset[p] - Len(word[p]) = offset[p]
      BY <1>1, <2>1
    <3>4. RightText(before[p], offset[p], list, Len(list), Op(p))
      BY <3>3 DEF ReadSoFar
    <3>5. <<>> \in Seq(Written)
      OBVIOUS
    <3>6. QED BY <3>2, <3>4, <3>5
  <2>2. CASE word[p] # <<>>
    <3>1. PICK w \in strings :
              Put(p, IF replaced THEN check_words(w, Op(p)) ELSE w, <<separator>>)
      BY <2>2 DEF EndOfWord
    <3> DEFINE v == IF replaced THEN check_words(w, Op(p)) ELSE w
    <3>2. word_list'[p] = list \o v \o <<separator>>
      BY <3>1 DEF Put, Types
    <3>3. w \in Unterminated(word[p])
      OBVIOUS
    <3> HIDE DEF v
    <3>4. v = IF replaced THEN check_words(w, Op(p)) ELSE w
      BY DEF v
    <3>5. /\ v \in Seq(Written)
          /\ RightText(before[p], offset[p], list \o v, Len(list \o v), Op(p))
      BY <3>3, <3>4, RightPut
    <3>6. QED BY <3>2, <3>5
  <2>3. QED BY <2>1, <2>2
<1>4. PICK v \in Seq(Written) :
        /\ word_list'[p] = list \o v \o <<separator>>
        /\ RightText(before[p], offset[p], list \o v, Len(list \o v), Op(p))
  BY <1>3
<1>5. list \o v \in Seq(Written)
  BY <1>1, ConcatProperties
<1> HIDE DEF list
<1>6. RightText(before[p], offset[p] + 1, word_list'[p], Len(word_list'[p]), Op(p))
  BY <1>1, <1>2, <1>4, <1>5, RightSeparator
<1>7. word'[p] = <<>>
  BY DEF EndOfWord, Types
<1>8. QED BY <1>6, <1>7

\* The conditions of read_file, against what they are meant to decide.
First(p) == Op(p).line_case = START_OF_LINE /\ flags[p].first_word
Starts(p) ==
    Op(p).line_case = START_OF_LINE /\ ~ First(p) /\ flags[p].start_line

\* The replacement at the end of a line, and inside one.
LEMMA JustAtNewline ==
    ASSUME Types, History, NEW p \in Procs, operations[p] # <<>>,
           ReadSoFar(p), Whole(before[p]), offset[p] < Len(before[p]),
           before[p][offset[p] + 1] = Newline
    PROVE  Justified(p, Op(p).line_case # START_OF_LINE \/ First(p))
<1> DEFINE text == before[p]
           k == Listed(p) + 1
           o == offset[p]
<1>1. SUFFICES ASSUME Listed(p) < o, text[k] = Op(p).from
               PROVE  Op(p).line_case # START_OF_LINE \/ First(p)
                          <=> Replaces(text, k, Op(p).line_case)
  BY DEF Justified
<1>2. /\ Word(text, Listed(p), o) /\ Listed(p) \in Nat /\ o \in Nat
      /\ text \in Seq(Text) /\ Len(text) \in Nat /\ o < Len(text)
  BY WordRead, LenProperties DEF Types, History
<1>3. \A j \in k + 1 .. o : text[j] = Garbage
  BY <1>2, WordIs
<1>4. EndsLine(text, k)
  <2> SUFFICES ASSUME NEW j \in k + 1 .. Len(text)
               PROVE  \/ text[j] = Garbage
                      \/ \E q \in k + 1 .. j : text[q] = Newline
    BY DEF EndsLine
  <2>1. CASE j <= o
    BY <1>3, <2>1
  <2>2. CASE ~ (j <= o)
    <3>1. o + 1 \in k + 1 .. j
      BY <1>1, <1>2, <2>2
    <3>2. text[o + 1] = Newline
      OBVIOUS
    <3>3. QED BY <3>1, <3>2
  <2>3. QED BY <2>1, <2>2
<1>5. Op(p).line_case \in {NO_LINE_SYMBOL, START_OF_LINE, END_OF_LINE}
  <2>1. operations[p] \in Seq(Operation)
    BY DEF Types
  <2>2. Op(p) \in Operation
    BY <2>1, HeadTailProperties DEF Op
  <2>3. QED BY <2>2 DEF Operation, NO_LINE_SYMBOL, START_OF_LINE, END_OF_LINE
<1>6. START_OF_LINE # NO_LINE_SYMBOL /\ START_OF_LINE # END_OF_LINE
  BY DEF NO_LINE_SYMBOL, START_OF_LINE, END_OF_LINE
<1>7. ~ EndsText(text, k)
  <2>1. o + 1 \in k + 1 .. Len(text) /\ text[o + 1] = Newline
    BY <1>1, <1>2
  <2>2. QED BY <2>1 DEF EndsText, Garbage, Newline
<1>8. Op(p).line_case = START_OF_LINE => (First(p) <=> FirstWord(text, k))
  BY DEF ReadSoFar, Listed, FlagsTell, First
<1> HIDE DEF text, k
<1>9. QED BY <1>4, <1>5, <1>6, <1>7, <1>8 DEF Replaces, First

LEMMA JustAtBlank ==
    ASSUME Types, History, NEW p \in Procs, operations[p] # <<>>,
           ReadSoFar(p), Whole(before[p]), offset[p] < Len(before[p]),
           before[p][offset[p] + 1] = Blank
    PROVE  Justified(p, First(p) \/ Starts(p)
                            \/ Op(p).line_case = NO_LINE_SYMBOL)
<1> DEFINE text == before[p]
           k == Listed(p) + 1
           o == offset[p]
           replaced == First(p) \/ Starts(p) \/ Op(p).line_case = NO_LINE_SYMBOL
<1>1. SUFFICES ASSUME Listed(p) < o, text[k] = Op(p).from
               PROVE  replaced <=> Replaces(text, k, Op(p).line_case)
  BY DEF Justified
<1>2. /\ Word(text, Listed(p), o) /\ Listed(p) \in Nat /\ o \in Nat
      /\ text \in Seq(Text) /\ Len(text) \in Nat /\ o < Len(text)
  BY WordRead, LenProperties DEF Types, History
<1>3. \A j \in k + 1 .. o : text[j] = Garbage
  BY <1>2, WordIs
<1>4. ~ EndsLine(text, k)
  <2>1. o + 1 \in k + 1 .. Len(text) /\ text[o + 1] = Blank
    BY <1>1, <1>2
  <2>2. Blank # Garbage /\ Blank # Newline /\ Garbage # Newline
    BY DEF Blank, Garbage, Newline
  <2>3. ASSUME NEW q \in k + 1 .. o + 1 PROVE text[q] # Newline
    <3>1. q <= o \/ q = o + 1
      BY <1>2
    <3>2. QED BY <1>2, <1>3, <2>1, <2>2, <3>1
  <2>4. QED BY <2>1, <2>2, <2>3 DEF EndsLine
<1>5. START_OF_LINE # NO_LINE_SYMBOL /\ START_OF_LINE # END_OF_LINE
  BY DEF NO_LINE_SYMBOL, START_OF_LINE, END_OF_LINE
<1>6. ~ EndsText(text, k)
  <2>1. o + 1 \in k + 1 .. Len(text) /\ text[o + 1] = Blank
    BY <1>1, <1>2
  <2>2. QED BY <2>1 DEF EndsText, Garbage, Blank
<1>7. Op(p).line_case = START_OF_LINE =>
          (First(p) \/ Starts(p) <=> FirstWord(text, k) \/ StartsLine(text, k))
  BY DEF ReadSoFar, Listed, FlagsTell, First, Starts
<1>8. First(p) \/ Starts(p) => Op(p).line_case = START_OF_LINE
  BY DEF First, Starts
<1> HIDE DEF text, k
<1>9. QED BY <1>4, <1>5, <1>6, <1>7, <1>8 DEF Replaces

-----------------------------------------------------------------------------
\* What the flags become.
LEMMA FirstNext ==
    ASSUME NEW text \in Seq(Text), Whole(text), NEW m, NEW o, Word(text, m, o),
           o < Len(text), text[o + 1] \in Separators
    PROVE  FirstWord(text, (o + 1) + 1) <=> FirstWord(text, m + 1) /\ m = o
<1>1. m \in Nat /\ o \in Nat /\ m <= o /\ (o + 1) + 1 - 1 = o + 1 /\ m + 1 - 1 = m
  BY DEF Word
<1>2. text[o + 1] \notin Letters
  BY SituationAssumption DEF Separators, Special
<1>3. CASE m = o
  <2>1. \A j \in 1 .. o + 1 : j \in 1 .. o \/ j = o + 1
    BY <1>1
  <2>2. \A j \in 1 .. o : j \in 1 .. o + 1
    BY <1>1
  <2>3. QED BY <1>1, <1>2, <1>3, <2>1, <2>2 DEF FirstWord
<1>4. CASE m # o
  <2>1. m < o /\ m + 1 \in 1 .. o + 1
    BY <1>1, <1>4
  <2>2. text[m + 1] \in Letters
    BY <2>1, LetterOfWord
  <2>3. QED BY <1>1, <1>4, <2>1, <2>2 DEF FirstWord
<1>5. QED BY <1>3, <1>4

LEMMA StartsNext ==
    ASSUME NEW text \in Seq(Text), Whole(text), NEW m, NEW o, Word(text, m, o),
           o < Len(text), text[o + 1] = Blank
    PROVE  StartsLine(text, (o + 1) + 1) <=>
               StartsLine(text, m + 1) /\ (m = o \/ FirstWord(text, m + 1))
<1>1. m \in Nat /\ o \in Nat /\ m <= o /\ (o + 1) + 1 - 1 = o + 1 /\ m + 1 - 1 = m
  BY DEF Word
<1>2. /\ \A j \in m + 1 .. o + 1 : text[j] # Newline
      /\ \A j \in m + 2 .. o + 1 : text[j] \notin Letters
      /\ text[o + 1] \notin Letters
  <2>1. \A j \in m + 1 .. o + 1 : j \in m + 1 .. o \/ j = o + 1
    BY <1>1
  <2>2. \A j \in m + 2 .. o + 1 : j \in m + 2 .. o \/ j = o + 1
    BY <1>1
  <2>3. \A j \in m + 1 .. o : text[j] # Newline
    BY DEF Word, Separators
  <2>4. \A j \in m + 2 .. o : text[j] = Garbage
    BY WordIs
  <2>5. Blank # Newline /\ Blank \notin Letters /\ Garbage \notin Letters
    BY SituationAssumption DEF Special, Blank, Newline
  <2>6. QED BY <2>1, <2>2, <2>3, <2>4, <2>5
<1>3. ASSUME m < o PROVE text[m + 1] \in Letters
  BY <1>3, LetterOfWord DEF Separators
<1>4. ASSUME StartsLine(text, (o + 1) + 1)
      PROVE  StartsLine(text, m + 1) /\ (m = o \/ FirstWord(text, m + 1))
  <2>1. PICK line_end \in 1 .. o + 1 :
            /\ text[line_end] = Newline
            /\ \A j \in line_end + 1 .. o + 1 : text[j] \in Letters => FirstWord(text, j)
    BY <1>1, <1>4 DEF StartsLine
  <2>2. line_end \in 1 .. m
    BY <1>1, <1>2, <2>1
  <2>3. \A j \in line_end + 1 .. m : j \in line_end + 1 .. o + 1
    BY <1>1, <2>2
  <2>4. StartsLine(text, m + 1)
    BY <1>1, <2>1, <2>2, <2>3 DEF StartsLine
  <2>5. ASSUME m # o PROVE FirstWord(text, m + 1)
    <3>1. m < o /\ m + 1 \in line_end + 1 .. o + 1
      BY <1>1, <2>2, <2>5
    <3>2. QED BY <1>3, <2>1, <3>1
  <2>6. QED BY <2>4, <2>5
<1>5. ASSUME StartsLine(text, m + 1), m = o \/ FirstWord(text, m + 1)
      PROVE  StartsLine(text, (o + 1) + 1)
  <2>1. PICK line_end \in 1 .. m :
            /\ text[line_end] = Newline
            /\ \A j \in line_end + 1 .. m : text[j] \in Letters => FirstWord(text, j)
    BY <1>1, <1>5 DEF StartsLine
  <2>2. line_end \in 1 .. o + 1
    BY <1>1
  <2>3. ASSUME NEW j \in line_end + 1 .. o + 1, text[j] \in Letters
        PROVE  FirstWord(text, j)
    <3>1. CASE j <= m
      BY <1>1, <2>1, <2>3, <3>1
    <3>2. CASE j = m + 1
      BY <1>2, <1>5, <2>3, <3>2
    <3>3. CASE j > m + 1
      <4>1. j \in m + 2 .. o + 1
        BY <1>1, <3>3
      <4>2. QED BY <1>2, <2>3, <4>1
    <3>4. QED BY <1>1, <3>1, <3>2, <3>3
  <2>4. QED BY <1>1, <2>1, <2>2, <2>3 DEF StartsLine
<1>6. QED BY <1>4, <1>5

LEMMA FlagsAtNewline ==
    ASSUME Types, History, NEW p \in Procs, AtNewline(p)
    PROVE  /\ flags' \in [Procs -> [start_line : BOOLEAN, first_word : BOOLEAN]]
           /\ flags'[p].first_word <=>
                 flags[p].first_word /\ ~ (First(p) /\ word[p] # <<>>)
           /\ flags'[p].start_line
<1> DEFINE b == ~ (Op(p).line_case = START_OF_LINE /\ flags[p].first_word
                     /\ word[p] # <<>>)
           y == flags[p].first_word /\ b
           f == [start_line |-> TRUE, first_word |-> y]
<1>1. flags[p] \in [start_line : BOOLEAN, first_word : BOOLEAN]
  BY DEF History
<1>2. flags' = [flags EXCEPT ![p] = f]
  BY DEF AtNewline
<1>3. y \in BOOLEAN /\ (y <=> flags[p].first_word /\ b)
  BY <1>1
<1> HIDE DEF b, y
<1>4. flags'[p] = f /\ f \in [start_line : BOOLEAN, first_word : BOOLEAN]
  BY <1>1, <1>2, <1>3 DEF History
<1>5. flags' \in [Procs -> [start_line : BOOLEAN, first_word : BOOLEAN]]
  BY <1>2, <1>4 DEF History
<1>6. flags'[p].first_word = y /\ flags'[p].start_line = TRUE
  BY <1>4
<1>7. QED BY <1>5, <1>6, <1>3 DEF b, First

LEMMA FlagsAtBlank ==
    ASSUME Types, History, NEW p \in Procs, AtBlank(p)
    PROVE  /\ flags' \in [Procs -> [start_line : BOOLEAN, first_word : BOOLEAN]]
           /\ flags'[p].first_word <=>
                 flags[p].first_word /\ ~ (First(p) /\ word[p] # <<>>)
           /\ flags'[p].start_line <=>
                 flags[p].start_line /\ ~ (Starts(p) /\ word[p] # <<>>)
<1> DEFINE r == ~ (First(p) /\ word[p] # <<>>)
           b == ~ (Starts(p) /\ word[p] # <<>>)
           x == flags[p].start_line /\ b
           y == flags[p].first_word /\ r
           f == [start_line |-> x, first_word |-> y]
<1>1. flags[p] \in [start_line : BOOLEAN, first_word : BOOLEAN]
  BY DEF History
<1>2. flags' = [flags EXCEPT ![p] = f]
  BY DEF AtBlank, First, Starts
<1>3. /\ x \in BOOLEAN /\ (x <=> flags[p].start_line /\ b)
      /\ y \in BOOLEAN /\ (y <=> flags[p].first_word /\ r)
  BY <1>1
<1> HIDE DEF b, r, x, y
<1>4. flags'[p] = f /\ f \in [start_line : BOOLEAN, first_word : BOOLEAN]
  BY <1>1, <1>2, <1>3 DEF History
<1>5. flags' \in [Procs -> [start_line : BOOLEAN, first_word : BOOLEAN]]
  BY <1>2, <1>4 DEF History
<1>6. flags'[p].first_word = y /\ flags'[p].start_line = x
  BY <1>4
<1>7. QED BY <1>5, <1>6, <1>3 DEF b, r

LEMMA TellAtNewline ==
    ASSUME Types, History, NEW p \in Procs, ReadSoFar(p), Whole(before[p]),
           offset[p] < Len(before[p]), before[p][offset[p] + 1] = Newline,
           AtNewline(p), Op(p).line_case = START_OF_LINE
    PROVE  FlagsTell(before[p], offset[p] + 1, flags'[p])
<1> DEFINE text == before[p]
           m == Listed(p)
           o == offset[p]
<1>1. FlagsTell(text, m, flags[p])
  BY DEF ReadSoFar, Listed
<1>2. /\ Word(text, m, o) /\ m \in Nat /\ o \in Nat /\ o = m + Len(word[p])
      /\ Len(word[p]) \in Nat /\ text \in Seq(Text) /\ text[o + 1] \in Separators
  BY WordRead DEF Types, History, Separators
<1>3. word[p] = <<>> <=> m = o
  <2>1. word[p] \in Seq(Text) /\ (word[p] = <<>> <=> Len(word[p]) = 0)
    BY EmptySeq DEF Types
  <2>2. QED BY <1>2, <2>1
<1>4. flags'[p].first_word <=> FirstWord(text, (o + 1) + 1)
  <2>1. flags'[p].first_word <=> flags[p].first_word /\ word[p] = <<>>
    BY FlagsAtNewline DEF First
  <2>2. FirstWord(text, (o + 1) + 1) <=> FirstWord(text, m + 1) /\ m = o
    BY <1>2, FirstNext
  <2>3. QED BY <1>1, <1>3, <2>1, <2>2 DEF FlagsTell
<1>5. StartsLine(text, (o + 1) + 1)
  <2>1. o + 1 \in 1 .. (o + 1) + 1 - 1 /\ text[o + 1] = Newline
    BY <1>2
  <2>2. \A j \in (o + 1) + 1 .. (o + 1) + 1 - 1 : FALSE
    BY <1>2
  <2>3. QED BY <2>1, <2>2 DEF StartsLine
<1>6. flags'[p].start_line
  BY FlagsAtNewline
<1>7. QED BY <1>4, <1>5, <1>6 DEF FlagsTell

LEMMA TellAtBlank ==
    ASSUME Types, History, NEW p \in Procs, ReadSoFar(p), Whole(before[p]),
           offset[p] < Len(before[p]), before[p][offset[p] + 1] = Blank,
           AtBlank(p), Op(p).line_case = START_OF_LINE
    PROVE  FlagsTell(before[p], offset[p] + 1, flags'[p])
<1> DEFINE text == before[p]
           m == Listed(p)
           o == offset[p]
<1>1. FlagsTell(text, m, flags[p])
  BY DEF ReadSoFar, Listed
<1>2. /\ Word(text, m, o) /\ m \in Nat /\ o \in Nat /\ o = m + Len(word[p])
      /\ Len(word[p]) \in Nat /\ text \in Seq(Text) /\ text[o + 1] \in Separators
  BY WordRead DEF Types, History, Separators
<1>3. word[p] = <<>> <=> m = o
  <2>1. word[p] \in Seq(Text) /\ (word[p] = <<>> <=> Len(word[p]) = 0)
    BY EmptySeq DEF Types
  <2>2. QED BY <1>2, <2>1
<1>4. /\ flags'[p].first_word <=> flags[p].first_word /\ word[p] = <<>>
      /\ flags'[p].start_line <=>
            flags[p].start_line /\ (word[p] = <<>> \/ flags[p].first_word)
  BY FlagsAtBlank DEF First, Starts
<1>5. FirstWord(text, (o + 1) + 1) <=> FirstWord(text, m + 1) /\ m = o
  BY <1>2, FirstNext
<1>6. StartsLine(text, (o + 1) + 1) <=>
          StartsLine(text, m + 1) /\ (m = o \/ FirstWord(text, m + 1))
  BY <1>2, StartsNext
<1>7. QED BY <1>1, <1>3, <1>4, <1>5, <1>6 DEF FlagsTell

\* One step of read_file, of a process alone with a whole text.
LEMMA ListGoesOn ==
    ASSUME Types, History, NEW p \in Procs, ReadSoFar(p), Whole(before[p]),
           offset[p] < Len(before[p]), before[p][offset[p] + 1] \in Separators,
           offset'[p] = offset[p] + 1, word'[p] = <<>>,
           UNCHANGED <<file, operations, before>>,
           RightText(before[p], offset[p] + 1, word_list'[p], Len(word_list'[p]),
                     Op(p)),
           Op(p).line_case = START_OF_LINE =>
               FlagsTell(before[p], offset[p] + 1, flags'[p])
    PROVE  ReadSoFar(p)'
<1>1. offset[p] \in Nat /\ Len(before[p]) \in Nat
  BY LenProperties DEF Types, History
<1>2. offset'[p] - Len(word'[p]) = offset[p] + 1 /\ Len(word'[p]) = 0
  BY <1>1
<1>3. Op(p)' = Op(p) /\ before'[p] = before[p] /\ file' = file /\ file = before[p]
  BY DEF Op, ReadSoFar
<1>4. offset[p] + 1 \in 0 .. Len(before[p])
  BY <1>1
<1>5. QED BY <1>1, <1>2, <1>3, <1>4 DEF ReadSoFar, Separators

LEMMA ReadSoFarGoesOn ==
    ASSUME Types, History, NEW p \in Procs, operations[p] # <<>>, ReadSoFar(p),
           Whole(before[p]), ReadChar(p)
    PROVE  ReadSoFar(p)'
<1> DEFINE ch == file[offset[p] + 1]
<1>1. /\ UNCHANGED <<file, operations, before>>
      /\ offset'[p] = offset[p] + 1 /\ offset[p] < Len(file)
      /\ ch = Newline => AtNewline(p)
      /\ ch = Blank => AtBlank(p)
      /\ ch # Newline /\ ch # Blank => InWord(p, ch)
  <2>1. /\ UNCHANGED <<file, operations, before>>
        /\ offset' = [offset EXCEPT ![p] = offset[p] + 1]
        /\ offset[p] < Len(file)
    BY DEF ReadChar
  <2>2. offset'[p] = offset[p] + 1
    BY <2>1 DEF Types
  <2>3. /\ ch = Newline => AtNewline(p)
        /\ ch = Blank => AtBlank(p)
        /\ ch # Newline /\ ch # Blank => InWord(p, ch)
    BY <2>2 DEF ReadChar, Newline, Blank
  <2>4. QED BY <2>1, <2>2, <2>3
<1>2. file = before[p] /\ offset[p] < Len(before[p])
  BY <1>1 DEF ReadSoFar
<1>3. String(word[p]) = word[p]
  BY WordRead
<1>4. CASE ch = Newline
  <2>1. AtNewline(p) /\ before[p][offset[p] + 1] = Newline
    BY <1>1, <1>2, <1>4
  <2> DEFINE replaced == Op(p).line_case # START_OF_LINE \/ First(p)
  <2>2. EndOfWord(p, replaced, Unterminated(word[p]), <<Newline>>)
    BY <2>1 DEF AtNewline, First
  <2>3. Justified(p, replaced) /\ replaced \in BOOLEAN
    BY <1>2, <2>1, JustAtNewline
  <2> HIDE DEF replaced
  <2>4. Newline \in Separators
    BY DEF Separators
  <2>5. /\ word'[p] = <<>>
        /\ RightText(before[p], offset[p] + 1, word_list'[p],
                     Len(word_list'[p]), Op(p))
    BY <1>2, <2>1, <2>2, <2>3, <2>4, WordAndSeparator
  <2>6. Op(p).line_case = START_OF_LINE =>
            FlagsTell(before[p], offset[p] + 1, flags'[p])
    BY <1>2, <2>1, TellAtNewline
  <2>7. QED BY <1>1, <1>2, <2>1, <2>4, <2>5, <2>6, ListGoesOn
<1>5. CASE ch = Blank
  <2>1. AtBlank(p) /\ before[p][offset[p] + 1] = Blank
    BY <1>1, <1>2, <1>5 DEF Blank, Newline
  <2> DEFINE replaced == First(p) \/ Starts(p) \/ Op(p).line_case = NO_LINE_SYMBOL
  <2>2. EndOfWord(p, replaced, {String(word[p])}, <<Blank>>)
    BY <2>1 DEF AtBlank, First, Starts
  <2>3. Justified(p, replaced) /\ replaced \in BOOLEAN
    BY <1>2, <2>1, JustAtBlank
  <2>4. {String(word[p])} \in SUBSET Unterminated(word[p])
    BY <1>3 DEF Unterminated
  <2> HIDE DEF replaced
  <2>5. Blank \in Separators
    BY DEF Separators
  <2>6. /\ word'[p] = <<>>
        /\ RightText(before[p], offset[p] + 1, word_list'[p],
                     Len(word_list'[p]), Op(p))
    BY <1>2, <2>1, <2>2, <2>3, <2>4, <2>5, WordAndSeparator
  <2>7. Op(p).line_case = START_OF_LINE =>
            FlagsTell(before[p], offset[p] + 1, flags'[p])
    BY <1>2, <2>1, TellAtBlank
  <2>8. QED BY <1>1, <1>2, <2>1, <2>5, <2>6, <2>7, ListGoesOn
<1>6. CASE ch # Newline /\ ch # Blank
  <2> DEFINE m == Listed(p)
  <2>1. InWord(p, ch)
    BY <1>1, <1>6
  <2>2. /\ word'[p] = Append(word[p], ch)
        /\ word_list' = word_list /\ flags' = flags
    BY <2>1 DEF InWord, Types
  <2>3. word[p] \in Seq(Text) /\ ch \in Text
    <3>1. offset[p] + 1 \in 1 .. Len(before[p]) /\ before[p] \in Seq(Text)
      BY <1>2, LenProperties DEF Types, History
    <3>2. QED BY <1>2, <3>1, ElementOfSeq DEF Types
  <2>4. /\ Len(word'[p]) = Len(word[p]) + 1
        /\ \A k \in 1 .. Len(word[p]) : word'[p][k] = word[p][k]
        /\ word'[p][Len(word[p]) + 1] = ch
    BY <2>2, <2>3, AppendProperties
  <2>5. /\ m \in Nat /\ offset[p] = m + Len(word[p]) /\ Len(word[p]) \in Nat
        /\ Len(before[p]) \in Nat
    BY WordRead, LenProperties DEF History
  <2> HIDE DEF m
  <2>6. offset'[p] - Len(word'[p]) = m /\ offset[p] - Len(word[p]) = m
    <3>1. offset'[p] = offset[p] + 1 /\ Len(word'[p]) = Len(word[p]) + 1
      BY <1>1, <2>4
    <3>2. offset'[p] = m + (Len(word[p]) + 1)
      BY <2>5, <3>1
    <3>3. (m + (Len(word[p]) + 1)) - (Len(word[p]) + 1) = m
          /\ (m + Len(word[p])) - Len(word[p]) = m
      BY <2>5
    <3>4. QED BY <2>5, <3>1, <3>2, <3>3, Zenon
  <2>7. ASSUME NEW k \in 1 .. Len(word'[p])
        PROVE  /\ word'[p][k] = before[p][m + k]
               /\ before[p][m + k] \notin Separators
    <3>1. CASE k = Len(word[p]) + 1
      <4>1. m + k = offset[p] + 1
        BY <2>5, <3>1
      <4>2. QED BY <1>2, <1>6, <2>4, <3>1, <4>1 DEF Separators
    <3>2. CASE k # Len(word[p]) + 1
      <4>1. k \in 1 .. Len(word[p])
        BY <2>4, <2>5, <3>2
      <4>2. QED BY <2>4, <2>6, <4>1 DEF ReadSoFar
    <3>3. QED BY <3>1, <3>2
  <2>8. Op(p)' = Op(p)
    BY <1>1 DEF Op
  <2>9. offset'[p] <= Len(before[p])
    BY <1>1, <1>2, <2>5
  <2>10. QED
    BY <1>1, <1>2, <2>2, <2>6, <2>7, <2>8, <2>9 DEF ReadSoFar
<1>7. QED BY <1>4, <1>5, <1>6

\* A copy of the word that was not terminated is as right as the word.
LEMMA RightCopy ==
    ASSUME NEW old, Len(old) \in Nat, NEW m \in Nat, NEW op,
           NEW list \in Seq(Written),
           NEW v \in Seq(Written), NEW copy \in {v} \union Unterminated(v),
           RightText(old, m, list \o v, Len(list \o v), op)
    PROVE  /\ copy \in Seq(Written)
           /\ RightText(old, m, list \o copy, Len(list \o copy), op)
<1> DEFINE t == list \o v
           q == Len(t)
<1>1. t \in Seq(Written) /\ q \in Nat /\ Len(t) = q
  BY ConcatProperties, LenProperties
<1>2. copy \in Seq(Written) /\ (copy = v \/ copy = Append(v, Garbage))
  BY CopyIs
<1>3. CASE copy = v
  BY <1>2, <1>3
<1>4. CASE copy = Append(v, Garbage)
  <2>1. Garbage \in Written
    BY DEF Written
  <2>2. copy \in Seq(Written) /\ list \o copy = Append(t, Garbage)
    BY <1>4, <2>1, <1>2
  <2> DEFINE new == Append(t, Garbage)
  <2>3. /\ Len(new) = q + 1 /\ new[q + 1] = Garbage
        /\ \A k \in 1 .. q : new[k] = t[k]
    BY <1>1, <2>1, AppendProperties
  <2>4. RightText(old, m, t, q, op)
    OBVIOUS
  <2> HIDE DEF t, q, new
  <2>5. RightText(old, m, new, q, op)
    BY <1>1, <2>3, <2>4, RightPrefix
  <2>6. \A k \in q + 1 .. Len(new) : new[k] = Garbage
    BY <1>1, <2>3
  <2>7. RightText(old, m, new, Len(new), op)
    BY <1>1, <2>3, <2>5, <2>6, RightSkipsNew
  <2>8. QED BY <2>2, <2>7 DEF new
<1>5. QED BY <1>2, <1>3, <1>4

\* The whole text is read.
LEMMA ListGetsRight ==
    ASSUME Types, History, NEW p \in Procs, operations[p] # <<>>, ReadSoFar(p),
           Whole(before[p]), ReadEnd(p)
    PROVE  ListIsRight(p)'
<1> DEFINE text == before[p]
           k == Listed(p) + 1
<1>1. offset[p] = Len(text)
  <2>1. file = text /\ offset[p] <= Len(text) /\ offset[p] >= Len(file)
    BY DEF ReadSoFar, ReadEnd
  <2>2. offset[p] \in Nat /\ Len(text) \in Nat
    BY LenProperties DEF Types, History
  <2>3. QED BY <2>1, <2>2
<1>2. Word(text, Listed(p), offset[p]) /\ Listed(p) \in Nat /\ text \in Seq(Text)
      /\ Len(text) \in Nat
  BY WordRead, LenProperties DEF History
<1>3. \A j \in k + 1 .. Len(text) : text[j] = Garbage
  BY <1>1, <1>2, WordIs
<1>4. EndsText(text, k) /\ EndsLine(text, k)
  BY <1>3 DEF EndsText, EndsLine
<1>5. Op(p).line_case \in {NO_LINE_SYMBOL, START_OF_LINE, END_OF_LINE}
  <2>1. operations[p] \in Seq(Operation)
    BY DEF Types
  <2>2. Op(p) \in Operation
    BY <2>1, HeadTailProperties DEF Op
  <2>3. QED BY <2>2 DEF Operation, NO_LINE_SYMBOL, START_OF_LINE, END_OF_LINE
<1>6. Replaces(text, k, Op(p).line_case)
  BY <1>4, <1>5 DEF Replaces
<1>7. Justified(p, TRUE)
  BY <1>6 DEF Justified
<1>8. PICK w \in Unterminated(word[p]) :
          \E copy \in {check_words(w, Op(p))} \union Unterminated(check_words(w, Op(p))) :
             Put(p, copy, <<>>)
  BY DEF ReadEnd
<1> DEFINE v == check_words(w, Op(p))
<1>9. /\ v \in Seq(Written)
      /\ RightText(text, offset[p], word_list[p] \o v, Len(word_list[p] \o v), Op(p))
  <2>1. v = IF TRUE THEN check_words(w, Op(p)) ELSE w
    OBVIOUS
  <2> HIDE DEF v
  <2>2. TRUE \in BOOLEAN
    OBVIOUS
  <2>3. QED BY <1>7, <2>1, <2>2, RightPut
<1>10. PICK copy \in {v} \union Unterminated(v) : Put(p, copy, <<>>)
  BY <1>8
<1> HIDE DEF v
<1>11. /\ copy \in Seq(Written)
       /\ RightText(text, offset[p], word_list[p] \o copy,
                    Len(word_list[p] \o copy), Op(p))
  <2>1. word_list[p] \in Seq(Written) /\ offset[p] \in Nat
    BY DEF Types
  <2>2. QED BY <1>2, <1>9, <2>1, RightCopy
<1>12. word_list'[p] = word_list[p] \o copy
  <2>1. word_list'[p] = word_list[p] \o copy \o <<>>
    BY <1>10 DEF Put, Types
  <2>2. word_list[p] \o copy \in Seq(Written)
    BY <1>11, ConcatProperties DEF Types
  <2>3. QED BY <2>1, <2>2
<1>13. before' = before /\ Op(p)' = Op(p)
  BY DEF ReadEnd, Op
<1>14. QED BY <1>1, <1>11, <1>12, <1>13 DEF ListIsRight

\* While a process is alone, nobody else's step is between its own.
LEMMA OthersAlone ==
    ASSUME Types, History, NEW p \in Procs, Active(p), NEW j \in Procs, j # p,
           Alone(j), pc'[j] = pc[j], alone'[j] = alone[j]
    PROVE  Alone(j)'
BY DEF Alone, Active

LEMMA BeginAlone ==
    ASSUME Types, History, \A j \in Procs : Alone(j), NEW p \in Procs, Begin(p)
    PROVE  History' /\ \A j \in Procs : Alone(j)'
<1>1. /\ UNCHANGED <<file, operations, lock, stands>>
      /\ offset' = [offset EXCEPT ![p] = 0]
      /\ word' = [word EXCEPT ![p] = <<>>]
      /\ word_list' = [word_list EXCEPT ![p] = <<>>]
      /\ flags' = [flags EXCEPT ![p] = NewFlags]
      /\ pc[p] = "next"
  BY DEF Begin
<1>2. \/ /\ pc' = [pc EXCEPT ![p] = "read"]
         /\ before' = [before EXCEPT ![p] = file]
         /\ alone' = [j \in Procs |->
                         IF j = p THEN \A k \in Procs : ~ Active(k)
                                  ELSE alone[j] /\ ~ Active(j)]
      \/ pc' = [pc EXCEPT ![p] = "ended"] /\ UNCHANGED <<before, alone>>
  BY DEF Begin, Goto
<1>3. History'
  <2>1. flags' \in [Procs -> [start_line : BOOLEAN, first_word : BOOLEAN]]
    BY <1>1 DEF History, NewFlags
  <2>2. before' \in [Procs -> Seq(Text)]
    BY <1>2 DEF History, Types
  <2>3. alone' \in [Procs -> BOOLEAN]
    <3>1. ASSUME alone' = [j \in Procs |->
                             IF j = p THEN \A k \in Procs : ~ Active(k)
                                      ELSE alone[j] /\ ~ Active(j)]
          PROVE  alone' \in [Procs -> BOOLEAN]
      <4>1. \A j \in Procs : (IF j = p THEN \A k \in Procs : ~ Active(k)
                              ELSE alone[j] /\ ~ Active(j)) \in BOOLEAN
        OBVIOUS
      <4>2. QED BY <3>1, <4>1, Zenon
    <3>2. QED BY <1>2, <3>1 DEF History
  <2>4. QED BY <2>1, <2>2, <2>3 DEF History
<1>4. ASSUME pc' = [pc EXCEPT ![p] = "read"],
             before' = [before EXCEPT ![p] = file],
             alone' = [j \in Procs |->
                         IF j = p THEN \A k \in Procs : ~ Active(k)
                                  ELSE alone[j] /\ ~ Active(j)],
             NEW j \in Procs
      PROVE  Alone(j)'
  <2>1. CASE j # p
    <3>1. pc'[j] = pc[j]
      BY <1>4, <2>1 DEF Types
    <3>2. alone'[j] => ~ Active(j)
      BY <1>4, <2>1, Zenon
    <3>3. QED BY <3>1, <3>2 DEF Alone, Active
  <2>2. CASE j = p
    <3>1. /\ pc'[p] = "read" /\ before'[p] = file /\ offset'[p] = 0
          /\ word'[p] = <<>> /\ word_list'[p] = <<>> /\ flags'[p] = NewFlags
      BY <1>1, <1>4 DEF Types, History
    <3>2. alone'[p] => \A k \in Procs : ~ Active(k)
      BY <1>4, Zenon
    <3>3. ASSUME NEW k \in Procs, k # p, ~ Active(k) PROVE ~ Active(k)'
      BY <1>4, <3>3 DEF Active, Types
    <3>4. Len(file) \in Nat /\ Len(<<>>) = 0
      BY LenProperties DEF Types
    <3>5. RightText(file, 0, <<>>, 0, Op(p)')
      BY <3>4, RightStart
    <3>6. FlagsTell(file, 0, NewFlags)
      <4>1. \A l \in 1 .. (0 + 1) - 1 : FALSE
        OBVIOUS
      <4>2. FirstWord(file, 0 + 1) /\ ~ StartsLine(file, 0 + 1)
        BY <4>1 DEF FirstWord, StartsLine
      <4>3. QED BY <4>2 DEF FlagsTell, NewFlags
    <3>7. 0 - Len(<<>>) = 0
      <4>1. 0 - 0 = 0
        OBVIOUS
      <4>2. QED BY <3>4, <4>1, Zenon
    <3>8. ReadSoFar(p)'
      BY <1>1, <3>1, <3>4, <3>5, <3>6, <3>7 DEF ReadSoFar
    <3>9. Stage(p)'
      BY <3>1, <3>8 DEF Stage
    <3>10. QED BY <2>2, <3>2, <3>3, <3>9 DEF Alone
  <2>3. QED BY <2>1, <2>2
<1>5. ASSUME pc' = [pc EXCEPT ![p] = "ended"], UNCHANGED <<before, alone>>,
             NEW j \in Procs
      PROVE  Alone(j)'
  <2>1. ~ Active(p)'
    BY <1>5 DEF Active, Types
  <2>2. ASSUME j # p PROVE Alone(j)'
    <3>1. Alone(j) /\ pc'[j] = pc[j] /\ offset'[j] = offset[j]
          /\ word'[j] = word[j] /\ word_list'[j] = word_list[j]
          /\ flags'[j] = flags[j] /\ Op(j)' = Op(j)
      BY <1>1, <1>5, <2>2 DEF Types, History, Op
    <3>2. Stage(j) => Stage(j)'
      BY <1>1, <1>5, <3>1 DEF Stage, ReadSoFar, ListIsRight
    <3>3. ASSUME NEW k \in Procs, ~ Active(k) PROVE ~ Active(k)'
      BY <1>5, <3>3 DEF Active, Types
    <3>4. QED BY <1>5, <3>1, <3>2, <3>3 DEF Alone, Active
  <2>3. QED BY <2>1, <2>2 DEF Alone
<1>6. QED BY <1>2, <1>3, <1>4, <1>5

\* A step of a process after that: the others are as they were.
LEMMA StepAlone ==
    ASSUME Types, History, \A j \in Procs : Alone(j), NEW p \in Procs, Active(p),
           UNCHANGED <<before, alone>>, \A j \in Procs : j # p => pc'[j] = pc[j],
           Active(p)' /\ alone[p] /\ Whole(before[p]) => Stage(p)'
    PROVE  \A j \in Procs : Alone(j)'
<1>1. ASSUME NEW j \in Procs, j # p PROVE Alone(j)'
  BY <1>1, OthersAlone
<1>2. Alone(p)'
  <2>1. Alone(p)
    OBVIOUS
  <2>2. QED BY <2>1 DEF Alone, Active
<1>3. QED BY <1>1, <1>2

LEMMA ReadCharAlone ==
    ASSUME Types, History, \A j \in Procs : Stands(j), \A j \in Procs : Alone(j),
           NEW p \in Procs, ReadChar(p)
    PROVE  History' /\ \A j \in Procs : Alone(j)'
<1>1. UNCHANGED <<file, operations, pc, lock, before, alone, stands>>
      /\ pc[p] = "read"
  BY DEF ReadChar
<1>2. flags' \in [Procs -> [start_line : BOOLEAN, first_word : BOOLEAN]]
  <2>1. AtNewline(p) \/ AtBlank(p) \/ UNCHANGED flags
    BY DEF ReadChar, InWord
  <2>2. QED BY <2>1, FlagsAtNewline, FlagsAtBlank DEF History
<1>3. Active(p) /\ operations[p] # <<>>
  BY <1>1 DEF Active, Stands
<1>4. alone[p] /\ Whole(before[p]) => Stage(p)'
  <2>1. Alone(p)
    OBVIOUS
  <2>2. alone[p] /\ Whole(before[p]) => ReadSoFar(p)
    BY <1>1, <1>3, <2>1 DEF Alone, Stage
  <2>3. alone[p] /\ Whole(before[p]) => ReadSoFar(p)'
    BY <1>3, <2>2, ReadSoFarGoesOn
  <2>4. QED BY <1>1, <2>3 DEF Stage
<1>5. \A j \in Procs : Alone(j)'
  BY <1>1, <1>3, <1>4, StepAlone
<1>6. QED BY <1>1, <1>2, <1>5 DEF History

LEMMA ReadEndAlone ==
    ASSUME Types, History, \A j \in Procs : Stands(j), \A j \in Procs : Alone(j),
           NEW p \in Procs, ReadEnd(p)
    PROVE  History' /\ \A j \in Procs : Alone(j)'
<1>1. UNCHANGED <<file, operations, flags, before, alone>>
      /\ pc[p] = "read" /\ pc' = [pc EXCEPT ![p] = "truncate"]
  BY DEF ReadEnd, Goto
<1>2. Active(p) /\ operations[p] # <<>> /\ pc'[p] = "truncate"
      /\ \A j \in Procs : j # p => pc'[j] = pc[j]
  BY <1>1 DEF Active, Stands, Types
<1>3. alone[p] /\ Whole(before[p]) => Stage(p)'
  <2>1. Alone(p)
    OBVIOUS
  <2>2. alone[p] /\ Whole(before[p]) => ReadSoFar(p)
    BY <1>1, <1>2, <2>1 DEF Alone, Stage
  <2>3. alone[p] /\ Whole(before[p]) => ListIsRight(p)'
    BY <1>2, <2>2, ListGetsRight
  <2>4. QED BY <1>2, <2>3 DEF Stage
<1>4. \A j \in Procs : Alone(j)'
  BY <1>1, <1>2, <1>3, StepAlone
<1>5. QED BY <1>1, <1>4 DEF History

LEMMA WriteFileAlone ==
    ASSUME Types, History, \A j \in Procs : Stands(j), \A j \in Procs : Alone(j),
           NEW p \in Procs, Truncate(p) \/ Lock(p) \/ WriteChar(p)
    PROVE  History' /\ \A j \in Procs : Alone(j)'
<1>1. UNCHANGED <<operations, word_list, flags, before, alone>>
  BY DEF Truncate, Lock, WriteChar
<1>2. /\ Active(p) /\ pc[p] \in {"truncate", "lock", "write"}
      /\ \A j \in Procs : j # p => pc'[j] = pc[j]
  BY DEF Truncate, Lock, WriteChar, Goto, Active, Types
<1>3. ASSUME alone[p], Whole(before[p]) PROVE Stage(p)'
  <2>1. Stage(p)
    BY <1>2, <1>3 DEF Alone
  <2>2. ListIsRight(p)'
    BY <1>1, <1>2, <2>1 DEF Stage, ListIsRight, Op
  <2>3. CASE Truncate(p)
    <3>1. pc'[p] = "lock" /\ file' = <<>>
      BY <2>3 DEF Truncate, Goto, Types
    <3>2. QED BY <2>2, <3>1 DEF Stage
  <2>4. CASE Lock(p)
    <3>1. pc'[p] = "write" /\ stands' /\ offset'[p] = 0 /\ file' = file
          /\ pc[p] = "lock"
      BY <2>4 DEF Lock, Goto, Types
    <3>2. Len(file') = 0
      BY <2>1, <3>1 DEF Stage
    <3>3. QED BY <2>2, <3>1, <3>2 DEF Stage
  <2>5. CASE WriteChar(p)
    <3> DEFINE next == offset[p] + 1
               at(k) == IF k = next THEN word_list[p][next]
                        ELSE IF k <= Len(file) THEN file[k] ELSE Nul
    <3>1. /\ pc[p] = "write" /\ pc' = pc /\ stands' = stands
          /\ offset' = [offset EXCEPT ![p] = next]
          /\ file' = [k \in 1 .. (IF next > Len(file) THEN next ELSE Len(file))
                          |-> at(k)]
      BY <2>5 DEF WriteChar
    <3>2. stands /\ Len(file) = offset[p] /\ offset[p] \in Nat
      BY <2>1, <3>1 DEF Stage, Types
    <3> HIDE DEF at
    <3>3. next > Len(file) /\ next \in Nat
      BY <3>2
    <3> HIDE DEF next
    <3>4. file' = [k \in 1 .. next |-> at(k)]
      BY <3>1, <3>3
    <3>5. Len(file') = next
      BY <3>3, <3>4
    <3>6. offset'[p] = next
      BY <3>1 DEF Types
    <3>7. QED BY <2>2, <3>1, <3>2, <3>5, <3>6 DEF Stage
  <2>6. QED BY <2>3, <2>4, <2>5
<1>4. \A j \in Procs : Alone(j)'
  BY <1>1, <1>2, <1>3, StepAlone
<1>5. QED BY <1>1, <1>4 DEF History

LEMMA UnlockAlone ==
    ASSUME Types, History, \A j \in Procs : Alone(j), NEW p \in Procs, Unlock(p)
    PROVE  History' /\ \A j \in Procs : Alone(j)'
<1>1. UNCHANGED <<flags, before, alone>> /\ Active(p) /\ ~ Active(p)'
      /\ \A j \in Procs : j # p => pc'[j] = pc[j]
  BY DEF Unlock, Goto, Active, Types
<1>2. \A j \in Procs : Alone(j)'
  BY <1>1, StepAlone
<1>3. QED BY <1>1, <1>2 DEF History

LEMMA AloneHolds == ReplaceSpec => [](History /\ \A p \in Procs : Alone(p))
<1> DEFINE Inv == Types /\ \A j \in Procs : Stands(j)
           AInv == History /\ \A j \in Procs : Alone(j)
<1>1. ReplaceInit => AInv
  <2> SUFFICES ASSUME ReplaceInit PROVE AInv
    OBVIOUS
  <2>1. <<>> \in Seq(Text)
    OBVIOUS
  <2>2. History
    BY <2>1 DEF ReplaceInit, History, NewFlags
  <2>3. \A j \in Procs : Alone(j)
    BY DEF ReplaceInit, Alone, Active
  <2>4. QED BY <2>2, <2>3
<1>2. Inv /\ AInv /\ [ReplaceNext]_replaceVars => AInv'
  <2> SUFFICES ASSUME Inv, AInv, [ReplaceNext]_replaceVars PROVE AInv'
    OBVIOUS
  <2>1. ASSUME UNCHANGED replaceVars PROVE AInv'
    <3>1. History'
      BY <2>1 DEF replaceVars, History
    <3>2. ASSUME NEW j \in Procs PROVE Alone(j)'
      <4>1. Alone(j) /\ Op(j)' = Op(j) /\ \A k \in Procs : Active(k)' <=> Active(k)
        BY <2>1 DEF replaceVars, Op, Active
      <4>2. Stage(j) => Stage(j)'
        BY <2>1, <4>1 DEF replaceVars, Stage, ReadSoFar, ListIsRight
      <4>3. alone' = alone /\ before' = before
        BY <2>1 DEF replaceVars
      <4>4. QED BY <4>1, <4>2, <4>3 DEF Alone
    <3>3. QED BY <3>1, <3>2
  <2>2. ASSUME NEW p \in Procs, Step(p) PROVE AInv'
    BY <2>2, BeginAlone, ReadCharAlone, ReadEndAlone, WriteFileAlone, UnlockAlone
    DEF Step
  <2>3. QED BY <2>1, <2>2 DEF ReplaceNext
<1>3. Inv <=> ReplaceInv
  BY InvIs
<1>4. AInv <=> History /\ \A p \in Procs : Alone(p)
  OBVIOUS
<1> HIDE DEF Inv, AInv
<1>5. QED BY <1>1, <1>2, <1>3, <1>4, ReplaceInvHolds, PTL DEF ReplaceSpec

(***************************************************************************)
(* For any text, letters and number of processes: an operation that no     *)
(* other process ran into, on a file that none has damaged before, leaves  *)
(* the text with its letter replaced in exactly the words that its line    *)
(* case works on and nowhere else, whatever malloc left at the end of its  *)
(* words.  At the ends of lines these are the last words of the lines; at  *)
(* the starts, the first and the last word of the text, and the first one  *)
(* of each later line if another follows it there (read_file, check_words, *)
(* write_file).                                                            *)
(***************************************************************************)
THEOREM AloneReplacesRight == ReplaceSpec => []AloneIsRight
<1>1. ReplaceInv /\ History /\ (\A p \in Procs : Alone(p)) => AloneIsRight
  <2> SUFFICES ASSUME ReplaceInv, History, \A p \in Procs : Alone(p), NEW p \in Procs,
                      pc[p] = "write", offset[p] = Len(word_list[p]),
                      alone[p], Whole(before[p])
               PROVE  RightText(before[p], Len(before[p]), file, Len(file), Op(p))
    BY DEF AloneIsRight
  <2>1. Types /\ Stands(p)
    BY InvIs
  <2>2. Stage(p)
    BY DEF Alone, Active
  <2>3. /\ stands /\ Len(file) = Len(word_list[p])
        /\ RightText(before[p], Len(before[p]), word_list[p],
                     Len(word_list[p]), Op(p))
    BY <2>2 DEF Stage, ListIsRight
  <2>4. \A k \in 1 .. Len(word_list[p]) : file[k] = word_list[p][k]
    BY <2>1, <2>3 DEF Stands
  <2>5. Len(file) \in Nat /\ Len(word_list[p]) \in Nat /\ Len(before[p]) \in Nat
    BY <2>1, LenProperties DEF Types, History
  <2> DEFINE q == Len(word_list[p])
             m == Len(before[p])
  <2> HIDE DEF m
  <2>6. m \in Nat /\ q \in Nat /\ RightText(before[p], m, word_list[p], q, Op(p))
    BY <2>3, <2>5 DEF m
  <2>7. RightText(before[p], m, file, q, Op(p))
    BY <2>3, <2>4, <2>5, <2>6, RightPrefix
  <2>8. QED BY <2>3, <2>7 DEF m
<1>2. QED BY <1>1, ReplaceInvHolds, AloneHolds, PTL
-----------------------------------------------------------------------------
(***************************************************************************)
(* Homework 4.                                                             *)
(***************************************************************************)

(***************************************************************************)
(* The inductive invariant behind PairsMatch and ConsumersFinish: main has *)
(* created the consumers below its index and no others, or has joined      *)
(* them; a consumer that left has iterated n times.                        *)
(***************************************************************************)
SupplierInv ==
    /\ mpc \in {"check", "create", "join", "removed"} \union Ended
    /\ index \in 0 .. c /\ (mpc \in {"check", "create"} => index < c)
    /\ position \in 0 .. Len(Input)
    /\ iteration \in [Consumers -> 0 .. n]
    /\ consumer \in [Consumers -> {"absent", "running", "left"}]
    /\ ones \in 0 .. SemMax /\ twos \in 0 .. SemMax /\ consumed \in Nat
    /\ \A k \in Consumers : consumer[k] = "left" => iteration[k] = n
    /\ mpc \in {"join", "removed", "returned"} =>
          \A k \in 0 .. index - 1 : consumer[k] = "left"
    /\ mpc \in {"removed", "returned"} => index = c
    /\ PairsMatch
-----------------------------------------------------------------------------
\* One more character of the file.
LEMMA PlacesGrow ==
    ASSUME NEW ch, NEW k \in Nat
    PROVE  /\ IsFiniteSet(PlacesOf(ch, k))
           /\ Cardinality(PlacesOf(ch, k)) \in 0 .. k
           /\ Input[k + 1] = ch =>
                Cardinality(PlacesOf(ch, k + 1)) = Cardinality(PlacesOf(ch, k)) + 1
           /\ Input[k + 1] # ch =>
                Cardinality(PlacesOf(ch, k + 1)) = Cardinality(PlacesOf(ch, k))
<1>1. IsFiniteSet(1 .. k) /\ Cardinality(1 .. k) = k
  BY FS_Interval
<1>2. /\ IsFiniteSet(PlacesOf(ch, k))
      /\ Cardinality(PlacesOf(ch, k)) \in Nat /\ Cardinality(PlacesOf(ch, k)) <= k
  BY <1>1, FS_Subset, FS_CardinalityType DEF PlacesOf
<1>3. Input[k + 1] = ch => PlacesOf(ch, k + 1) = PlacesOf(ch, k) \union {k + 1}
  BY DEF PlacesOf
<1>4. Input[k + 1] # ch => PlacesOf(ch, k + 1) = PlacesOf(ch, k)
  BY DEF PlacesOf
<1>5. k + 1 \notin PlacesOf(ch, k)
  BY DEF PlacesOf
<1>6. QED BY <1>2, <1>3, <1>4, <1>5, FS_AddElement

\* The steps of main, of the supplier and of a consumer keep the invariant.
LEMMA MainKeepsInv ==
    ASSUME SupplierInv, MainStep \/ Interrupt
    PROVE  SupplierInv'
<1> USE SupplierAssumption DEF SupplierInv, Consumers
<1>1. /\ UNCHANGED <<position, iteration, consumed, ones, twos>>
      /\ mpc' \notin {"removed", "returned", "interrupted"} =>
            mpc \notin {"removed", "returned", "interrupted"}
  BY DEF MainStep, Check, Create, Join, RemoveSemaphores, Return, Interrupt, consumerVars, Ended
<1>2. PairsMatch'
  BY <1>1 DEF PairsMatch, Kept, PlacesOf
<1>3. CASE Check
  BY <1>1, <1>2, <1>3 DEF Check, consumerVars, Ended
<1>4. CASE Create
  <2>1. /\ mpc = "create" /\ consumer' = [consumer EXCEPT ![index] = "running"]
        /\ index' \in 0 .. c /\ mpc' \in {"create", "join"}
        /\ mpc' = "create" => index' < c
        /\ mpc' = "join" => index' = 0
    BY <1>4 DEF Create
  <2>2. consumer' \in [Consumers -> {"absent", "running", "left"}]
        /\ \A k \in Consumers : consumer'[k] = "left" => iteration'[k] = n
    BY <1>1, <2>1
  <2>3. mpc' = "join" => \A k \in 0 .. index' - 1 : consumer'[k] = "left"
    BY <2>1
  <2>4. QED BY <1>1, <1>2, <2>1, <2>2, <2>3
<1>5. CASE Join
  BY <1>2, <1>5 DEF Join, consumerVars, Ended
<1>6. CASE RemoveSemaphores \/ Return
  BY <1>2, <1>6 DEF RemoveSemaphores, Return, consumerVars, Ended
<1>7. CASE Interrupt
  BY <1>2, <1>7 DEF Interrupt, consumerVars, Ended
<1>8. QED BY <1>3, <1>4, <1>5, <1>6, <1>7 DEF MainStep

LEMMA SupplierKeepsInv ==
    ASSUME SupplierInv, SupplierStep
    PROVE  SupplierInv'
<1> USE SupplierAssumption DEF SupplierInv
<1>1. CASE SupplierLeaves
  BY <1>1 DEF SupplierLeaves, mainVars, consumerVars, PairsMatch, Kept
<1>2. CASE Supply
  <2>1. /\ UNCHANGED <<mainVars, spc, consumerVars>>
        /\ position' = position + 1 /\ position \in Nat
        /\ position' <= Len(Input)
    BY <1>2 DEF Supply
  <2>2. ones' \in 0 .. SemMax /\ twos' \in 0 .. SemMax
    BY <1>2 DEF Supply, postSem
  <2>3. ASSUME Len(Input) <= SemMax, mpc \notin {"removed", "returned", "interrupted"}
        PROVE  Kept'
    <3>1. Kept
      BY <2>3 DEF PairsMatch
    <3>2. ones < SemMax /\ twos < SemMax
      BY <2>1, <2>3, <3>1, PlacesGrow DEF Kept
    <3>3. /\ ones' = IF Input[position + 1] = "1" THEN ones + 1 ELSE ones
          /\ twos' = IF Input[position + 1] = "2" THEN twos + 1 ELSE twos
      BY <1>2, <2>3, <3>2 DEF Supply, postSem
    <3>4. ones' + consumed' = Cardinality(PlacesOf("1", position'))
      BY <2>1, <3>1, <3>3, PlacesGrow DEF Kept, consumerVars
    <3>5. twos' + consumed' = Cardinality(PlacesOf("2", position'))
      BY <2>1, <3>1, <3>3, PlacesGrow DEF Kept, consumerVars
    <3>6. QED BY <3>4, <3>5 DEF Kept, PlacesOf
  <2>4. PairsMatch'
    BY <2>1, <2>3 DEF PairsMatch, mainVars
  <2>5. QED BY <2>1, <2>2, <2>4 DEF mainVars, consumerVars
<1>3. QED BY <1>1, <1>2 DEF SupplierStep

LEMMA ConsumerKeepsInv ==
    ASSUME SupplierInv, NEW k \in Consumers, ConsumerStep(k)
    PROVE  SupplierInv'
<1> USE SupplierAssumption DEF SupplierInv, mainVars, PairsMatch, Kept
<1>1. CASE ConsumerLeaves(k)
  BY <1>1 DEF ConsumerLeaves
<1>2. CASE Consume(k)
  <2>1. PairsMatch'
    BY <1>2, PlacesGrow DEF Consume, waitSem
  <2>2. QED BY <1>2, <2>1 DEF Consume, waitSem
<1>3. QED BY <1>1, <1>2 DEF ConsumerStep

\* The invariant of the module holds always.
LEMMA SupplierInvHolds == SupplierSpec => []SupplierInv
<1>1. SupplierInit => SupplierInv
  <2> SUFFICES ASSUME SupplierInit PROVE SupplierInv
    OBVIOUS
  <2>1. PlacesOf("1", 0) = {} /\ PlacesOf("2", 0) = {}
    BY DEF PlacesOf
  <2>2. Kept
    BY <2>1, FS_EmptySet DEF SupplierInit, Kept
  <2>3. QED
    BY <2>2, SupplierAssumption DEF SupplierInit, SupplierInv, PairsMatch, Consumers
<1>2. SupplierInv /\ [SupplierNext]_supplierVars => SupplierInv'
  <2>1. CASE UNCHANGED supplierVars
    BY <2>1 DEF supplierVars, mainVars, consumerVars, SupplierInv, PairsMatch, Kept, PlacesOf
  <2>2. QED
    BY <2>1, MainKeepsInv, SupplierKeepsInv, ConsumerKeepsInv DEF SupplierNext
<1>3. QED BY <1>1, <1>2, PTL DEF SupplierSpec

(***************************************************************************)
(* The semaphores and the consumed pairs together are what was read from   *)
(* the file, of each kind, for every file that a semaphore can count.      *)
(***************************************************************************)
THEOREM NothingIsLost == SupplierSpec => []PairsMatch
<1>1. SupplierInv => PairsMatch
  BY DEF SupplierInv
<1>2. QED BY <1>1, SupplierInvHolds, PTL

(***************************************************************************)
(* Main never removes the semaphores under a consumer.                     *)
(***************************************************************************)
THEOREM RemovedAtTheEnd == SupplierSpec => []ConsumersFinish
<1>1. SupplierInv => ConsumersFinish
  BY DEF SupplierInv, ConsumersFinish, Consumers
<1>2. QED BY <1>1, SupplierInvHolds, PTL
=============================================================================
