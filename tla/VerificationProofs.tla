------------------------- MODULE VerificationProofs -------------------------
(***************************************************************************)
(* What Verification guarantees for any names, markers, prefixes and       *)
(* component: after each import, the list holds what the imports so far    *)
(* offer unrouted, so that at the end it holds what the component can      *)
(* call.  The lemmas say that cutting a name at its last "@" finds the     *)
(* marker it carries, and that a prefix is a prefix.                       *)
(***************************************************************************)
EXTENDS Verification, SequenceTheorems, WellFoundedInduction, TLAPS

\* What one import leaves unrouted.
Unrouted(import) ==
  IF Unchecked(import.name) \/ RoutedBy(import) THEN {}
  ELSE IF import.type.kind = "instance" THEN Listed(import.name, import.type.exports)
  ELSE {<<import.name>>}

Shape ==
  /\ component \in Seq([name : Names, type : Items])
  /\ routed \subseteq Interfaces /\ unchecked \subseteq Exemptions
  /\ next \in 1..(Len(component) + 1)
  /\ result \in {"none", "ok", "unrouted"}
  /\ result # "none" => next = Len(component) + 1

\* The list holds what the imports before the next one leave unrouted.
ListedSoFar == functions = UNION {Unrouted(component[i]) : i \in 1..(next - 1)}

\* The verdict is success when nothing was listed.
VerdictIsTheList == result # "none" => (result = "ok" <=> functions = {})

IInv == Shape /\ ListedSoFar /\ VerdictIsTheList

-----------------------------------------------------------------------------
(* Names                                                                   *)

\* A set of naturals has a least element.
LEMMA Least ==
  ASSUME NEW T, T \subseteq Nat, T # {}
  PROVE  \E x \in T : \A y \in T : x <= y
<1> DEFINE R == OpToRel(<, Nat)
<1>1. IsWellFoundedOn(R, Nat)
  BY NatLessThanWellFounded
<1>2. \A x, y \in Nat : y < x => <<y, x>> \in R
  BY DEF OpToRel
<1> HIDE DEF R
<1>3. PICK x \in T : \A y \in T : ~(<<y, x>> \in R)
  BY <1>1, WFMin
<1>4. ASSUME NEW y \in T PROVE x <= y
  <2>1. x \in Nat /\ y \in Nat
    OBVIOUS
  <2>2. ~(y < x)
    BY <1>2, <1>3, <2>1
  <2> QED BY <2>1, <2>2
<1> QED BY <1>4

\* A bounded set of places has a last one.
LEMMA Greatest ==
  ASSUME NEW n \in Nat, NEW T, T \subseteq 1..n, T # {}
  PROVE  \E x \in T : \A y \in T : y <= x
<1> DEFINE U == {n - t : t \in T}
<1>1. U \subseteq Nat
  <2>1. \A t \in T : n - t \in Nat
    OBVIOUS
  <2> QED BY <2>1
<1>2. U # {}
  <2>1. PICK t \in T : TRUE
    OBVIOUS
  <2>2. n - t \in U
    OBVIOUS
  <2> QED BY <2>2
<1> HIDE DEF U
<1>3. PICK m \in U : \A u \in U : m <= u
  BY <1>1, <1>2, Least
<1> USE DEF U
<1>4. PICK x \in T : m = n - x
  OBVIOUS
<1>5. ASSUME NEW y \in T PROVE y <= x
  <2>1. n - y \in U
    OBVIOUS
  <2>2. n - x <= n - y
    BY <1>3, <1>4, <2>1
  <2>3. x \in Nat /\ y \in Nat
    OBVIOUS
  <2> QED BY <2>2, <2>3
<1> QED BY <1>5

\* Where UnversionedInterface cuts a name that has a version: at the last "@".
LEMMA CutAtTheLast ==
  ASSUME NEW name \in Seq(STRING), Ats(name) # {}
  PROVE  \E at \in 1..Len(name) :
           /\ name[at] = "@" /\ \A j \in (at + 1)..Len(name) : name[j] # "@"
           /\ UnversionedInterface(name) = SubSeq(name, 1, at - 1)
<1> DEFINE IsLast(i) == \A j \in Ats(name) : j <= i
           at == CHOOSE i \in Ats(name) : IsLast(i)
<1>1. Len(name) \in Nat /\ Ats(name) \subseteq 1..Len(name)
  BY LenProperties DEF Ats
<1>2. \E i \in Ats(name) : IsLast(i)
  BY <1>1, Greatest
<1>3. at \in Ats(name) /\ IsLast(at)
  BY <1>2
<1>4. UnversionedInterface(name) = SubSeq(name, 1, at - 1)
  BY DEF UnversionedInterface
<1> HIDE DEF at
<1>5. at \in 1..Len(name) /\ name[at] = "@"
  BY <1>1, <1>3 DEF Ats
<1>6. ASSUME NEW j \in (at + 1)..Len(name) PROVE name[j] # "@"
  <2>1. j \in 1..Len(name) /\ ~(j <= at)
    BY <1>1, <1>5
  <2>2. j \notin Ats(name)
    BY <1>3, <2>1
  <2> QED BY <2>1, <2>2, LenProperties DEF Ats
<1> QED BY <1>4, <1>5, <1>6

\* A name up to a place is an interface and "@" when it is the interface up to
\* the place before and has "@" there.
LEMMA InterfaceAndAt ==
  ASSUME NEW m \in Seq(STRING), NEW name \in Seq(STRING), NEW k \in 1..Len(name)
  PROVE  Append(m, "@") = SubSeq(name, 1, k) <=> m = SubSeq(name, 1, k - 1) /\ name[k] = "@"
<1> DEFINE a == Append(m, "@")
           s == SubSeq(name, 1, k)
           r == SubSeq(name, 1, k - 1)
           Tokens == STRING \cup {"@"}
<1>1. Len(m) \in Nat /\ Len(name) \in Nat /\ m \in Seq(Tokens) /\ "@" \in Tokens
  BY LenProperties, SeqMonotonic
<1>2. /\ a \in Seq(Tokens) /\ Len(a) = Len(m) + 1 /\ a[Len(m) + 1] = "@"
      /\ \A i \in 1..Len(m) : a[i] = m[i]
  BY <1>1, AppendProperties
<1>3. s \in Seq(Tokens) /\ Len(s) = k /\ \A i \in 1..k : s[i] = name[i]
  <2>1. s \in Seq(STRING) /\ Len(s) = k /\ \A i \in 1..k : s[i] = name[i]
    OBVIOUS
  <2> QED BY <2>1, SeqMonotonic
<1>4. r \in Seq(STRING) /\ Len(r) = k - 1 /\ \A i \in 1..(k - 1) : r[i] = name[i]
  OBVIOUS
<1> HIDE DEF a, s, r
<1>5. ASSUME a = s PROVE m = r /\ name[k] = "@"
  <2>1. Len(m) = k - 1 /\ k \in 1..k
    BY <1>1, <1>2, <1>3, <1>5
  <2>2. name[k] = "@"
    BY <1>2, <1>3, <1>5, <2>1
  <2>3. \A i \in 1..Len(m) : m[i] = r[i]
    <3>1. SUFFICES ASSUME NEW i \in 1..Len(m) PROVE m[i] = r[i]
      OBVIOUS
    <3>2. i \in 1..k /\ i \in 1..(k - 1)
      BY <1>1, <2>1
    <3> QED BY <1>2, <1>3, <1>4, <1>5, <3>2
  <2> QED BY <1>4, <2>1, <2>2, <2>3, SeqEqual
<1>6. ASSUME m = r, name[k] = "@" PROVE a = s
  <2>1. Len(m) = k - 1
    BY <1>4, <1>6
  <2>2. Len(a) = k
    BY <1>2, <2>1
  <2>3. \A i \in 1..Len(a) : a[i] = s[i]
    <3>1. SUFFICES ASSUME NEW i \in 1..k PROVE a[i] = s[i]
      BY <2>2
    <3>2. i \in 1..Len(m) \/ i = Len(m) + 1
      BY <1>1, <2>1
    <3>3. CASE i \in 1..Len(m)
      BY <1>2, <1>3, <1>4, <1>6, <2>1, <3>3
    <3>4. CASE i = Len(m) + 1
      <4>1. i = k
        BY <2>1, <3>4
      <4> QED BY <1>2, <1>3, <1>6, <3>4, <4>1
    <3> QED BY <3>2, <3>3, <3>4
  <2> QED BY <1>2, <1>3, <2>2, <2>3, SeqEqual
<1> QED BY <1>5, <1>6 DEF a, s, r

\* A name cut at its last "@" is the marker that it carries, at some version
\* or none.
LEMMA UnversionedIsCarried ==
  ASSUME NEW name \in Seq(STRING), NEW m \in Seq(STRING), \A i \in DOMAIN m : m[i] # "@"
  PROVE  UnversionedInterface(name) = m <=> Carries(name, m)
<1>1. /\ Len(name) \in Nat /\ DOMAIN name = 1..Len(name)
      /\ Len(m) \in Nat /\ DOMAIN m = 1..Len(m)
  BY LenProperties
<1>2. ASSUME NEW k \in DOMAIN name, Append(m, "@") = SubSeq(name, 1, k)
      PROVE  m = SubSeq(name, 1, k - 1) /\ name[k] = "@"
  BY <1>1, <1>2, InterfaceAndAt
<1>3. CASE Ats(name) = {}
  <2>1. UnversionedInterface(name) = name
    BY <1>3 DEF UnversionedInterface
  <2>2. \A k \in DOMAIN name : name[k] # "@"
    BY <1>3 DEF Ats
  <2> QED BY <1>2, <2>1, <2>2 DEF Carries
<1>4. CASE Ats(name) # {}
  <2>1. PICK at \in 1..Len(name) :
          /\ name[at] = "@" /\ \A j \in (at + 1)..Len(name) : name[j] # "@"
          /\ UnversionedInterface(name) = SubSeq(name, 1, at - 1)
    BY <1>4, CutAtTheLast
  <2>2. ASSUME UnversionedInterface(name) = m PROVE Carries(name, m)
    <3>1. Append(m, "@") = SubSeq(name, 1, at)
      BY <2>1, <2>2, InterfaceAndAt
    <3>2. at \in DOMAIN name /\ at > 0
      BY <1>1
    <3> QED BY <2>1, <3>1, <3>2 DEF Carries
  <2>3. ASSUME Carries(name, m) PROVE UnversionedInterface(name) = m
    <3>1. name # m
      BY <1>1, <2>1
    <3>2. PICK k \in DOMAIN name :
            Append(m, "@") = SubSeq(name, 1, k) /\ \A j \in (k + 1)..Len(name) : name[j] # "@"
      BY <2>3, <3>1 DEF Carries
    <3>3. m = SubSeq(name, 1, k - 1) /\ name[k] = "@"
      BY <1>2, <3>2
    <3>4. k \notin (at + 1)..Len(name) /\ at \notin (k + 1)..Len(name)
      BY <2>1, <3>2, <3>3
    <3>5. k = at
      BY <1>1, <3>4
    <3> QED BY <2>1, <3>3, <3>5
  <2> QED BY <2>2, <2>3
<1> QED BY <1>3, <1>4

\* starts_with and the reference agree.
LEMMA ExemptIsUnchecked ==
  ASSUME unchecked \subseteq Seq(STRING), NEW name \in Seq(STRING)
  PROVE  Exempt(name) <=> Unchecked(name)
<1>1. ASSUME NEW p \in unchecked
      PROVE  IsPrefix(p, name) <=> Len(p) <= Len(name) /\ SubSeq(name, 1, Len(p)) = p
  <2>1. SubSeq(p, 1, Len(p)) = p
    <3>1. p \in Seq(STRING)
      OBVIOUS
    <3> QED BY <3>1
  <2> QED BY <2>1 DEF IsPrefix
<1> QED BY <1>1 DEF Exempt, Unchecked

-----------------------------------------------------------------------------
(* The invariant                                                           *)

\* What is known of an import of the component.
LEMMA ImportShape ==
  ASSUME Shape, NEW i \in 1..Len(component)
  PROVE  /\ component[i].name \in Seq(STRING) /\ component[i].type \in Items
         /\ DOMAIN component[i].type.exports \subseteq Exports
<1>1. component[i] \in [name : Names, type : Items]
  BY ElementOfSeq DEF Shape
<1>2. component[i].name \in Seq(STRING) /\ component[i].type \in Items
  BY <1>1, NamesAssumption
<1>3. DOMAIN component[i].type.exports \subseteq Exports
  <2> DEFINE type == component[i].type
  <2>1. CASE type \in [kind : ImportKinds \ {"instance"}, exports : {<<>>}]
    BY <2>1
  <2>2. CASE type \in [kind : ImportKinds \cap {"instance"},
                       exports : UNION {[names -> ExportKinds] : names \in SUBSET Exports}]
    <3>1. PICK names \in SUBSET Exports : type.exports \in [names -> ExportKinds]
      BY <2>2
    <3> QED BY <3>1
  <2> QED BY <1>2, <2>1, <2>2 DEF Items
<1> QED BY <1>2, <1>3

\* Whether the loop takes an import for routed and whether it is.
LEMMA RoutedIsRouted ==
  ASSUME Shape, NEW i \in 1..Len(component), component[i].type.kind = "instance"
  PROVE  UnversionedInterface(component[i].name) \in routed <=> RoutedBy(component[i])
<1>1. component[i].name \in Seq(STRING)
  BY ImportShape
<1>2. \A m \in routed : m \in Seq(STRING) /\ \A j \in DOMAIN m : m[j] # "@"
  BY NamesAssumption, MarkersAssumption DEF Shape
<1>3. \A m \in routed : UnversionedInterface(component[i].name) = m <=> Carries(component[i].name, m)
  BY <1>1, <1>2, UnversionedIsCarried
<1> QED BY <1>3 DEF RoutedBy

\* What a turn of the loop adds is what its import leaves unrouted.
LEMMA TurnAddsUnrouted ==
  ASSUME Shape, Continue \/ Routed \/ Extend \/ Push
  PROVE  functions' = functions \cup Unrouted(component[next])
<1>1. next \in 1..Len(component)
  BY LenProperties DEF Shape, Continue, Routed, Extend, Push, Go
<1>2. Exempt(Import.name) <=> Unchecked(Import.name)
  <2>1. unchecked \subseteq Seq(STRING)
    BY NamesAssumption DEF Shape
  <2> QED BY <1>1, <2>1, ImportShape, ExemptIsUnchecked DEF Import
<1>3. Import.type.kind = "instance" =>
        (UnversionedInterface(Import.name) \in routed <=> RoutedBy(Import))
  BY <1>1, RoutedIsRouted DEF Import
<1>4. RoutedBy(Import) => Import.type.kind = "instance"
  BY DEF RoutedBy
<1>5. CASE Continue
  BY <1>2, <1>5 DEF Continue, Unrouted, Import
<1>6. CASE Routed
  BY <1>3, <1>6 DEF Routed, Unrouted, Import
<1>7. CASE Extend
  BY <1>2, <1>3, <1>7 DEF Extend, Unrouted, Import
<1>8. CASE Push
  BY <1>2, <1>4, <1>8 DEF Push, Unrouted, Import
<1> QED BY <1>5, <1>6, <1>7, <1>8

\* What an import leaves unrouted depends on the markers and prefixes only.
LEMMA SameMarkers ==
  ASSUME UNCHANGED <<routed, unchecked>>
  PROVE  \A import : Unrouted(import)' = Unrouted(import)
BY DEF Unrouted, Unchecked, RoutedBy

\* Before the first import nothing is listed.
LEMMA InitIInv == Init => IInv
<1> SUFFICES ASSUME Init PROVE IInv
  OBVIOUS
<1>1. PICK n \in 0..MaxImports : component \in [1..n -> [name : Names, type : Items]]
  BY DEF Init
<1>2. component \in Seq([name : Names, type : Items]) /\ Len(component) \in Nat
  <2> DEFINE Imports == [name : Names, type : Items]
  <2>1. n \in Nat
    BY BoundAssumption
  <2>2. component \in [1..n -> Imports]
    BY <1>1
  <2> HIDE DEF Imports
  <2>3. component \in Seq(Imports)
    BY <2>1, <2>2, SeqDef
  <2> QED BY <2>3, LenProperties DEF Imports
<1>3. Shape
  BY <1>2 DEF Init, Shape
<1>4. ListedSoFar
  BY DEF Init, ListedSoFar
<1> QED BY <1>3, <1>4 DEF Init, IInv, VerdictIsTheList

\* Each turn keeps the list to the imports it has passed, and the verdict is
\* given when it has passed them all.
LEMMA NextIInv == IInv /\ [Next]_vars => IInv'
<1> SUFFICES ASSUME IInv, [Next]_vars PROVE IInv'
  OBVIOUS
<1>1. Len(component) \in Nat /\ Shape
  BY LenProperties DEF IInv, Shape
<1>2. CASE Continue \/ Routed \/ Extend \/ Push
  <2>1. /\ next \in 1..Len(component) /\ next' = next + 1 /\ result = "none"
        /\ UNCHANGED <<component, routed, unchecked, result>>
    BY <1>1, <1>2 DEF Continue, Routed, Extend, Push, Go, Shape
  <2>2. functions' = functions \cup Unrouted(component[next])
    BY <1>1, <1>2, TurnAddsUnrouted
  <2>3. Shape'
    BY <1>1, <2>1 DEF Shape
  <2>4. ListedSoFar'
    <3>1. \A import : Unrouted(import)' = Unrouted(import)
      BY <2>1, SameMarkers
    <3>2. functions' = UNION {Unrouted(component[i]) : i \in 1..next}
      <4>1. 1..next = 1..(next - 1) \cup {next}
        BY <2>1
      <4>2. functions = UNION {Unrouted(component[i]) : i \in 1..(next - 1)}
        BY DEF IInv, ListedSoFar
      <4> QED BY <2>2, <4>1, <4>2
    <3> QED BY <2>1, <3>1, <3>2 DEF ListedSoFar
  <2> QED BY <2>1, <2>3, <2>4 DEF IInv, VerdictIsTheList
<1>3. CASE Finish
  <2>1. /\ next = Len(component) + 1
        /\ UNCHANGED <<component, routed, unchecked, next, functions>>
        /\ result' = IF functions = {} THEN "ok" ELSE "unrouted"
    BY <1>1, <1>3 DEF Finish, Shape
  <2>2. Shape'
    BY <1>1, <2>1 DEF Shape
  <2>3. ListedSoFar'
    BY <2>1, SameMarkers DEF IInv, ListedSoFar
  <2> QED BY <2>1, <2>2, <2>3 DEF IInv, VerdictIsTheList
<1>4. CASE UNCHANGED vars
  BY <1>4, SameMarkers DEF vars, IInv, Shape, ListedSoFar, VerdictIsTheList
<1> QED BY <1>2, <1>3, <1>4 DEF Next

\* The invariant holds in every behaviour.
LEMMA Invariance == Spec => []IInv
BY InitIInv, NextIInv, PTL DEF Spec

-----------------------------------------------------------------------------
(* The theorems                                                            *)

\* For any names, markers and prefixes, what is listed are the imports that the
\* loop has passed and names they export, and the verdict comes at their end.
THEOREM TypeCorrect == Spec => []TypeOK
<1>1. IInv => TypeOK
  <2> SUFFICES ASSUME IInv PROVE TypeOK
    OBVIOUS
  <2> DEFINE Named(i) == {<<component[i].name>>}
                           \cup {<<component[i].name, e>> : e \in Exports}
  <2>1. Shape /\ Len(component) \in Nat
    BY LenProperties DEF IInv, Shape
  <2>2. ASSUME NEW i \in 1..(next - 1) PROVE Unrouted(component[i]) \subseteq Named(i)
    <3>1. i \in 1..Len(component)
      BY <2>1 DEF Shape
    <3>2. DOMAIN component[i].type.exports \subseteq Exports
      BY <2>1, <3>1, ImportShape
    <3> QED BY <3>2 DEF Unrouted, Listed
  <2>3. functions \subseteq UNION {Named(i) : i \in 1..(next - 1)}
    BY <2>2 DEF IInv, ListedSoFar
  <2> QED BY <2>1, <2>3 DEF TypeOK, Shape
<1> QED BY <1>1, Invariance, PTL

\* For any component whose imports and exports are of the kinds that WIT can
\* spell, any markers and any prefixes, verify_routing names exactly the
\* functions the component can call through imports that are neither exempt
\* nor of a routed interface, and succeeds when there are none.
THEOREM NamesWhatIsUnrouted ==
  ASSUME ImportKinds \subseteq {"function", "instance"},
         ExportKinds \subseteq {"function", "resource", "type"}
  PROVE  Spec => []NamesEveryFunction
<1>1. ASSUME IInv, result # "none" PROVE functions = Callable
  <2>1. Shape /\ Len(component) \in Nat /\ next - 1 = Len(component)
    BY <1>1, LenProperties DEF IInv, Shape
  <2>2. functions = UNION {Unrouted(component[i]) : i \in 1..Len(component)}
    BY <1>1, <2>1 DEF IInv, ListedSoFar
  <2> DEFINE Left == {import \in ToSet(component) : ~Unchecked(import.name) /\ ~RoutedBy(import)}
             Functions == {<<import.name>> : import \in {i \in Left : i.type.kind = "function"}}
             Of(import) == {<<import.name, e>> : e \in
               {f \in DOMAIN import.type.exports : import.type.exports[f] # "type"}}
             Instances == UNION {Of(import) : import \in {i \in Left : i.type.kind = "instance"}}
  <2>3. Callable = Functions \cup Instances
    BY DEF Callable
  <2>4. DOMAIN component = 1..Len(component)
    BY <2>1, LenProperties DEF Shape
  <2>5. ToSet(component) = {component[i] : i \in 1..Len(component)}
    BY <2>4 DEF ToSet
  <2>6. ASSUME NEW i \in 1..Len(component), component[i].type.kind = "instance"
        PROVE  Listed(component[i].name, component[i].type.exports) = Of(component[i])
    <3>1. component[i].type.exports \in UNION {[names -> ExportKinds] : names \in SUBSET Exports}
      BY <2>1, <2>6, ImportShape DEF Items
    <3>2. PICK names \in SUBSET Exports : component[i].type.exports \in [names -> ExportKinds]
      BY <3>1
    <3>3. \A f \in DOMAIN component[i].type.exports :
            component[i].type.exports[f] \in {"function", "resource", "type"}
      BY <3>2
    <3> QED BY <3>3 DEF Listed
  <2>7. \A i \in 1..Len(component) : component[i].type.kind \in {"function", "instance"}
    BY <2>1, ImportShape DEF Items
  <2>8. ASSUME NEW f \in functions PROVE f \in Callable
    <3>1. PICK i \in 1..Len(component) : f \in Unrouted(component[i])
      BY <2>2
    <3>2. component[i] \in Left
      BY <2>5, <3>1 DEF Unrouted
    <3>3. CASE component[i].type.kind = "instance"
      BY <2>3, <2>6, <3>1, <3>2, <3>3 DEF Unrouted
    <3>4. CASE component[i].type.kind = "function"
      BY <2>3, <3>1, <3>2, <3>4 DEF Unrouted
    <3> QED BY <2>7, <3>3, <3>4
  <2>9. ASSUME NEW f \in Callable PROVE f \in functions
    <3>1. PICK i \in 1..Len(component) :
            /\ ~Unchecked(component[i].name) /\ ~RoutedBy(component[i])
            /\ \/ component[i].type.kind = "function" /\ f = <<component[i].name>>
               \/ component[i].type.kind = "instance" /\ f \in Of(component[i])
      BY <2>3, <2>5
    <3>2. f \in Unrouted(component[i])
      BY <2>6, <3>1 DEF Unrouted
    <3> QED BY <2>2, <3>2
  <2> QED BY <2>8, <2>9
<1>2. IInv => NamesEveryFunction
  BY <1>1 DEF NamesEveryFunction, IInv, VerdictIsTheList
<1> QED BY <1>2, Invariance, PTL
=============================================================================
