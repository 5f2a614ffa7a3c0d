---------------------------- MODULE Verification ----------------------------
(***************************************************************************)
(* verify_routing: the imports of a component against the markers of the   *)
(* interfaces that are routed and the prefixes that are exempt.            *)
(*                                                                         *)
(* A name is a sequence of tokens, "@" and the rest; a version is the      *)
(* token after the last "@".                                               *)
(***************************************************************************)
EXTENDS Naturals, Sequences, SequencesExt

CONSTANTS
  Names,        \* the names of imports
  Interfaces,   \* the names of the markers
  Exemptions,   \* the prefixes that may be exempt
  Exports,      \* the names in an interface
  ImportKinds,  \* what an import may be: "function", "type", "instance"
  ExportKinds,  \* and an export of one: "function", "resource", "type", "instance"
  MaxImports    \* the bound on a component's imports

ASSUME NamesAssumption ==
  Names \subseteq Seq(STRING) /\ Interfaces \subseteq Seq(STRING) /\ Exemptions \subseteq Seq(STRING)

\* A marker is the name of an interface without a version, as every
\* RoutedInterface that the code makes (routing.rs, ROUTED_INTERFACES).
ASSUME MarkersAssumption == \A m \in Interfaces : \A i \in DOMAIN m : m[i] # "@"

ASSUME BoundAssumption == MaxImports \in Nat

VARIABLES
  component,  \* its imports, in order
  routed,     \* the markers given
  unchecked,  \* the prefixes given
  next,       \* the import the loop is at
  functions,  \* what was found unrouted
  result      \* of verify_routing

vars == <<component, routed, unchecked, next, functions, result>>

Items == [kind : ImportKinds \ {"instance"}, exports : {<<>>}]
           \cup [kind : ImportKinds \cap {"instance"},
                 exports : UNION {[names -> ExportKinds] : names \in SUBSET Exports}]

Init ==
  /\ component \in UNION {[1..n -> [name : Names, type : Items]] : n \in 0..MaxImports}
  /\ \A i, j \in DOMAIN component : component[i].name = component[j].name => i = j
  /\ routed \in SUBSET Interfaces
  /\ unchecked \in SUBSET Exemptions
  /\ next = 1
  /\ functions = {}
  /\ result = "none"

-----------------------------------------------------------------------------

Ats(name) == {i \in DOMAIN name : name[i] = "@"}

\* Variant: whatever follows the marker is taken for a version.
UnversionedKept(name) == name

\* The name up to its last "@".
UnversionedInterface(name) ==
  IF Ats(name) = {} THEN name
  ELSE SubSeq(name, 1, (CHOOSE i \in Ats(name) : \A j \in Ats(name) : j <= i) - 1)

Exempt(name) == \E prefix \in unchecked : IsPrefix(prefix, name)

\* Variant: only the functions.
ListedFunctions(name, exports) ==
  {<<name, f>> : f \in {e \in DOMAIN exports : exports[e] = "function"}}

\* The functions of an instance, and a drop for each resource.
Listed(name, exports) ==
  {<<name, f>> : f \in {e \in DOMAIN exports : exports[e] \in {"function", "resource"}}}

Import == component[next]

Go ==
  /\ result = "none" /\ next <= Len(component)
  /\ next' = next + 1
  /\ UNCHANGED <<component, routed, unchecked, result>>

Continue ==
  /\ Go
  /\ Exempt(Import.name)
  /\ UNCHANGED functions

Routed ==
  /\ Go
  /\ ~Exempt(Import.name)
  /\ Import.type.kind = "instance" /\ UnversionedInterface(Import.name) \in routed
  /\ UNCHANGED functions

Extend ==
  /\ Go
  /\ ~Exempt(Import.name)
  /\ Import.type.kind = "instance" /\ UnversionedInterface(Import.name) \notin routed
  /\ functions' = functions \cup Listed(Import.name, Import.type.exports)

\* Any other import is listed by its name.
Push ==
  /\ Go
  /\ ~Exempt(Import.name)
  /\ Import.type.kind # "instance"
  /\ functions' = functions \cup {<<Import.name>>}

\* Variant: an import still to come is not waited for.
FinishEarly ==
  /\ result = "none" /\ (functions # {} \/ next > Len(component))
  /\ result' = IF functions = {} THEN "ok" ELSE "unrouted"
  /\ UNCHANGED <<component, routed, unchecked, next, functions>>

Finish ==
  /\ result = "none" /\ next > Len(component)
  /\ result' = IF functions = {} THEN "ok" ELSE "unrouted"
  /\ UNCHANGED <<component, routed, unchecked, next, functions>>

Next == Continue \/ Routed \/ Extend \/ Push \/ Finish

Spec == Init /\ [][Next]_vars

-----------------------------------------------------------------------------
(* Properties                                                              *)

TypeOK ==
  /\ next \in 1..(Len(component) + 1)
  /\ functions \subseteq
       UNION {{<<component[i].name>>} \cup {<<component[i].name, e>> : e \in Exports} : i \in 1..(next - 1)}
  /\ result \in {"none", "ok", "unrouted"}
  /\ result # "none" => next = Len(component) + 1

\* The reference: which imports carry a marker's interface, at any version or
\* none, and which begin as a prefix does.
Carries(name, interface) ==
  \/ name = interface
  \/ \E k \in DOMAIN name : Append(interface, "@") = SubSeq(name, 1, k) /\ k > 0
       /\ \A j \in (k + 1)..Len(name) : name[j] # "@"

Unchecked(name) == \E p \in unchecked : Len(p) <= Len(name) /\ SubSeq(name, 1, Len(p)) = p

RoutedBy(import) == import.type.kind = "instance" /\ \E m \in routed : Carries(import.name, m)

\* What a component's code can call through imports that are neither exempt nor
\* of a routed interface.
Callable ==
  LET left == {import \in ToSet(component) : ~Unchecked(import.name) /\ ~RoutedBy(import)}
  IN  {<<import.name>> : import \in {i \in left : i.type.kind = "function"}}
        \cup UNION {{<<import.name, e>> : e \in
               {f \in DOMAIN import.type.exports : import.type.exports[f] # "type"}} :
               import \in {i \in left : i.type.kind = "instance"}}

\* "Returns an error naming every checked function whose interface was not
\* emitted by route_imports!", listing "component functions that are not routed
\* through middleware" (verification.rs), and success when there are none: what
\* is named is what a component can call unrouted, no less and no more.
NamesEveryFunction ==
  result # "none" => functions = Callable /\ (result = "ok" <=> Callable = {})
=============================================================================
