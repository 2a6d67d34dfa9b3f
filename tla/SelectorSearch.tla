---------------------------- MODULE SelectorSearch ----------------------------
(***************************************************************************)
(* XJSHelperFunctions: from the name a script uses and the number of its   *)
(* arguments to a selector (scripts write underscores for colons and may   *)
(* leave out the trailing ones), and from a selector to the property of a  *)
(* JS object that implements it.  A name is a sequence of characters of    *)
(* which only colons and underscores matter.                               *)
(***************************************************************************)
EXTENDS Naturals, FiniteSets, Sequences, SequencesExt

CONSTANT NoSelector   \* NULL

Letter == "x"
Character == {Letter, "_", ":"}

Occurrences(s, c) == {i \in DOMAIN s : s[i] = c}
Colons(s) == Cardinality(Occurrences(s, ":"))

\* What matchNonLeadingUnderscore matches from cstr + 1 on: a character other than an
\* underscore must come first, and the first character of all is not looked at.
NonLeading(s) ==
  {i \in Occurrences(s, "_") : \E j \in 2..(i - 1) : s[j] # "_"}

WithColonsAt(s, places) == [i \in DOMAIN s |-> IF i \in places THEN ":" ELSE s[i]]

\* The greatest n members of a set of places.
LastPlaces(places, n) == {i \in places : Cardinality({j \in places : j > i}) < n}

\* "must end with ':'"
Ended(name) ==
  IF Last(name) = "_" THEN WithColonsAt(name, {Len(name)}) ELSE Append(name, ":")

\* A search that appends a colon to a name that ends with an underscore.
ColonsAppendedAlways(name, argc) ==
  LET cstr  == Append(name, ":")
      found == NonLeading(cstr)
      count == Cardinality(found) + 1 IN
    IF count >= argc
      THEN WithColonsAt(cstr, LastPlaces(found, argc - 1))
    ELSE WithColonsAt(cstr, found) \o [i \in 1..(argc - count) |-> ":"]

\* With underscores to spare the last ones become colons; with too few all of them do,
\* and colons are appended unless the name has its trailing underscores.
ColonsPlaced(name, argc) ==
  LET cstr  == Ended(name)
      found == NonLeading(cstr)
      count == Cardinality(found) + 1 IN
    IF count >= argc
      THEN WithColonsAt(cstr, LastPlaces(found, argc - 1))
    ELSE IF Last(name) = "_" THEN NoSelector
    ELSE WithColonsAt(cstr, found) \o [i \in 1..(argc - count) |-> ":"]

\* A search that takes a name with colons for complete, whatever the arguments.
SearchSelectorUnmatched(name, argc) ==
  IF Colons(name) # 0 \/ argc = 0 THEN name ELSE ColonsPlaced(name, argc)

\* _XJSSearchSelector.  (For the empty name with arguments the code reads the character
\* in front of its buffer.)
SearchSelector(name, argc) ==
  IF Colons(name) # 0 THEN IF Colons(name) = argc THEN name ELSE NoSelector
  ELSE IF argc = 0 THEN name
  ELSE ColonsPlaced(name, argc)

Underscored(sel) == [i \in DOMAIN sel |-> IF sel[i] = ":" THEN "_" ELSE sel[i]]

\* Trailing underscores dropped one only.
BareOfOne(name) == IF Last(name) = "_" THEN Front(name) ELSE name

Bare(name) == SubSeq(name, 1, Max({0} \cup {i \in DOMAIN name : name[i] # "_"}))

\* XJSSearchProperty: the first of three names that the JS object has as a property.
PropertyNames(sel) == <<sel, Underscored(sel), Bare(Underscored(sel))>>

SearchProperty(properties, sel) ==
  LET has == {i \in 1..3 : PropertyNames(sel)[i] \in properties} IN
    IF has = {} THEN NoSelector ELSE PropertyNames(sel)[Min(has)]

-----------------------------------------------------------------------------
(***************************************************************************)
(* What XJSHelperFunctions.hh promises, to state properties with.          *)
(***************************************************************************)

\* A selector as the compiler takes it, without what the list of exceptions names (an
\* underscore after the first colon, a colon in front, an underscore together with more
\* than one colon at the end, an underscore at the end), and without a first word of
\* one character that another follows: the list ends with "many other nonsense", but
\* a:b: is a plain selector.
Standard(sel) ==
  LET letters == Occurrences(sel, Letter)
      stem    == SubSeq(sel, 1, Max({0} \cup letters))
      colons  == Len(sel) - Len(stem) IN
    /\ letters # {}
    /\ \A i \in Occurrences(sel, ":") : Min(letters) < i
    /\ \A i \in (Len(stem) + 1)..Len(sel) : sel[i] = ":"
    /\ Colons(sel) > 0 => colons > 0
    /\ \A i \in Occurrences(sel, ":"), j \in Occurrences(sel, "_") : j < i
    /\ Occurrences(sel, "_") # {} => colons <= 1
    /\ sel[1] = Letter /\ Len(sel) > 2 => sel[2] = Letter

\* The names a script may use for a selector.
Names(sel) == {PropertyNames(sel)[i] : i \in 1..3}
=============================================================================
