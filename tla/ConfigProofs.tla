---------------------------- MODULE ConfigProofs ----------------------------
(***************************************************************************)
(* What a configuration file means does not depend on the order in which   *)
(* the hash maps of Ini hand out its options: the loops of get_keys and    *)
(* get_resources compute what KeysOf and ResourcesOf say of the set of     *)
(* names alone, for every file.                                            *)
(***************************************************************************)
EXTENDS Config, FiniteSetTheorems, TLAPS

-----------------------------------------------------------------------------
(* Loops *)

\* A nonempty set of numbers has a least element.
LEMMA LeastNumber ==
    ASSUME NEW T, T \subseteq Nat, T # {}
    PROVE  \E n \in T : \A m \in T : n <= m
<1>1. \E x \in T : \A y \in T : <<y, x>> \notin OpToRel(<, Nat)
  BY NatLessThanWellFounded, WFMin
<1>2. PICK x \in T : \A y \in T : <<y, x>> \notin OpToRel(<, Nat)
  BY <1>1
<1>3. \A y \in T : ~(y < x)
  BY <1>2 DEF OpToRel
<1>4. \A y \in T : x <= y
  <2> TAKE y \in T
  <2>1. x \in Nat /\ y \in Nat
    OBVIOUS
  <2> QED BY <2>1, <1>3
<1> QED BY <1>4

\* Induction over the rounds of a loop. The rounds after which the claim holds
\* are a set, so that the lemma can be used for any claim.
LEMMA Rounds ==
    ASSUME NEW n \in Nat, NEW S, 0 \in S,
           \A i \in 1..n : i - 1 \in S => i \in S
    PROVE  0..n \subseteq S
<1> SUFFICES ASSUME (0..n) \ S # {} PROVE FALSE
  OBVIOUS
<1> DEFINE T == (0..n) \ S
<1>1. PICK m \in T : \A k \in T : m <= k
  BY LeastNumber, T \subseteq Nat
<1>2. m # 0 /\ m - 1 \in 0..n /\ m - 1 \notin T
  BY <1>1
<1> QED BY <1>1, <1>2

\* One round of each of the three loops.
Round(loop, section, acc, x) ==
    CASE loop = "lines" -> ParseLine(acc, x)
      [] loop = "keys" -> AddKey(section, acc, x)
      [] loop = "resources" -> AddResource(section, acc, x)

\* f holds the values that the accumulator has in the first n rounds.
IsRun(f, n, loop, section, base, seq) ==
    f = [i \in 0..n |-> IF i = 0 THEN base ELSE Round(loop, section, f[i - 1], seq[i])]

\* The loops are defined: there is such an f.
LEMMA RunExists ==
    ASSUME NEW loop, NEW section, NEW base, NEW seq, NEW n \in Nat
    PROVE  \E f : IsRun(f, n, loop, section, base, seq)
<1> DEFINE S == {m \in 0..n : \E f : IsRun(f, m, loop, section, base, seq)}
<1>1. 0 \in S
  <2>1. IsRun([i \in 0..0 |-> base], 0, loop, section, base, seq)
    BY DEF IsRun
  <2> QED BY <2>1
<1>2. ASSUME NEW m \in 1..n, m - 1 \in S
      PROVE  m \in S
  <2>1. PICK f : IsRun(f, m - 1, loop, section, base, seq)
    BY <1>2
  <2> DEFINE g == [i \in 0..m |-> IF i < m THEN f[i] ELSE Round(loop, section, f[m - 1], seq[m])]
  <2>2. \A i \in 0..m :
           g[i] = IF i = 0 THEN base ELSE Round(loop, section, g[i - 1], seq[i])
    <3> TAKE i \in 0..m
    <3>1. CASE i = m
      <4>1. g[i - 1] = f[m - 1] /\ g[i] = Round(loop, section, f[m - 1], seq[m])
        BY <3>1
      <4> QED BY <4>1, <3>1
    <3>2. CASE i < m
      <4>1. i \in 0..(m - 1) /\ g[i] = f[i]
        BY <3>2
      <4>2. f[i] = IF i = 0 THEN base ELSE Round(loop, section, f[i - 1], seq[i])
        BY <2>1, <4>1 DEF IsRun
      <4>3. i # 0 => g[i - 1] = f[i - 1]
        BY <4>1
      <4> QED BY <4>1, <4>2, <4>3
    <3> QED BY <3>1, <3>2
  <2>3. IsRun(g, m, loop, section, base, seq)
    BY <2>2 DEF IsRun
  <2> QED BY <2>3
<1>3. 0..n \subseteq S
  BY <1>1, <1>2, Rounds
<1> QED BY <1>3

\* What the first i rounds of a loop have seen.
Seen(order, i) == {order[j] : j \in 1..i}

\* An iteration over a section sees every name once.
LEMMA Iteration ==
    ASSUME NEW names, IsFiniteSet(names), NEW order \in SetToSeqs(names)
    PROVE  /\ Len(order) \in Nat
           /\ Seen(order, 0) = {}
           /\ Seen(order, Len(order)) = names
           /\ \A i \in 1..Len(order) :
                 /\ order[i] \notin Seen(order, i - 1)
                 /\ Seen(order, i) = Seen(order, i - 1) \cup {order[i]}
<1> DEFINE n == Cardinality(names)
<1>1. n \in Nat
  BY FS_CardinalityType
<1>2. order \in [1..n -> names] /\ \A i, j \in 1..n : i # j => order[i] # order[j]
  BY DEF SetToSeqs
<1> HIDE DEF n
<1>3. Len(order) = n
  BY <1>1, <1>2
<1>4. order \in Injection(1..n, names)
  BY <1>2 DEF Injection, IsInjective
<1>5. Cardinality(1..n) = n
  BY <1>1, FS_Interval
<1>6. order \in Surjection(1..n, names)
  BY <1>4, <1>5, FS_Injection DEF n
<1>7. Seen(order, n) = names
  BY <1>2, <1>6 DEF Seen, Surjection
<1>8. Seen(order, 0) = {}
  BY DEF Seen
<1>9. ASSUME NEW i \in 1..n
      PROVE  /\ order[i] \notin Seen(order, i - 1)
             /\ Seen(order, i) = Seen(order, i - 1) \cup {order[i]}
  <2>1. 1..i = 1..(i - 1) \cup {i}
    BY <1>1
  <2>2. \A j \in 1..(i - 1) : j \in 1..n /\ j # i
    BY <1>1
  <2>3. order[i] \notin Seen(order, i - 1)
    BY <2>2, <1>2 DEF Seen
  <2>4. Seen(order, i) = Seen(order, i - 1) \cup {order[i]}
    BY <2>1 DEF Seen
  <2> QED BY <2>3, <2>4
<1> QED BY <1>1, <1>3, <1>7, <1>8, <1>9

-----------------------------------------------------------------------------
(* The keys *)

KeyOf(section, name) == section[name][1][2][1]

\* Every name and key is good, and no user has two of them.
KeysFit(section, names) ==
    \A n \in names :
        /\ n[1] \in Users /\ KeyOf(section, n) \in Keys
        /\ \A m \in names : m[1] = n[1] => m = n

KeyMap(section, names) ==
    [u \in {n[1] : n \in names} |-> KeyOf(section, CHOOSE n \in names : n[1] = u)]

\* What get_keys makes of the options with the given names, in any order.
KeysOf(section, names) ==
    IF KeysFit(section, names) THEN Ok(KeyMap(section, names)) ELSE Err

LEMMA KeyMapValue ==
    ASSUME NEW section, NEW names, KeysFit(section, names), NEW n \in names
    PROVE  KeyMap(section, names)[n[1]] = KeyOf(section, n)
<1>1. \A m \in names : m[1] = n[1] => m = n
  BY DEF KeysFit
<1>2. (CHOOSE m \in names : m[1] = n[1]) = n
  BY <1>1
<1> QED BY <1>2 DEF KeyMap

\* One round of the loop of get_keys.
LEMMA KeysRound ==
    ASSUME NEW section, NEW names, NEW name, name \notin names
    PROVE  AddKey(section, KeysOf(section, names), name) = KeysOf(section, names \cup {name})
<1> DEFINE more == names \cup {name}
           this == /\ name[1] \in Users /\ KeyOf(section, name) \in Keys
                   /\ \A m \in names : m[1] # name[1]
<1>1. KeysFit(section, more) <=> KeysFit(section, names) /\ this
  BY DEF KeysFit
<1>2. DOMAIN KeyMap(section, names) = {n[1] : n \in names}
  BY DEF KeyMap
<1>3. CASE KeysFit(section, names) /\ this
  <2>1. AddKey(section, KeysOf(section, names), name)
           = Ok(insert(KeyMap(section, names), name[1], KeyOf(section, name)))
    BY <1>2, <1>3 DEF AddKey, KeysOf, Ok, KeyOf
  <2>2. insert(KeyMap(section, names), name[1], KeyOf(section, name)) = KeyMap(section, more)
    <3>1. DOMAIN KeyMap(section, more) = {n[1] : n \in names} \cup {name[1]}
      BY DEF KeyMap
    <3>2. ASSUME NEW u \in {n[1] : n \in names}
          PROVE  KeyMap(section, more)[u] = KeyMap(section, names)[u] /\ u # name[1]
      <4>1. PICK n \in names : u = n[1]
        OBVIOUS
      <4>2. KeyMap(section, more)[n[1]] = KeyOf(section, n)
        BY <1>1, <1>3, KeyMapValue
      <4>3. KeyMap(section, names)[n[1]] = KeyOf(section, n)
        BY <1>3, KeyMapValue
      <4> QED BY <4>1, <4>2, <4>3, <1>3
    <3>3. KeyMap(section, more)[name[1]] = KeyOf(section, name)
      BY <1>1, <1>3, KeyMapValue
    <3>4. KeyMap(section, more) = [u \in DOMAIN KeyMap(section, more) |-> KeyMap(section, more)[u]]
      BY DEF KeyMap
    <3> HIDE DEF more
    <3> QED BY <1>2, <3>1, <3>2, <3>3, <3>4 DEF insert
  <2> QED BY <2>1, <2>2, <1>1, <1>3 DEF KeysOf
<1>4. CASE KeysFit(section, names) /\ ~this
  <2>1. AddKey(section, KeysOf(section, names), name) = Err
    BY <1>2, <1>4 DEF AddKey, KeysOf, Ok, KeyOf
  <2> QED BY <2>1, <1>1, <1>4 DEF KeysOf
<1>5. CASE ~KeysFit(section, names)
  <2>1. AddKey(section, KeysOf(section, names), name) = Err
    BY <1>5 DEF AddKey, KeysOf, Err
  <2> QED BY <2>1, <1>1, <1>5 DEF KeysOf
<1> QED BY <1>3, <1>4, <1>5

LEMMA KeysNone == \A section : KeysOf(section, {}) = Ok(EmptyMap)
<1> TAKE section
<1>1. KeyMap(section, {}) = EmptyMap
  BY DEF KeyMap, EmptyMap
<1> QED BY <1>1 DEF KeysOf, KeysFit

\* get_keys computes KeysOf the names of the section, for every section and
\* every order in which the iterator may go through it.
THEOREM KeysAnyOrder ==
    ASSUME NEW ini, NEW names, IsFiniteSet(names), NEW order \in SetToSeqs(names)
    PROVE  get_keys(ini, order) = KeysOf(ini["KEYS"], names)
<1> DEFINE sec == ini["KEYS"]
           n == Len(order)
           run(f) == f = [i \in 0..n |-> IF i = 0 THEN Ok(EmptyMap)
                                         ELSE AddKey(sec, f[i - 1], order[i])]
           f == CHOOSE f : run(f)
           S == {i \in 0..n : f[i] = KeysOf(sec, Seen(order, i))}
<1>1. n \in Nat
  BY Iteration
<1>2. \E g : IsRun(g, n, "keys", sec, Ok(EmptyMap), order)
  BY <1>1, RunExists
<1>3. \E g : run(g)
  BY <1>2 DEF IsRun, Round
<1>4. run(f)
  BY <1>3
<1>5. get_keys(ini, order) = f[n]
  BY DEF get_keys
<1> HIDE DEF f, sec, n
<1>6. 0 \in S
  <2>1. f[0] = Ok(EmptyMap) /\ 0 \in 0..n
    BY <1>1, <1>4
  <2>2. Seen(order, 0) = {}
    BY Iteration
  <2> QED BY <2>1, <2>2, KeysNone
<1>7. ASSUME NEW i \in 1..n, i - 1 \in S
      PROVE  i \in S
  <2>1. f[i] = AddKey(sec, f[i - 1], order[i])
    BY <1>1, <1>4
  <2>2. f[i - 1] = KeysOf(sec, Seen(order, i - 1))
    BY <1>7
  <2>3. /\ order[i] \notin Seen(order, i - 1)
        /\ Seen(order, i) = Seen(order, i - 1) \cup {order[i]}
    BY Iteration DEF n
  <2>4. f[i] = KeysOf(sec, Seen(order, i))
    BY <2>1, <2>2, <2>3, KeysRound
  <2> QED BY <2>4, <1>1
<1>8. n \in S
  <2> HIDE DEF S
  <2>1. 0..n \subseteq S
    BY <1>1, <1>6, <1>7, Rounds
  <2> QED BY <2>1, <1>1
<1>9. f[n] = KeysOf(sec, names)
  BY <1>8, Iteration DEF n
<1> QED BY <1>5, <1>9 DEF sec

-----------------------------------------------------------------------------
(* The resources *)

PortOf(section, name) == ResourceOf(section[name]).port

\* Every name and text is good, and no two share the identifier or the port.
ResourcesFit(section, names) ==
    \A n \in names :
        /\ n[1] \in Resources /\ ResourceOk(section[n])
        /\ \A m \in names :
              m[1] = n[1] \/ PortOf(section, m) = PortOf(section, n) => m = n

ResourceMap(section, names) ==
    [r \in {n[1] : n \in names} |-> ResourceOf(section[CHOOSE n \in names : n[1] = r])]

\* What get_resources makes of the options with the given names, in any order.
ResourcesOf(section, names) ==
    IF ResourcesFit(section, names) THEN Ok(ResourceMap(section, names)) ELSE Err

LEMMA ResourceMapValue ==
    ASSUME NEW section, NEW names, ResourcesFit(section, names), NEW n \in names
    PROVE  ResourceMap(section, names)[n[1]] = ResourceOf(section[n])
<1>1. \A m \in names : m[1] = n[1] => m = n
  BY DEF ResourcesFit
<1>2. (CHOOSE m \in names : m[1] = n[1]) = n
  BY <1>1
<1> QED BY <1>2 DEF ResourceMap

\* The resources found for a port.
LEMMA ResourceMapPorts ==
    ASSUME NEW section, NEW names, ResourcesFit(section, names), NEW port
    PROVE  WithPort(ResourceMap(section, names), port)
               = {n[1] : n \in {m \in names : PortOf(section, m) = port}}
<1>1. DOMAIN ResourceMap(section, names) = {n[1] : n \in names}
  BY DEF ResourceMap
<1>2. \A n \in names : ResourceMap(section, names)[n[1]].port = PortOf(section, n)
  BY ResourceMapValue DEF PortOf
<1> QED BY <1>1, <1>2 DEF WithPort

\* One round of the loop of get_resources.
LEMMA ResourcesRound ==
    ASSUME NEW section, NEW names, NEW name, name \notin names
    PROVE  AddResource(section, ResourcesOf(section, names), name)
               = ResourcesOf(section, names \cup {name})
<1> DEFINE more == names \cup {name}
           res == ResourceOf(section[name])
           good == name[1] \in Resources /\ ResourceOk(section[name])
           free == \A m \in names : m[1] # name[1] /\ PortOf(section, m) # PortOf(section, name)
<1>1. ResourcesFit(section, more) <=> ResourcesFit(section, names) /\ good /\ free
  BY DEF ResourcesFit
<1>2. DOMAIN ResourceMap(section, names) = {n[1] : n \in names}
  BY DEF ResourceMap
<1>3. ASSUME ResourcesFit(section, names)
      PROVE  free <=> /\ name[1] \notin DOMAIN ResourceMap(section, names)
                      /\ WithPort(ResourceMap(section, names), res.port) = {}
  BY <1>2, <1>3, ResourceMapPorts DEF PortOf
<1>4. CASE ResourcesFit(section, names) /\ good /\ free
  <2>1. AddResource(section, ResourcesOf(section, names), name)
           = Ok(insert(ResourceMap(section, names), name[1], res))
    BY <1>3, <1>4 DEF AddResource, ResourcesOf, Ok
  <2>2. insert(ResourceMap(section, names), name[1], res) = ResourceMap(section, more)
    <3>1. DOMAIN ResourceMap(section, more) = {n[1] : n \in names} \cup {name[1]}
      BY DEF ResourceMap
    <3>2. ASSUME NEW r \in {n[1] : n \in names}
          PROVE  ResourceMap(section, more)[r] = ResourceMap(section, names)[r] /\ r # name[1]
      <4>1. PICK n \in names : r = n[1]
        OBVIOUS
      <4>2. ResourceMap(section, more)[n[1]] = ResourceOf(section[n])
        BY <1>1, <1>4, ResourceMapValue
      <4>3. ResourceMap(section, names)[n[1]] = ResourceOf(section[n])
        BY <1>4, ResourceMapValue
      <4> QED BY <4>1, <4>2, <4>3, <1>4
    <3>3. ResourceMap(section, more)[name[1]] = res
      BY <1>1, <1>4, ResourceMapValue
    <3>4. ResourceMap(section, more)
             = [r \in DOMAIN ResourceMap(section, more) |-> ResourceMap(section, more)[r]]
      BY DEF ResourceMap
    <3> HIDE DEF more, res
    <3> QED BY <1>2, <3>1, <3>2, <3>3, <3>4 DEF insert
  <2> QED BY <2>1, <2>2, <1>1, <1>4 DEF ResourcesOf
<1>5. CASE ResourcesFit(section, names) /\ ~(good /\ free)
  <2>1. AddResource(section, ResourcesOf(section, names), name) = Err
    BY <1>3, <1>5 DEF AddResource, ResourcesOf, Ok
  <2> QED BY <2>1, <1>1, <1>5 DEF ResourcesOf
<1>6. CASE ~ResourcesFit(section, names)
  <2>1. AddResource(section, ResourcesOf(section, names), name) = Err
    BY <1>6 DEF AddResource, ResourcesOf, Err
  <2> QED BY <2>1, <1>1, <1>6 DEF ResourcesOf
<1> QED BY <1>4, <1>5, <1>6

LEMMA ResourcesNone == \A section : ResourcesOf(section, {}) = Ok(EmptyMap)
<1> TAKE section
<1>1. ResourceMap(section, {}) = EmptyMap
  BY DEF ResourceMap, EmptyMap
<1> QED BY <1>1 DEF ResourcesOf, ResourcesFit

\* get_resources computes ResourcesOf the names of the section, for every
\* section and every order in which the iterator may go through it.
THEOREM ResourcesAnyOrder ==
    ASSUME NEW ini, NEW names, IsFiniteSet(names), NEW order \in SetToSeqs(names)
    PROVE  get_resources(ini, order) = ResourcesOf(ini["RESOURCES"], names)
<1> DEFINE sec == ini["RESOURCES"]
           n == Len(order)
           run(f) == f = [i \in 0..n |-> IF i = 0 THEN Ok(EmptyMap)
                                         ELSE AddResource(sec, f[i - 1], order[i])]
           f == CHOOSE f : run(f)
           S == {i \in 0..n : f[i] = ResourcesOf(sec, Seen(order, i))}
<1>1. n \in Nat
  BY Iteration
<1>2. \E g : IsRun(g, n, "resources", sec, Ok(EmptyMap), order)
  BY <1>1, RunExists
<1>3. \E g : run(g)
  BY <1>2 DEF IsRun, Round
<1>4. run(f)
  BY <1>3
<1>5. get_resources(ini, order) = f[n]
  BY DEF get_resources
<1> HIDE DEF f, sec, n
<1>6. 0 \in S
  <2>1. f[0] = Ok(EmptyMap) /\ 0 \in 0..n
    BY <1>1, <1>4
  <2>2. Seen(order, 0) = {}
    BY Iteration
  <2> QED BY <2>1, <2>2, ResourcesNone
<1>7. ASSUME NEW i \in 1..n, i - 1 \in S
      PROVE  i \in S
  <2>1. f[i] = AddResource(sec, f[i - 1], order[i])
    BY <1>1, <1>4
  <2>2. f[i - 1] = ResourcesOf(sec, Seen(order, i - 1))
    BY <1>7
  <2>3. /\ order[i] \notin Seen(order, i - 1)
        /\ Seen(order, i) = Seen(order, i - 1) \cup {order[i]}
    BY Iteration DEF n
  <2>4. f[i] = ResourcesOf(sec, Seen(order, i))
    BY <2>1, <2>2, <2>3, ResourcesRound
  <2> QED BY <2>4, <1>1
<1>8. n \in S
  <2> HIDE DEF S
  <2>1. 0..n \subseteq S
    BY <1>1, <1>6, <1>7, Rounds
  <2> QED BY <2>1, <1>1
<1>9. f[n] = ResourcesOf(sec, names)
  BY <1>8, Iteration DEF n
<1> QED BY <1>5, <1>9 DEF sec

-----------------------------------------------------------------------------
(* Ini, and a configuration that was loaded *)

Finite(sections) == \A s \in DOMAIN sections : IsFiniteSet(DOMAIN sections[s])

\* An error, or sections with finitely many options.
Parsed(acc) ==
    \/ acc = Err
    \/ \E sections, inside :
          acc = Ok([sections |-> sections, inside |-> inside]) /\ Finite(sections)

\* One round of the loop of parse_str.
LEMMA ParseRound ==
    ASSUME NEW acc, NEW line, Parsed(acc)
    PROVE  Parsed(ParseLine(acc, line))
<1>1. CASE acc = Err
  <2>1. ParseLine(acc, line) = Err
    BY <1>1 DEF ParseLine, Err
  <2> QED BY <2>1 DEF Parsed
<1>2. ASSUME NEW sections, NEW inside, Finite(sections),
             acc = Ok([sections |-> sections, inside |-> inside])
      PROVE  Parsed(ParseLine(acc, line))
  <2>1. acc.ok /\ acc.val.sections = sections /\ acc.val.inside = inside
    BY <1>2 DEF Ok
  <2>2. CASE line.kind = "section" /\ line.name[1] \notin DOMAIN sections
    <3> DEFINE new == insert(sections, line.name[1], EmptyMap)
    <3>1. ParseLine(acc, line) = Ok([sections |-> new, inside |-> <<line.name[1]>>])
      BY <2>1, <2>2 DEF ParseLine
    <3>2. DOMAIN EmptyMap = {}
      BY DEF EmptyMap
    <3>3. Finite(new)
      BY <1>2, <3>2, FS_EmptySet DEF Finite, insert
    <3> HIDE DEF new
    <3> QED BY <3>1, <3>3 DEF Parsed
  <2>3. CASE line.kind = "option" /\ inside # <<>>
    <3> DEFINE at == insert(sections[inside[1]], line.name, line.value)
               new == [sections EXCEPT ![inside[1]] = at]
    <3>1. ParseLine(acc, line) = Ok([acc.val EXCEPT !.sections = new])
      BY <2>1, <2>3 DEF ParseLine
    <3>2. [acc.val EXCEPT !.sections = new] = [sections |-> new, inside |-> inside]
      BY <1>2 DEF Ok
    <3>3. Finite(new)
      <4>1. DOMAIN new = DOMAIN sections
        OBVIOUS
      <4>2. \A s \in DOMAIN sections : new[s] = IF s = inside[1] THEN at ELSE sections[s]
        OBVIOUS
      <4>3. DOMAIN at = DOMAIN sections[inside[1]] \cup {line.name}
        BY DEF insert
      <4>4. inside[1] \in DOMAIN sections => IsFiniteSet(DOMAIN at)
        BY <1>2, <4>3, FS_AddElement DEF Finite
      <4> HIDE DEF new, at
      <4> QED BY <1>2, <4>1, <4>2, <4>4 DEF Finite
    <3> HIDE DEF new
    <3> QED BY <3>1, <3>2, <3>3 DEF Parsed
  <2>4. CASE ~(\/ line.kind = "section" /\ line.name[1] \notin DOMAIN sections
               \/ line.kind = "option" /\ inside # <<>>)
    <3>1. ParseLine(acc, line) = Err
      BY <2>1, <2>4 DEF ParseLine
    <3> QED BY <3>1 DEF Parsed
  <2> QED BY <2>2, <2>3, <2>4
<1> QED BY <1>1, <1>2 DEF Parsed

LEMMA ParsedFile ==
    ASSUME NEW lines, Len(lines) \in Nat
    PROVE  Parsed(parse_str(lines))
<1> DEFINE n == Len(lines)
           none == Ok([sections |-> EmptyMap, inside |-> <<>>])
           run(f) == f = [i \in 0..n |-> IF i = 0 THEN none ELSE ParseLine(f[i - 1], lines[i])]
           f == CHOOSE f : run(f)
           S == {i \in 0..n : Parsed(f[i])}
<1>1. \E g : IsRun(g, n, "lines", "none", none, lines)
  BY RunExists
<1>2. \E g : run(g)
  BY <1>1 DEF IsRun, Round
<1>3. run(f)
  BY <1>2
<1>4. parse_str(lines) = f[n]
  BY DEF parse_str
<1>5. Parsed(none)
  <2>1. Finite(EmptyMap)
    BY DEF Finite, EmptyMap
  <2> QED BY <2>1 DEF Parsed
<1> HIDE DEF f, none, n
<1>6. n \in Nat
  BY DEF n
<1>7. 0 \in S
  BY <1>3, <1>5, <1>6
<1>8. ASSUME NEW i \in 1..n, i - 1 \in S
      PROVE  i \in S
  <2>1. f[i] = ParseLine(f[i - 1], lines[i])
    BY <1>3, <1>6
  <2> QED BY <2>1, <1>8, <1>6, ParseRound
<1>9. n \in S
  <2> HIDE DEF S
  <2>1. 0..n \subseteq S
    BY <1>6, <1>7, <1>8, Rounds
  <2> QED BY <2>1, <1>6
<1> QED BY <1>4, <1>9

\* The names that the iterator over a section hands out.
Names(ini, section) == DOMAIN SectionOf(ini, section)

LEMMA NamesFinite ==
    ASSUME NEW ini, Finite(ini), NEW section
    PROVE  IsFiniteSet(Names(ini, section))
<1>1. DOMAIN EmptyMap = {}
  BY DEF EmptyMap
<1> QED BY <1>1, FS_EmptySet DEF Names, SectionOf, Finite

\* What load_ini returns, without an order.
IniOf(ini, variant) ==
    LET port == get_port(ini)
        keys == KeysOf(ini["KEYS"], Names(ini, "KEYS"))
        resources == ResourcesOf(ini["RESOURCES"], Names(ini, "RESOURCES"))
        user == IF variant = "Client" THEN get_default_user(ini) ELSE Ok(DefaultUser)
    IN  IF port.ok /\ keys.ok /\ resources.ok /\ user.ok /\ PlainOptionsParse(ini, variant)
        THEN Ok([port |-> port.val, keys |-> keys.val,
                 resources |-> resources.val, user |-> user.val])
        ELSE Err

LEMMA IniAnyOrder ==
    ASSUME NEW ini, Finite(ini), NEW variant,
           NEW k \in options_iter(ini, "KEYS"), NEW r \in options_iter(ini, "RESOURCES")
    PROVE  load_ini(ini, variant, k, r) = IniOf(ini, variant)
<1>1. get_keys(ini, k) = KeysOf(ini["KEYS"], Names(ini, "KEYS"))
  BY NamesFinite, KeysAnyOrder DEF options_iter, Names
<1>2. get_resources(ini, r) = ResourcesOf(ini["RESOURCES"], Names(ini, "RESOURCES"))
  BY NamesFinite, ResourcesAnyOrder DEF options_iter, Names
<1> QED BY <1>1, <1>2 DEF load_ini, IniOf

\* What Config::load returns for a file, without an order.
ConfigOf(file, variant) ==
    LET ini == IF file.readable THEN parse_str(file.lines) ELSE Err
    IN  IF ini.ok THEN IniOf(ini.val.sections, variant)
        ELSE IF variant = "Client" THEN Ok(NewConfig) ELSE Err

\* Whether Config::load accepts a file, and what the file means, is the same
\* for every order in which the hash maps hand out its options.
THEOREM LoadAnyOrder ==
    ASSUME NEW file \in File, NEW variant \in {"Client", "Server"},
           NEW l \in load(file, variant)
    PROVE  l = ConfigOf(file, variant)
<1> DEFINE ini == IF file.readable THEN parse_str(file.lines) ELSE Err
<1>1. Len(file.lines) \in Nat
  BY DEF File
<1>2. Parsed(ini)
  BY <1>1, ParsedFile DEF Parsed
<1>3. /\ ini.ok \in BOOLEAN
      /\ ini.ok => Finite(ini.val.sections)
  <2> HIDE DEF ini
  <2>1. CASE ini = Err
    BY <2>1 DEF Err
  <2>2. ASSUME NEW sections, NEW inside, Finite(sections),
               ini = Ok([sections |-> sections, inside |-> inside])
        PROVE  ini.ok = TRUE /\ Finite(ini.val.sections)
    <3>1. ini.ok = TRUE /\ ini.val.sections = sections
      BY <2>2 DEF Ok
    <3> QED BY <3>1, <2>2
  <2> QED BY <2>1, <2>2, <1>2 DEF Parsed
<1>4. CASE ini.ok
  <2>1. load(file, variant) = {load_ini(ini.val.sections, variant, k, r) :
                                  k \in options_iter(ini.val.sections, "KEYS"),
                                  r \in options_iter(ini.val.sections, "RESOURCES")}
    BY <1>4 DEF load
  <2>2. ConfigOf(file, variant) = IniOf(ini.val.sections, variant)
    BY <1>4 DEF ConfigOf
  <2> HIDE DEF ini
  <2> QED BY <2>1, <2>2, <1>3, <1>4, IniAnyOrder
<1>5. CASE ~ini.ok
  BY <1>5 DEF load, ConfigOf
<1> QED BY <1>3, <1>4, <1>5

\* A configuration with which a command can be run.
ConfigOk(c) ==
    /\ c.port \in (SUBSET {"tcp", "udp"}) \ {{}}
    /\ c.user \in Users
    /\ DOMAIN c.keys \subseteq Users /\ DOMAIN c.resources \subseteq Resources
    /\ \A port \in Ports : \A r, s \in WithPort(c.resources, port) : r = s

LEMMA NewConfigOk == ConfigOk(NewConfig)
<1>1. DOMAIN EmptyMap = {}
  BY DEF EmptyMap
<1> QED BY <1>1, ConfAssumption DEF ConfigOk, NewConfig, WithPort

LEMMA IniOk ==
    ASSUME NEW ini, NEW variant
    PROVE  \/ IniOf(ini, variant) = Err
           \/ \E c : IniOf(ini, variant) = Ok(c) /\ ConfigOk(c)
<1> DEFINE port == get_port(ini)
           keys == KeysOf(ini["KEYS"], Names(ini, "KEYS"))
           resources == ResourcesOf(ini["RESOURCES"], Names(ini, "RESOURCES"))
           user == IF variant = "Client" THEN get_default_user(ini) ELSE Ok(DefaultUser)
           c == [port |-> port.val, keys |-> keys.val,
                 resources |-> resources.val, user |-> user.val]
<1>1. port.ok => port.val \in (SUBSET {"tcp", "udp"}) \ {{}}
  <2>1. \A items : ProtosOf(items) \in (SUBSET {"tcp", "udp"}) \ {{}}
    <3> TAKE items
    <3> DEFINE all == UNION {ToSet(items[i][2]) : i \in {j \in DOMAIN items : items[j][1] = ""}}
    <3>1. ProtosOf(items) = IF all \cap {"tcp", "udp"} = {} THEN {"tcp"} ELSE all \cap {"tcp", "udp"}
      BY DEF ProtosOf
    <3> HIDE DEF all
    <3> QED BY <3>1
  <2> QED BY <2>1 DEF get_port, Ok, Err
<1>2. keys.ok => DOMAIN keys.val \subseteq Users
  BY DEF KeysOf, KeysFit, KeyMap, Ok, Err
<1>3. resources.ok => /\ DOMAIN resources.val \subseteq Resources
                      /\ \A p \in Ports : \A r, s \in WithPort(resources.val, p) : r = s
  <2> DEFINE sec == ini["RESOURCES"]
             names == Names(ini, "RESOURCES")
  <2> SUFFICES ASSUME resources.ok
               PROVE  /\ DOMAIN resources.val \subseteq Resources
                      /\ \A p \in Ports : \A r, s \in WithPort(resources.val, p) : r = s
    OBVIOUS
  <2>1. ResourcesFit(sec, names) /\ resources.val = ResourceMap(sec, names)
    BY DEF ResourcesOf, Ok, Err
  <2> HIDE DEF resources, sec, names
  <2>2. DOMAIN resources.val \subseteq Resources
    BY <2>1 DEF ResourceMap, ResourcesFit
  <2>3. ASSUME NEW p \in Ports PROVE \A r, s \in WithPort(resources.val, p) : r = s
    BY <2>1, ResourceMapPorts DEF ResourcesFit
  <2> QED BY <2>2, <2>3
<1>4. user.ok => user.val \in Users
  BY ConfAssumption DEF get_default_user, Ok, Err
<1>5. IniOf(ini, variant) = Err
      \/ /\ port.ok /\ keys.ok /\ resources.ok /\ user.ok
         /\ IniOf(ini, variant) = Ok(c)
  BY DEF IniOf
<1> HIDE DEF port, keys, resources, user
<1>6. port.ok /\ keys.ok /\ resources.ok /\ user.ok => ConfigOk(c)
  BY <1>1, <1>2, <1>3, <1>4 DEF ConfigOk
<1> QED BY <1>5, <1>6

\* Whatever is accepted has a protocol for the control port and at most one
\* resource for a port.
THEOREM AcceptedOk ==
    ASSUME NEW file, NEW variant
    PROVE  \/ ConfigOf(file, variant) = Err
           \/ /\ ConfigOf(file, variant) = Ok(ConfigOf(file, variant).val)
              /\ ConfigOk(ConfigOf(file, variant).val)
<1>1. \/ ConfigOf(file, variant) = Err
      \/ \E c : ConfigOf(file, variant) = Ok(c) /\ ConfigOk(c)
  BY IniOk, NewConfigOk DEF ConfigOf
<1> QED BY <1>1 DEF Ok
=============================================================================
