------------------------------- MODULE Config -------------------------------
(***************************************************************************)
(* letmein-conf: what a configuration file means. A file is a sequence of  *)
(* lines; Ini keeps each section in a hash map, so that the getters see    *)
(* the options of a section in an arbitrary order.                         *)
(*                                                                         *)
(* Text is abstracted to what the parsers tell apart. The name of an       *)
(* option is a pair <<word, spelling>>: identifiers are hexadecimal        *)
(* numbers, and "1" and "00000001" are two names for one of them. The      *)
(* value of an option is the sequence of its items (separated by "/"), an  *)
(* item is <<key, values>>, with the key "" where there is no colon.       *)
(* "bad" is a word that no parser accepts.                                 *)
(***************************************************************************)
EXTENDS Naturals, Sequences, SequencesExt

CONSTANTS
    Users,       \* words that are user identifiers
    Resources,   \* words that are resource identifiers
    Ports,       \* words that are port numbers
    Keys,        \* words that are keys, neither all zeros nor all ones
    DefaultUser, \* user 00000000
    NoResource   \* the result of a lookup that finds nothing

ASSUME ConfAssumption == DefaultUser \in Users /\ NoResource \notin Resources

Word(w) == << <<"", <<w>>>> >>

\* A getter returns Ok(v) or Err. The value of an error is never looked at.
Ok(v) == [ok |-> TRUE, val |-> v]
Err == [ok |-> FALSE]
EmptyMap == <<>>

\* HashMap::insert.
insert(map, key, value) ==
    [k \in DOMAIN map \cup {key} |-> IF k = key THEN value ELSE map[k]]

-----------------------------------------------------------------------------
(* Ini *)

\* What a file may contain.
Line == [kind : {"section", "option", "junk"}, name : STRING \X Nat,
         value : Seq(STRING \X Seq(STRING))]
File == [readable : BOOLEAN, lines : Seq(Line)]

Section(name) == [kind |-> "section", name |-> <<name, 0>>, value |-> <<>>]
Option(name, value) == [kind |-> "option", name |-> name, value |-> value]
Junk == [kind |-> "junk", name |-> <<"", 0>>, value |-> <<>>]

\* A line after the ones that gave acc. A second option of the same name
\* replaces the first; a second section of the same name is an error.
ParseLine(acc, line) ==
    CASE ~acc.ok -> Err
      [] acc.ok /\ line.kind = "section" ->
            IF line.name[1] \in DOMAIN acc.val.sections THEN Err
            ELSE Ok([sections |-> insert(acc.val.sections, line.name[1], EmptyMap),
                     inside   |-> <<line.name[1]>>])
      [] acc.ok /\ line.kind = "option" /\ acc.val.inside # <<>> ->
            Ok([acc.val EXCEPT !.sections[acc.val.inside[1]] =
                                   insert(@, line.name, line.value)])
      [] OTHER -> Err

parse_str(lines) ==
    LET parsed[i \in 0..Len(lines)] ==
            IF i = 0 THEN Ok([sections |-> EmptyMap, inside |-> <<>>])
            ELSE ParseLine(parsed[i - 1], lines[i])
    IN  parsed[Len(lines)]

SectionOf(ini, name) == IF name \in DOMAIN ini THEN ini[name] ELSE EmptyMap

has(ini, section, option) == <<option, 0>> \in DOMAIN SectionOf(ini, section)
get(ini, section, option) == ini[section][<<option, 0>>]

\* The orders in which the iterator over a section may go.
options_iter(ini, section) == SetToSeqs(DOMAIN SectionOf(ini, section))

-----------------------------------------------------------------------------
(* The getters *)

\* The protocols of the control port; its number is left out.
PortItemOk(item) ==
    /\ item[1] = ""
    /\ item[2] = <<"num">> \/ ToSet(item[2]) \subseteq {"tcp", "udp"}

\* Mutant of ProtosOf: no protocol unless one is named.
ProtosOfNone(items) ==
    (UNION {ToSet(items[i][2]) : i \in {j \in DOMAIN items : items[j][1] = ""}}) \cap {"tcp", "udp"}

ProtosOf(items) ==
    LET given == (UNION {ToSet(items[i][2]) : i \in {j \in DOMAIN items : items[j][1] = ""}})
                     \cap {"tcp", "udp"}
    IN  IF given = {} THEN {"tcp"} ELSE given

get_port(ini) ==
    CASE ~has(ini, "GENERAL", "port") -> Ok({"tcp"})
      [] has(ini, "GENERAL", "port") ->
            LET items == get(ini, "GENERAL", "port")
            IN  IF \A i \in DOMAIN items : PortItemOk(items[i])
                THEN Ok(ProtosOf(items)) ELSE Err

get_default_user(ini) ==
    IF ~has(ini, "CLIENT", "default-user") THEN Ok(DefaultUser)
    ELSE LET user == get(ini, "CLIENT", "default-user")[1][2][1]
         IN  IF user \in Users THEN Ok(user) ELSE Err

\* The options that only have to parse: nothing here depends on their value.
PlainOptions(variant) ==
    ({"GENERAL"} \X {"debug", "control-timeout", "control-error-policy", "seccomp"})
    \cup (IF variant = "Server" THEN {"NFTABLES"} \X {"family", "timeout"} ELSE {})

PlainOptionsParse(ini, variant) ==
    \A o \in PlainOptions(variant) :
        has(ini, o[1], o[2]) => get(ini, o[1], o[2]) # Word("bad")

AddKey(section, acc, name) ==
    LET key == section[name][1][2][1]
    IN  IF acc.ok /\ name[1] \in Users /\ key \in Keys /\ name[1] \notin DOMAIN acc.val
        THEN Ok(insert(acc.val, name[1], key)) ELSE Err

get_keys(ini, order) ==
    LET read[i \in 0..Len(order)] ==
            IF i = 0 THEN Ok(EmptyMap) ELSE AddKey(ini["KEYS"], read[i - 1], order[i])
    IN  read[Len(order)]

Items(items, key) == SelectSeq(items, LAMBDA item : item[1] = key)

ResourceOk(items) ==
    LET port == Items(items, "port")
        users == Items(items, "users")
        values == Items(items, "")
    IN  /\ \A i \in DOMAIN items : items[i][1] \in {"port", "users", ""}
        /\ Len(port) = 1 /\ Len(port[1][2]) = 1 /\ port[1][2][1] \in Ports
        /\ Len(users) <= 1
        /\ \A i \in DOMAIN users : ToSet(users[i][2]) \subseteq Users
        /\ \A i \in DOMAIN values : ToSet(values[i][2]) \subseteq {"tcp", "udp"}

\* An empty list of users stands for everybody (contains_user).
ResourceOf(items) ==
    LET users == Items(items, "users")
    IN  [port   |-> Items(items, "port")[1][2][1],
         protos |-> ProtosOf(items),
         users  |-> IF users = <<>> THEN {} ELSE ToSet(users[1][2])]

\* The resources with a given port, among those read so far.
WithPort(resources, port) == {r \in DOMAIN resources : resources[r].port = port}

\* Mutant of AddResource: a second definition of an identifier replaces the first.
AddResourceReplaces(section, acc, name) ==
    IF ~(acc.ok /\ name[1] \in Resources /\ ResourceOk(section[name])) THEN Err
    ELSE LET res == ResourceOf(section[name])
         IN  IF WithPort(acc.val, res.port) \ {name[1]} = {}
             THEN Ok(insert(acc.val, name[1], res)) ELSE Err

\* Mutant of AddResource: the port is not compared with those of other resources.
AddResourceAnyPort(section, acc, name) ==
    IF ~(acc.ok /\ name[1] \in Resources /\ ResourceOk(section[name])) THEN Err
    ELSE IF name[1] \notin DOMAIN acc.val
         THEN Ok(insert(acc.val, name[1], ResourceOf(section[name]))) ELSE Err

AddResource(section, acc, name) ==
    IF ~(acc.ok /\ name[1] \in Resources /\ ResourceOk(section[name])) THEN Err
    ELSE LET res == ResourceOf(section[name])
         IN  IF name[1] \notin DOMAIN acc.val /\ WithPort(acc.val, res.port) = {}
             THEN Ok(insert(acc.val, name[1], res)) ELSE Err

get_resources(ini, order) ==
    LET read[i \in 0..Len(order)] ==
            IF i = 0 THEN Ok(EmptyMap) ELSE AddResource(ini["RESOURCES"], read[i - 1], order[i])
    IN  read[Len(order)]

-----------------------------------------------------------------------------
(* Config *)

NewConfig ==
    [port |-> {"tcp"}, keys |-> EmptyMap, resources |-> EmptyMap, user |-> DefaultUser]

\* Nothing is assigned before every getter has succeeded.
load_ini(ini, variant, keyOrder, resOrder) ==
    LET port == get_port(ini)
        keys == get_keys(ini, keyOrder)
        resources == get_resources(ini, resOrder)
        user == IF variant = "Client" THEN get_default_user(ini) ELSE Ok(DefaultUser)
    IN  IF port.ok /\ keys.ok /\ resources.ok /\ user.ok /\ PlainOptionsParse(ini, variant)
        THEN Ok([port |-> port.val, keys |-> keys.val,
                 resources |-> resources.val, user |-> user.val])
        ELSE Err

\* What Config::load can return for a new Config: one result for each pair of
\* iteration orders. A client takes a file that is missing, or that Ini cannot
\* parse, for an empty one.
load(file, variant) ==
    LET ini == IF file.readable THEN parse_str(file.lines) ELSE Err
    IN  CASE ini.ok ->
                {load_ini(ini.val.sections, variant, k, r) :
                    k \in options_iter(ini.val.sections, "KEYS"),
                    r \in options_iter(ini.val.sections, "RESOURCES")}
          [] ~ini.ok /\ variant = "Client" -> {Ok(NewConfig)}
          [] ~ini.ok /\ variant = "Server" -> {Err}

contains_user(resource, user) == resource.users = {} \/ user \in resource.users

\* The resources that resource_id_by_port may return: whichever it meets first.
resource_id_by_port(conf, port, user) ==
    LET found == {r \in WithPort(conf.resources, port) : contains_user(conf.resources[r], user)}
    IN  IF found = {} THEN {NoResource} ELSE found
=============================================================================
