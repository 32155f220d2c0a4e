------------------------------ MODULE MCClient ------------------------------
(***************************************************************************)
(* Files and options for TLC: every combination of options with one good   *)
(* file, a few options with files that vary one section of it, and the     *)
(* protocol options with every setting of the control port in the file.    *)
(***************************************************************************)
EXTENDS Client

Entry(word, spelling, value) == Option(<<word, spelling>>, value)

FileOf(port, user, keys, resources) ==
    [readable |-> TRUE,
     lines |-> <<Section("GENERAL")>> \o port \o <<Section("CLIENT")>> \o user
               \o <<Section("KEYS")>> \o keys \o <<Section("RESOURCES")>> \o resources]

\* The texts of resources: plain, restricted to u1, with both protocols, on
\* another port, without a port, with two ports, with an unknown protocol.
Ssh == << <<"port", <<"ssh">>>> >>
Texts == {
    Ssh,
    Ssh \o << <<"users", <<"u1">>>> >>,
    << <<"port", <<"web">>>>, <<"", <<"tcp", "udp">>>> >>,
    << <<"", <<"udp">>>> >>,
    Ssh \o << <<"port", <<"web">>>> >>,
    Ssh \o << <<"", <<"bad">>>> >> }

PortTexts == BoundedSeq({<<"", <<"num">>>>, <<"", <<"tcp">>>>, <<"", <<"udp">>>>,
    <<"", <<"udp", "tcp">>>>, <<"", <<"num", "tcp">>>>, <<"num", <<"tcp">>>>}, 2) \ {<<>>}

GoodKeys == <<Entry("u0", 0, Word("k0")), Entry("u1", 0, Word("k1"))>>
GoodResources == <<Entry("r1", 0, Ssh), Entry("r2", 0, << <<"port", <<"web">>>>, <<"users", <<"u1">>>> >>)>>
GoodFile == FileOf(<<>>, <<>>, GoodKeys, GoodResources)

Files ==
    {FileOf(<<>>, <<>>, GoodKeys, r) :
        r \in BoundedSeq({Entry(n[1], n[2], t) :
                              n \in {<<"r1", 0>>, <<"r1", 1>>, <<"r2", 0>>}, t \in Texts}
                         \cup {Entry("bad", 0, Ssh)}, 2)}
    \cup {FileOf(<<>>, <<>>, k, GoodResources) :
        k \in BoundedSeq({Entry(n[1], n[2], Word(t)) :
                              n \in {<<"u0", 0>>, <<"u0", 1>>, <<"u1", 0>>, <<"bad", 0>>},
                              t \in {"k0", "k1", "zeros"}}, 2)}
    \cup {FileOf(<<Entry("port", 0, t)>>, u, GoodKeys, GoodResources) :
        t \in PortTexts, u \in {<<>>, <<Entry("default-user", 0, Word("u1"))>>,
                                <<Entry("default-user", 0, Word("bad"))>>}}
    \cup {FileOf(<<Entry("debug", 0, Word(w))>>, <<>>, GoodKeys, GoodResources) : w \in {"on", "bad"}}
    \cup {[GoodFile EXCEPT !.readable = FALSE],
          [GoodFile EXCEPT !.lines = @ \o <<Junk>>],
          [GoodFile EXCEPT !.lines = @ \o <<Section("KEYS")>>],
          [GoodFile EXCEPT !.lines = Tail(@)],
          [GoodFile EXCEPT !.lines = <<Entry("debug", 0, Word("on"))>> \o @]}

OptionsOf(hosts, users, flags) ==
    [host : hosts, port : Ports, user : users,
     ipv4 : flags, ipv6 : flags, tcp : flags, udp : flags]

MCCases ==
    ({GoodFile} \X OptionsOf({"name", "Ipv4", "Ipv6"}, Users \cup {NoUser}, BOOLEAN))
    \cup (Files \X OptionsOf({"name"}, {NoUser}, {FALSE}))
    \cup ({FileOf(<<Entry("port", 0, t)>>, <<>>, GoodKeys, GoodResources) : t \in PortTexts}
          \X {o \in OptionsOf({"name"}, {NoUser}, BOOLEAN) : ~o.ipv4 /\ ~o.ipv6})
=============================================================================
