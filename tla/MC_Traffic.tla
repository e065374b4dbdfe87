---------------------------- MODULE MC_Traffic ----------------------------
\* State's defaults, scaled down, and one setting or two of them altered at a time.
EXTENDS Traffic

Usual == [alphaOver1 |-> TRUE, qtypes |-> {"A", "TXT"}, cidrOk |-> TRUE,
          family |-> "mixed", dgaMin |-> 8, dgaMax |-> 10,
          tool |-> "dnscat2", payload |-> 0,
          records |-> {"TXT", "CNAME", "NULL"}, exoMin |-> 32, exoMax |-> 34,
          profile |-> "medium", zone |-> 30]

MCKnobSpace ==
    {[Usual EXCEPT !.tool = t, !.payload = n, !.profile = p] :
        t \in Tools, n \in {0, 31, 60, 200}, p \in Profiles}
    \cup {[Usual EXCEPT !.dgaMin = r[1], !.dgaMax = r[2], !.family = f] :
        r \in {<<8, 8>>, <<-1, 1>>, <<0, 1>>, <<20, 12>>, <<62, 66>>}, f \in Families}
    \cup {[Usual EXCEPT !.exoMin = r[1], !.exoMax = r[2], !.records = t] :
        r \in {<<-2, 1>>, <<63, 63>>, <<254, 258>>, <<65534, 65538>>},
        t \in {{}, {"CNAME"}, {"NULL"}, {"TXT", "CNAME"}}}
    \cup {[Usual EXCEPT !.zone = z, !.tool = t, !.qtypes = {"A", "CNAME", "MX", "NS"}] :
        z \in {191, 192, 242, 255, 256}, t \in {"dnscat2", "iodine"}}
    \cup {[Usual EXCEPT !.alphaOver1 = FALSE], [Usual EXCEPT !.cidrOk = FALSE],
          [Usual EXCEPT !.qtypes = {}], [Usual EXCEPT !.qtypes = {"A", "NULL"}]}

\* realistic.json, which is also what minimal.json leaves, and chaos.json.
Realistic == [Usual EXCEPT !.qtypes = Qtypes \ {"NULL"}, !.dgaMax = 24,
                           !.payload = 524288, !.exoMax = 480]
Chaos == [Realistic EXCEPT !.dgaMin = 6, !.dgaMax = 32, !.payload = 1048576,
                           !.exoMin = 200, !.exoMax = 800, !.profile = "heavy"]
PresetKnobs == {Realistic, Chaos}

MCPoolSizes == [background |-> 6, dga |-> 3, exotic |-> 2]
=============================================================================
