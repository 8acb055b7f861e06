---------------------------- MODULE MCPodInjection ----------------------------
EXTENDS PodInjection

MCText == STRING

Setup(b) == [strict |-> b, failClosed |-> b, legacy |-> b]
MCSetups == {Setup(FALSE), Setup(TRUE)}

Policy(mode, audit, stats, command, r) ==
    [mode |-> mode, audit |-> audit, stats |-> stats, command |-> command, rules |-> r, uid |-> 0]

\* Every injection mode, and two policies that differ in their rules only.
MCPolicies ==
    { Policy("", FALSE, FALSE, FALSE, 1), Policy("file", FALSE, TRUE, FALSE, 2),
      Policy("file", TRUE, FALSE, FALSE, 0), Policy("pipe", FALSE, FALSE, FALSE, 1),
      Policy("pipe", TRUE, FALSE, TRUE, 2), Policy("ebpf", TRUE, FALSE, FALSE, 1),
      Policy("ebpf", FALSE, FALSE, FALSE, 1), Policy("unknown", FALSE, FALSE, FALSE, 1) }

Template(inject, target, containers) ==
    [inject |-> inject, target |-> target, containers |-> containers, inits |-> <<>>,
     volumes |-> <<"own">>, sharedPids |-> FALSE]

MCTemplates ==
    LET app   == AppContainer("app", "own")
        image == AppContainer("app", "image")
        other == AppContainer("other", "image")
    IN  { Template(FALSE, None, <<app>>), Template(TRUE, None, <<app>>), Template(TRUE, None, <<image>>),
          Template(TRUE, None, <<app, other>>), Template(TRUE, "other", <<app, other>>),
          Template(TRUE, "third", <<app, other>>) }
=============================================================================
