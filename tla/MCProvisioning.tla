--------------------------- MODULE MCProvisioning ---------------------------
EXTENDS Provisioning

CONSTANTS c1, c2

Genesis(v, x, c) ==
  [valid |-> v, orderers |-> <<"org">>, applications |-> <<>>,
   parties |-> << <<"node">> >>, complete |-> x, config |-> c]

X509   == [valid |-> TRUE, idemix |-> "none"]
Idemix == [valid |-> TRUE, idemix |-> "enabled"]
Wrong  == [valid |-> FALSE, idemix |-> "none"]

Deployed(c) ==
  [mode |-> "deploy", enrolment |-> {"sign"}, resolver |-> TRUE, config |-> c]

Authority(i, x, c) == [config |-> c, ingress |-> i, idemix |-> x]

MCSpecs ==
  [genesis      |-> {Genesis(TRUE, TRUE, c1), Genesis(TRUE, TRUE, c2),
                    Genesis(FALSE, TRUE, c1), Genesis(TRUE, FALSE, c1),
                    [Genesis(TRUE, TRUE, c1) EXCEPT !.orderers = <<>>,
                                                    !.applications = <<"org">>]},
   identity     |-> {X509, Idemix, Wrong},
   caenrollment |-> {"enrolled"},
   endorser     |-> {Deployed(c1), Deployed(c2)},
   ca           |-> {Authority("gateway", FALSE, c1), Authority("bare", TRUE, c1),
                     Authority("gateway", FALSE, c2)}]

MCNeeds ==
  [genesis      |-> {"node", "org"},
   identity     |-> {"ca"},
   caenrollment |-> {"ca"},
   endorser     |-> {"ca", "resolver"},
   ca           |-> {}]

MCObject ==
  {"block", "secret", "idemix", "sign", "tls", "msp", "tlsca", "config",
   "pvc", "service", "ingress", "deployment", "account", "job"}

MCInput == {"node", "org", "ca", "resolver"}

MCLagging ==
  [genesis      |-> {"block"},
   identity     |-> {"secret"},
   caenrollment |-> {"secret"},
   endorser     |-> {"sign"},
   ca           |-> {"config"}]

MCTroubles ==
  [genesis      |-> Faults \cup {"edit", "recreate", "renew"},
   identity     |-> Faults \cup {"edit", "recreate", "lose"},
   caenrollment |-> Faults \cup {"recreate", "touch", "lose", "expire"},
   endorser     |-> {"status", "write", "crash", "edit"},
   ca           |-> {"status", "write", "edit"}]
=============================================================================
