--------------------------- MODULE DeploymentProofs ---------------------------
(***************************************************************************)
(* Theorems about Component: a deployment comes into being after its       *)
(* inputs, for any of the nine controllers, any specs and any bounds.      *)
(***************************************************************************)
EXTENDS ComponentProofs

-----------------------------------------------------------------------------
(* The order of the steps                                                   *)

\* The row p of steps does what its ranks say in their order, and the ranks
\* of its steps are a to b, or none.
Row(p, a, b) ==
  /\ p \in Seq(Step) /\ Ordered(p)
  /\ \A i \in 1 .. Len(p) :
       Rank(p[i]) = 0 \/ (a <= Rank(p[i]) /\ Rank(p[i]) <= b)

Has(p, step) == \E i \in 1 .. Len(p) : p[i] = step

LEMMA RankType == \A step \in Step : Rank(step) \in Nat
BY DEF Rank

LEMMA Ranks ==
  /\ \A o \in Object \cup Input : /\ Rank(<<"enrol", o>>) = 1
                                 /\ Rank(<<"store", o>>) = 2
                                 /\ Rank(<<"check", o>>) = 2
                                 /\ Rank(<<"wait", o>>) = 0
  /\ Rank(<<"write", "config">>) = 2 /\ Rank(<<"write", "deployment">>) = 3
  /\ \A o \in Object \cup Input :
       o \notin {"config", "deployment"} => Rank(<<"write", o>>) = 0
BY DEF Rank

\* A row after a row.
LEMMA RowConcat ==
  ASSUME NEW a \in Nat, NEW b \in Nat, NEW c \in Nat, NEW d \in Nat,
         a <= b, b <= c, c <= d,
         NEW p, NEW q, Row(p, a, b), Row(q, c, d)
  PROVE  Row(p \o q, a, d)
<1> DEFINE r == p \o q
           m == Len(p)
           n == Len(q)
<1>1. /\ p \in Seq(Step) /\ q \in Seq(Step) /\ r \in Seq(Step)
      /\ m \in Nat /\ n \in Nat /\ Len(r) = m + n
      /\ \A i \in 1 .. m : r[i] = p[i] /\ p[i] \in Step
      /\ \A i \in m + 1 .. m + n : r[i] = q[i - m]
      /\ \A i \in 1 .. n : q[i] \in Step
  BY DEF Row
<1>2. /\ \A i \in 1 .. m : Rank(r[i]) = Rank(p[i]) /\ Rank(r[i]) \in Nat
      /\ \A i \in m + 1 .. m + n :
           /\ i - m \in 1 .. n
           /\ Rank(r[i]) = Rank(q[i - m]) /\ Rank(r[i]) \in Nat
  <2> HIDE DEF r, m, n
  <2>1. \A i \in m + 1 .. m + n : i - m \in 1 .. n
    BY <1>1
  <2>2. \A i \in m + 1 .. m + n : r[i] \in Step
    BY <1>1, <2>1
  <2>3. \A i \in 1 .. m : r[i] \in Step
    BY <1>1
  <2>4. /\ \A i \in 1 .. m : Rank(r[i]) = Rank(p[i])
        /\ \A i \in m + 1 .. m + n : Rank(r[i]) = Rank(q[i - m])
    BY <1>1, Zenon
  <2>5. QED BY <2>1, <2>2, <2>3, <2>4, RankType
<1>3. /\ \A i \in 1 .. m :
           Rank(r[i]) = 0 \/ (a <= Rank(r[i]) /\ Rank(r[i]) <= b)
      /\ \A i \in m + 1 .. m + n :
           Rank(r[i]) = 0 \/ (c <= Rank(r[i]) /\ Rank(r[i]) <= d)
  <2>1. \A i \in 1 .. m :
          Rank(p[i]) = 0 \/ (a <= Rank(p[i]) /\ Rank(p[i]) <= b)
    BY DEF Row
  <2>2. \A i \in 1 .. n :
          Rank(q[i]) = 0 \/ (c <= Rank(q[i]) /\ Rank(q[i]) <= d)
    BY DEF Row
  <2> HIDE DEF r, m, n
  <2>3. ASSUME NEW i \in m + 1 .. m + n
        PROVE  Rank(r[i]) = 0 \/ (c <= Rank(r[i]) /\ Rank(r[i]) <= d)
    <3>1. i - m \in 1 .. n /\ Rank(r[i]) = Rank(q[i - m])
      BY <1>2
    <3>2. QED BY <2>2, <3>1
  <2>4. \A i \in 1 .. m :
          Rank(r[i]) = 0 \/ (a <= Rank(r[i]) /\ Rank(r[i]) <= b)
    BY <1>2, <2>1
  <2>5. QED BY <2>3, <2>4
<1>4. /\ \A i, j \in 1 .. m :
           i < j /\ Rank(r[j]) # 0 => Rank(r[i]) <= Rank(r[j])
      /\ \A i, j \in m + 1 .. m + n :
           i < j /\ Rank(r[j]) # 0 => Rank(r[i]) <= Rank(r[j])
  <2>1. \A i, j \in 1 .. m :
           i < j /\ Rank(r[j]) # 0 => Rank(r[i]) <= Rank(r[j])
    BY <1>2 DEF Row, Ordered
  <2>2. ASSUME NEW i \in m + 1 .. m + n, NEW j \in m + 1 .. m + n,
               i < j, Rank(r[j]) # 0
        PROVE  Rank(r[i]) <= Rank(r[j])
    <3>1. i - m \in 1 .. n /\ j - m \in 1 .. n /\ i - m < j - m
      BY <1>1, <2>2
    <3>2. Rank(q[i - m]) <= Rank(q[j - m])
      BY <1>2, <2>2, <3>1 DEF Row, Ordered
    <3>3. QED BY <1>2, <3>2
  <2>3. QED BY <2>1, <2>2
<1> HIDE DEF r, m, n
<1>5. \A i \in 1 .. Len(r) : i \in 1 .. m \/ i \in m + 1 .. m + n
  BY <1>1
<1>6. ASSUME NEW i \in 1 .. Len(r), NEW j \in 1 .. Len(r), i < j,
             Rank(r[j]) # 0
      PROVE  Rank(r[i]) <= Rank(r[j])
  <2>1. CASE i \in 1 .. m /\ j \in m + 1 .. m + n
    <3>1. Rank(r[i]) <= b /\ c <= Rank(r[j])
      BY <1>2, <1>3, <1>6, <2>1
    <3>2. QED BY <1>2, <2>1, <3>1
  <2>2. CASE i \in m + 1 .. m + n /\ j \in 1 .. m
    BY <1>1, <1>6, <2>2
  <2>3. QED BY <1>4, <1>5, <1>6, <2>1, <2>2
<1>7. \A i \in 1 .. Len(r) :
        Rank(r[i]) = 0 \/ (a <= Rank(r[i]) /\ Rank(r[i]) <= d)
  BY <1>2, <1>3, <1>5
<1>8. Row(r, a, d)
  BY <1>1, <1>6, <1>7 DEF Row, Ordered
<1>9. QED BY <1>8 DEF r

LEMMA HasConcat ==
  ASSUME NEW p \in Seq(Step), NEW q \in Seq(Step), NEW step,
         Has(p, step) \/ Has(q, step)
  PROVE  Has(p \o q, step)
<1>1. CASE Has(p, step)
  BY <1>1 DEF Has
<1>2. ASSUME NEW i \in 1 .. Len(q), q[i] = step PROVE Has(p \o q, step)
  <2>1. /\ Len(p) + i \in 1 .. Len(p \o q)
        /\ (p \o q)[Len(p) + i] = step
    BY <1>2
  <2>2. QED BY <2>1 DEF Has
<1>3. QED BY <1>1, <1>2 DEF Has

LEMMA StepsAt ==
  ASSUME NEW verb \in Verbs, NEW os \in Seq(Object \cup Input)
  PROVE  /\ Len(Steps(verb, os)) = Len(os)
         /\ \A i \in 1 .. Len(os) : Steps(verb, os)[i] = <<verb, os[i]>>
<1>1. DOMAIN os = 1 .. Len(os) /\ Len(os) \in Nat
  OBVIOUS
<1>2. Steps(verb, os) = [i \in 1 .. Len(os) |-> <<verb, os[i]>>]
  BY <1>1 DEF Steps
<1>3. Steps(verb, os) \in Seq(Step)
  BY StepsType
<1>4. DOMAIN Steps(verb, os) = 1 .. Len(Steps(verb, os))
  BY <1>3
<1>5. QED BY <1>1, <1>2, <1>4

\* A row of steps of one rank.
LEMMA EvenRow ==
  ASSUME NEW verb \in Verbs, NEW os \in Seq(Object \cup Input), NEW n \in Nat,
         \A i \in 1 .. Len(os) : Rank(<<verb, os[i]>>) \in {0, n}
  PROVE  /\ Row(Steps(verb, os), n, n)
         /\ \A i \in 1 .. Len(os) : Has(Steps(verb, os), <<verb, os[i]>>)
<1> DEFINE p == Steps(verb, os)
<1>1. /\ p \in Seq(Step) /\ Len(p) = Len(os)
      /\ \A i \in 1 .. Len(os) : p[i] = <<verb, os[i]>>
  BY StepsType, StepsAt
<1>2. \A i \in 1 .. Len(p) : Rank(p[i]) \in {0, n}
  BY <1>1
<1> HIDE DEF p
<1>3. Ordered(p)
  BY <1>2 DEF Ordered
<1>4. Row(p, n, n) /\ \A i \in 1 .. Len(os) : Has(p, <<verb, os[i]>>)
  BY <1>1, <1>2, <1>3 DEF Row, Has
<1>5. QED BY <1>4 DEF p

LEMMA EvenPair ==
  ASSUME NEW verb \in Verbs, NEW n \in Nat,
         NEW a \in Object \cup Input, NEW b \in Object \cup Input,
         Rank(<<verb, a>>) \in {0, n}, Rank(<<verb, b>>) \in {0, n}
  PROVE  /\ Row(Steps(verb, <<a>>), n, n) /\ Row(Steps(verb, <<a, b>>), n, n)
         /\ Has(Steps(verb, <<a>>), <<verb, a>>)
         /\ Has(Steps(verb, <<a, b>>), <<verb, a>>)
         /\ Has(Steps(verb, <<a, b>>), <<verb, b>>)
<1> DEFINE one == <<a>>
           two == <<a, b>>
<1>1. /\ one \in Seq(Object \cup Input) /\ Len(one) = 1 /\ one[1] = a
      /\ two \in Seq(Object \cup Input) /\ Len(two) = 2
      /\ two[1] = a /\ two[2] = b
  OBVIOUS
<1> HIDE DEF one, two
<1>2. /\ \A i \in 1 .. Len(one) : i = 1
      /\ \A i \in 1 .. Len(two) : i = 1 \/ i = 2
      /\ 1 \in 1 .. Len(one) /\ 1 \in 1 .. Len(two) /\ 2 \in 1 .. Len(two)
  BY <1>1
<1>3. /\ \A i \in 1 .. Len(one) : Rank(<<verb, one[i]>>) \in {0, n}
      /\ \A i \in 1 .. Len(two) : Rank(<<verb, two[i]>>) \in {0, n}
  BY <1>1, <1>2, Zenon
<1>4. /\ Row(Steps(verb, one), n, n)
      /\ \A i \in 1 .. Len(one) : Has(Steps(verb, one), <<verb, one[i]>>)
  BY <1>1, <1>3, EvenRow
<1>5. /\ Row(Steps(verb, two), n, n)
      /\ \A i \in 1 .. Len(two) : Has(Steps(verb, two), <<verb, two[i]>>)
  BY <1>1, <1>3, EvenRow
<1>6. /\ Has(Steps(verb, one), <<verb, a>>)
      /\ Has(Steps(verb, two), <<verb, a>>)
      /\ Has(Steps(verb, two), <<verb, b>>)
  BY <1>1, <1>2, <1>4, <1>5, Zenon
<1>7. QED BY <1>4, <1>5, <1>6 DEF one, two

\* The rows that the pipelines consist of.
LEMMA CertificateRows ==
  /\ Row(Steps("enrol", <<"sign", "tls">>), 1, 1)
  /\ Row(Steps("store", <<"sign", "tls">>), 2, 2)
  /\ Row(Steps("check", <<"genesis">>), 2, 2)
  /\ \A c \in Cert : /\ Has(Steps("enrol", <<"sign", "tls">>), <<"enrol", c>>)
                     /\ Has(Steps("store", <<"sign", "tls">>), <<"store", c>>)
  /\ Has(Steps("check", <<"genesis">>), <<"check", "genesis">>)
<1>1. /\ "enrol" \in Verbs /\ "store" \in Verbs /\ "check" \in Verbs
      /\ "sign" \in Object \cup Input /\ "tls" \in Object \cup Input
      /\ "genesis" \in Object \cup Input
  BY DEF Verbs, Object, Cert, Input
<1>2. /\ Rank(<<"enrol", "sign">>) = 1 /\ Rank(<<"enrol", "tls">>) = 1
      /\ Rank(<<"store", "sign">>) = 2 /\ Rank(<<"store", "tls">>) = 2
      /\ Rank(<<"check", "genesis">>) = 2
  BY <1>1, Ranks
<1>3. /\ Row(Steps("enrol", <<"sign", "tls">>), 1, 1)
      /\ Has(Steps("enrol", <<"sign", "tls">>), <<"enrol", "sign">>)
      /\ Has(Steps("enrol", <<"sign", "tls">>), <<"enrol", "tls">>)
  BY <1>1, <1>2, EvenPair
<1>4. /\ Row(Steps("store", <<"sign", "tls">>), 2, 2)
      /\ Has(Steps("store", <<"sign", "tls">>), <<"store", "sign">>)
      /\ Has(Steps("store", <<"sign", "tls">>), <<"store", "tls">>)
  BY <1>1, <1>2, EvenPair
<1>5. /\ Row(Steps("check", <<"genesis">>), 2, 2)
      /\ Has(Steps("check", <<"genesis">>), <<"check", "genesis">>)
  BY <1>1, <1>2, EvenPair
<1>6. QED BY <1>3, <1>4, <1>5, Zenon DEF Cert

\* Of the other rows, those without the configuration and the deployment...
LEMMA PlainRows ==
  \A n \in {2, 3} :
    /\ Row(Steps("write", <<"service">>), n, n)
    /\ Row(Steps("write", <<"tlsroute">>), n, n)
    /\ Row(Steps("write", <<"virtualservice", "destinationrule">>), n, n)
    /\ Row(Steps("write", <<"tlsroute", "httproute">>), n, n)
    /\ Row(Steps("wait", <<"pvc">>), n, n)
<1>1. /\ "write" \in Verbs /\ "wait" \in Verbs
      /\ "service" \in Object \cup Input /\ "tlsroute" \in Object \cup Input
      /\ "virtualservice" \in Object \cup Input
      /\ "destinationrule" \in Object \cup Input
      /\ "httproute" \in Object \cup Input /\ "pvc" \in Object \cup Input
  BY DEF Verbs, Object, Workload, Route, Istio
<1>2. /\ Rank(<<"write", "service">>) = 0 /\ Rank(<<"write", "tlsroute">>) = 0
      /\ Rank(<<"write", "virtualservice">>) = 0
      /\ Rank(<<"write", "destinationrule">>) = 0
      /\ Rank(<<"write", "httproute">>) = 0 /\ Rank(<<"wait", "pvc">>) = 0
  BY <1>1, Ranks
<1> SUFFICES ASSUME NEW n \in {2, 3}
             PROVE  /\ Row(Steps("write", <<"service">>), n, n)
                    /\ Row(Steps("write", <<"tlsroute">>), n, n)
                    /\ Row(Steps("write", <<"virtualservice",
                                            "destinationrule">>), n, n)
                    /\ Row(Steps("write", <<"tlsroute", "httproute">>), n, n)
                    /\ Row(Steps("wait", <<"pvc">>), n, n)
  OBVIOUS
<1>3. n \in Nat
  OBVIOUS
<1>4. Row(Steps("write", <<"service">>), n, n)
  BY <1>1, <1>2, <1>3, EvenPair
<1>5. /\ Row(Steps("write", <<"tlsroute">>), n, n)
      /\ Row(Steps("write", <<"tlsroute", "httproute">>), n, n)
  BY <1>1, <1>2, <1>3, EvenPair
<1>6. Row(Steps("write", <<"virtualservice", "destinationrule">>), n, n)
  BY <1>1, <1>2, <1>3, EvenPair
<1>7. Row(Steps("wait", <<"pvc">>), n, n)
  BY <1>1, <1>2, <1>3, EvenPair
<1>8. QED BY <1>4, <1>5, <1>6, <1>7

\* ...and the one with the configuration first and then the deployment.
LEMMA WorkloadRow ==
  ASSUME NEW os \in Seq(Object \cup Input), NEW d \in 2 .. Len(os),
         os[1] = "config", os[d] = "deployment",
         \A i \in 1 .. Len(os) : os[i] = "config" => i = 1
  PROVE  /\ Row(Steps("write", os), 2, 3)
         /\ Has(Steps("write", os), <<"write", "config">>)
<1> DEFINE p == Steps("write", os)
<1>1. /\ p \in Seq(Step) /\ Len(p) = Len(os) /\ Len(os) \in Nat
      /\ \A i \in 1 .. Len(os) : /\ p[i] = <<"write", os[i]>>
                                 /\ os[i] \in Object \cup Input
  BY StepsType, StepsAt DEF Verbs
<1> HIDE DEF p
<1>2. \A i \in 1 .. Len(p) :
        Rank(p[i]) = IF i = 1 THEN 2 ELSE IF os[i] = "deployment" THEN 3 ELSE 0
  <2> SUFFICES ASSUME NEW i \in 1 .. Len(p)
               PROVE  Rank(p[i]) = IF i = 1 THEN 2
                                   ELSE IF os[i] = "deployment" THEN 3 ELSE 0
    OBVIOUS
  <2>1. p[i] = <<"write", os[i]>> /\ os[i] \in Object \cup Input
    BY <1>1
  <2>2. i = 1 <=> os[i] = "config"
    BY <1>1
  <2>3. CASE i = 1
    BY <2>1, <2>2, <2>3, Ranks
  <2>4. CASE i # 1 /\ os[i] = "deployment"
    BY <2>1, <2>4, Ranks
  <2>5. CASE i # 1 /\ os[i] # "deployment"
    BY <2>1, <2>2, <2>5, Ranks
  <2>6. QED BY <2>3, <2>4, <2>5
<1>3. Ordered(p)
  BY <1>1, <1>2 DEF Ordered
<1>4. Row(p, 2, 3)
  BY <1>1, <1>2, <1>3 DEF Row
<1>5. Has(p, <<"write", "config">>)
  <2>1. 1 \in 1 .. Len(p) /\ p[1] = <<"write", "config">>
    BY <1>1
  <2>2. QED BY <2>1 DEF Has
<1>6. QED BY <1>4, <1>5 DEF p

LEMMA WorkloadRows ==
  \A os \in {<<"config", "service", "deployment", "pvc">>,
            <<"config", "service", "pvc", "deployment">>,
            <<"config", "deployment", "pvc">>,
            <<"config", "service", "deployment">>} :
    /\ Row(Steps("write", os), 2, 3)
    /\ Has(Steps("write", os), <<"write", "config">>)
<1> DEFINE a == <<"config", "service", "deployment", "pvc">>
           b == <<"config", "service", "pvc", "deployment">>
           c == <<"config", "deployment", "pvc">>
           d == <<"config", "service", "deployment">>
<1>1. /\ a \in Seq(Object \cup Input) /\ Len(a) = 4
      /\ a[1] = "config" /\ a[2] # "config" /\ a[3] = "deployment"
      /\ a[4] # "config"
      /\ b \in Seq(Object \cup Input) /\ Len(b) = 4
      /\ b[1] = "config" /\ b[2] # "config" /\ b[3] # "config"
      /\ b[4] = "deployment"
      /\ c \in Seq(Object \cup Input) /\ Len(c) = 3
      /\ c[1] = "config" /\ c[2] = "deployment" /\ c[3] # "config"
      /\ d \in Seq(Object \cup Input) /\ Len(d) = 3
      /\ d[1] = "config" /\ d[2] # "config" /\ d[3] = "deployment"
  BY DEF Object, Workload
<1> HIDE DEF a, b, c, d
<1>2. /\ Row(Steps("write", a), 2, 3)
      /\ Has(Steps("write", a), <<"write", "config">>)
  <2>1. 3 \in 2 .. Len(a) /\ \A i \in 1 .. Len(a) : a[i] = "config" => i = 1
    BY <1>1
  <2>2. QED BY <1>1, <2>1, WorkloadRow
<1>3. /\ Row(Steps("write", b), 2, 3)
      /\ Has(Steps("write", b), <<"write", "config">>)
  <2>1. 4 \in 2 .. Len(b) /\ \A i \in 1 .. Len(b) : b[i] = "config" => i = 1
    BY <1>1
  <2>2. QED BY <1>1, <2>1, WorkloadRow
<1>4. /\ Row(Steps("write", c), 2, 3)
      /\ Has(Steps("write", c), <<"write", "config">>)
  <2>1. 2 \in 2 .. Len(c) /\ \A i \in 1 .. Len(c) : c[i] = "config" => i = 1
    BY <1>1
  <2>2. QED BY <1>1, <2>1, WorkloadRow
<1>5. /\ Row(Steps("write", d), 2, 3)
      /\ Has(Steps("write", d), <<"write", "config">>)
  <2>1. 3 \in 2 .. Len(d) /\ \A i \in 1 .. Len(d) : d[i] = "config" => i = 1
    BY <1>1
  <2>2. QED BY <1>1, <2>1, WorkloadRow
<1>6. QED BY <1>2, <1>3, <1>4, <1>5 DEF a, b, c, d

\* A pipeline that has what goes before a configuration, and one that has it
\* as well: then it may go on to a deployment.
Started(p) ==
  /\ Row(p, 1, 2)
  /\ \A c \in Cert : Has(p, <<"enrol", c>>) /\ Has(p, <<"store", c>>)

Complete(p) ==
  /\ Row(p, 1, 3) /\ Has(p, <<"write", "config">>)
  /\ \A c \in Cert : Has(p, <<"enrol", c>>) /\ Has(p, <<"store", c>>)

LEMMA StartedOn ==
  ASSUME NEW p, NEW q, Started(p), Row(q, 2, 2)
  PROVE  Started(p \o q)
<1>1. Row(p, 1, 2)
  BY DEF Started
<1>2. Row(p \o q, 1, 2)
  BY <1>1, RowConcat
<1>3. p \in Seq(Step) /\ q \in Seq(Step)
  BY <1>1 DEF Row
<1>4. QED BY <1>2, <1>3, HasConcat DEF Started

LEMMA StartedThen ==
  ASSUME NEW p, NEW q, Started(p), Row(q, 2, 3), Has(q, <<"write", "config">>)
  PROVE  Complete(p \o q)
<1>1. Row(p, 1, 2)
  BY DEF Started
<1>2. Row(p \o q, 1, 3)
  BY <1>1, RowConcat
<1>3. p \in Seq(Step) /\ q \in Seq(Step)
  BY <1>1 DEF Row
<1>4. QED BY <1>2, <1>3, HasConcat DEF Started, Complete

LEMMA CompleteOn ==
  ASSUME NEW p, NEW q, Complete(p), Row(q, 3, 3)
  PROVE  Complete(p \o q)
<1>1. Row(p, 1, 3)
  BY DEF Complete
<1>2. Row(p \o q, 1, 3)
  BY <1>1, RowConcat
<1>3. p \in Seq(Step) /\ q \in Seq(Step)
  BY <1>1 DEF Row
<1>4. QED BY <1>2, <1>3, HasConcat DEF Complete

\* What is in a row is in it with another row after it.
LEMMA HasOn ==
  ASSUME NEW p, NEW q, NEW a, NEW b, NEW c, NEW d, Row(p, a, b), Row(q, c, d),
         NEW step, Has(p, step) \/ Has(q, step)
  PROVE  Has(p \o q, step)
BY HasConcat DEF Row

LEMMA Beginning == Started(Steps("enrol", <<"sign", "tls">>)
                             \o Steps("store", <<"sign", "tls">>))
<1> DEFINE e == Steps("enrol", <<"sign", "tls">>)
           f == Steps("store", <<"sign", "tls">>)
<1>1. /\ Row(e, 1, 1) /\ Row(f, 2, 2)
      /\ \A c \in Cert : Has(e, <<"enrol", c>>) /\ Has(f, <<"store", c>>)
  BY CertificateRows
<1> HIDE DEF e, f
<1>2. Row(e \o f, 1, 2)
  BY <1>1, RowConcat
<1>3. e \in Seq(Step) /\ f \in Seq(Step)
  BY <1>1 DEF Row
<1>4. Started(e \o f)
  BY <1>1, <1>2, <1>3, HasConcat DEF Started
<1>5. QED BY <1>4 DEF e, f

\* Nothing is deployed in configure mode.
LEMMA ConfigurePlans ==
  ASSUME NEW k \in Orderers \cup Committers
  PROVE  Row(ConfigurePlan(k), 1, 2)
<1> DEFINE start == Steps("enrol", <<"sign", "tls">>)
                      \o Steps("store", <<"sign", "tls">>)
<1>1. Row(start, 1, 2)
  BY Beginning DEF Started
<1>2. Row(Steps("check", <<"genesis">>), 2, 2)
  BY CertificateRows
<1> HIDE DEF start
<1>3. Row(start \o Steps("check", <<"genesis">>), 1, 2)
  BY <1>1, <1>2, RowConcat
<1>4. ConfigurePlan(k) \in {start, start \o Steps("check", <<"genesis">>)}
  <2>1. k \in {"consenter", "batcher", "assembler", "router", "sidecar",
               "coordinator", "validator", "verifier", "queryservice"}
    BY DEF Orderers, Committers
  <2>2. /\ {consenterConfigures, assemblerConfigures, routerConfigures,
            sidecarConfigures, coordinatorConfigures, validatorConfigures,
            verifierConfigures, queryserviceConfigures} = {start}
        /\ batcherConfigures = start \o Steps("check", <<"genesis">>)
    BY DEF start, consenterConfigures, consenterEnrols, consenterStores,
           batcherConfigures, batcherEnrols, batcherStores,
           assemblerConfigures, assemblerEnrols, assemblerStores,
           routerConfigures, routerEnrols, routerStores,
           sidecarConfigures, sidecarEnrols, sidecarStores,
           coordinatorConfigures, coordinatorEnrols, coordinatorStores,
           validatorConfigures, validatorEnrols, validatorStores,
           verifierConfigures, verifierEnrols, verifierStores,
           queryserviceConfigures, queryserviceEnrols, queryserviceStores
  <2>3. QED BY <2>1, <2>2 DEF ConfigurePlan
<1>5. QED BY <1>1, <1>3, <1>4

\* In deploy mode what a deployment needs is in the pipeline, in its order,
\* and the block where it is mounted: except by the router, which does not
\* look for it.
LEMMA DeployPlans ==
  ASSUME NEW k \in Orderers \cup Committers
  PROVE  /\ Complete(DeployPlan(k))
         /\ k \in GenesisMounted => Has(DeployPlan(k), <<"check", "genesis">>)
<1> DEFINE start == Steps("enrol", <<"sign", "tls">>)
                      \o Steps("store", <<"sign", "tls">>)
           check == Steps("check", <<"genesis">>)
           csdp  == Steps("write", <<"config", "service", "deployment", "pvc">>)
           cspd  == Steps("write", <<"config", "service", "pvc", "deployment">>)
           cdp   == Steps("write", <<"config", "deployment", "pvc">>)
           csd   == Steps("write", <<"config", "service", "deployment">>)
           serv  == Steps("write", <<"service">>)
           istio == Steps("write", <<"virtualservice", "destinationrule">>)
           both  == Steps("write", <<"tlsroute", "httproute">>)
           route == Steps("write", <<"tlsroute">>)
           wait  == Steps("wait", <<"pvc">>)
<1>1. /\ Started(start) /\ Row(check, 2, 2)
      /\ Has(check, <<"check", "genesis">>)
  BY Beginning, CertificateRows
<1>2. \A w \in {csdp, cspd, cdp, csd} :
        Row(w, 2, 3) /\ Has(w, <<"write", "config">>)
  BY WorkloadRows
<1>3. \A n \in {2, 3} : /\ Row(serv, n, n) /\ Row(istio, n, n)
                        /\ Row(both, n, n) /\ Row(route, n, n)
                        /\ Row(wait, n, n)
  BY PlainRows
<1>4. /\ consenterDeploys = start \o check \o csdp \o wait \o route
      /\ batcherDeploys = start \o check \o csdp \o route
      /\ assemblerDeploys = start \o check \o cspd \o istio \o both
      /\ routerDeploys = start \o serv \o istio \o both \o cdp
  BY DEF consenterDeploys, consenterEnrols, consenterStores,
         batcherDeploys, batcherEnrols, batcherStores,
         assemblerDeploys, assemblerEnrols, assemblerStores,
         routerDeploys, routerEnrols, routerStores
<1>5. /\ sidecarDeploys = start \o check \o csd
      /\ \A p \in {coordinatorDeploys, validatorDeploys, verifierDeploys,
                   queryserviceDeploys} : p = start \o csd
  BY DEF sidecarDeploys, sidecarEnrols, sidecarStores,
         coordinatorDeploys, coordinatorEnrols, coordinatorStores,
         validatorDeploys, validatorEnrols, validatorStores,
         verifierDeploys, verifierEnrols, verifierStores,
         queryserviceDeploys, queryserviceEnrols, queryserviceStores
<1> HIDE DEF start, check, csdp, cspd, cdp, csd, serv, istio, both, route, wait
<1>6. /\ Started(start \o check) /\ Has(start \o check, <<"check", "genesis">>)
  BY <1>1, StartedOn, HasOn DEF Started
<1>7. ASSUME NEW w \in {csdp, cspd, csd}
      PROVE  /\ Complete(start \o check \o w)
             /\ Has(start \o check \o w, <<"check", "genesis">>)
  BY <1>2, <1>6, StartedThen, HasOn DEF Started
<1>8. ASSUME NEW p, NEW q, Complete(p), Row(q, 3, 3),
             Has(p, <<"check", "genesis">>)
      PROVE  Complete(p \o q) /\ Has(p \o q, <<"check", "genesis">>)
  BY <1>8, CompleteOn, HasOn DEF Complete
<1>9. /\ Complete(consenterDeploys)
      /\ Has(consenterDeploys, <<"check", "genesis">>)
  BY <1>3, <1>4, <1>7, <1>8
<1>10. /\ Complete(batcherDeploys)
       /\ Has(batcherDeploys, <<"check", "genesis">>)
  BY <1>3, <1>4, <1>7, <1>8
<1>11. /\ Complete(assemblerDeploys)
       /\ Has(assemblerDeploys, <<"check", "genesis">>)
  BY <1>3, <1>4, <1>7, <1>8
<1>12. Complete(routerDeploys)
  BY <1>1, <1>2, <1>3, <1>4, StartedOn, StartedThen
<1>13. /\ Complete(sidecarDeploys)
       /\ Has(sidecarDeploys, <<"check", "genesis">>)
  BY <1>5, <1>7
<1>14. /\ Complete(coordinatorDeploys) /\ Complete(validatorDeploys)
       /\ Complete(verifierDeploys) /\ Complete(queryserviceDeploys)
  BY <1>1, <1>2, <1>5, StartedThen
<1>15. k \in {"consenter", "batcher", "assembler", "router", "sidecar",
              "coordinator", "validator", "verifier", "queryservice"}
  BY DEF Orderers, Committers
<1>16. Complete(DeployPlan(k))
  BY <1>9, <1>10, <1>11, <1>12, <1>13, <1>14, <1>15 DEF DeployPlan
<1>17. k \in GenesisMounted => Has(DeployPlan(k), <<"check", "genesis">>)
  BY <1>9, <1>10, <1>11, <1>13 DEF DeployPlan, GenesisMounted
<1>18. QED BY <1>16, <1>17

-----------------------------------------------------------------------------
(* What becomes of the objects                                              *)

\* The pipelines make objects for the component they work for, or leave them
\* to whom they belong.
Fits(o, object) ==
  /\ o \in Object /\ object \in Objects /\ object.exists
  /\ \/ object.owner = mem.uid
     \/ objects[o].exists /\ object.owner = objects[o].owner
  /\ o = "config" /\ object.password = 0 => Passwordless(kind)
  /\ o = "deployment" => Head(plan) = <<"write", "deployment">>

LEMMA PutSeen ==
  ASSUME TypeOK, NEW o, NEW object, Put(o, object)
  PROVE  /\ \A d \in Object : objects'[d] = IF d = o THEN object ELSE objects[d]
         /\ \A d \in Object : seen'[d] \in {seen[d], objects'[d]}
<1>1. objects \in [Object -> Objects] /\ seen \in [Object -> Objects]
  BY DEF TypeOK
<1>2. /\ objects' = [objects EXCEPT ![o] = object]
      /\ seen' = seen \/ seen' = [seen EXCEPT ![o] = object]
  BY DEF Put
<1>3. \A d \in Object : objects'[d] = IF d = o THEN object ELSE objects[d]
  BY <1>1, <1>2
<1>4. QED BY <1>1, <1>2, <1>3

LEMMA WriteMakes ==
  ASSUME NEW o, NEW accepted, NEW object, Write(o, accepted, object)
  PROVE  UNCHANGED outside \/ (accepted /\ Put(o, object))
BY DEF Write, outside

LEMMA SaveMakes ==
  ASSUME NEW o, NEW built, Save(o, built)
  PROVE  UNCHANGED outside \/ Put(o, built)
<1>1. \/ UNCHANGED outside
      \/ \E accepted : Write(o, accepted, built)
  BY DEF Save, Replace, CreateOrUpdate, outside
<1>2. QED BY <1>1, WriteMakes

LEMMA PipelineMakes ==
  ASSUME TypeOK, FreshIsCurrent, PasswordsChosen, Pipeline
  PROVE  \/ UNCHANGED outside
         \/ pc = "pipeline" /\ \E object : /\ Fits(Subject, object)
                                           /\ Put(Subject, object)
<1>0. /\ mem.uid \in Nat /\ hand \in [Cert -> Serials \cup {0}]
      /\ objects \in [Object -> Objects]
      /\ Cert \subseteq Object /\ Workload \subseteq Object
      /\ Route \subseteq Object /\ "pvc" \in Object
      /\ {"config", "service", "deployment"} \subseteq Object
      /\ Cert \cap {"config", "deployment"} = {}
      /\ Route \cap {"config", "deployment"} = {}
  BY DEF TypeOK, Components, Object, Cert, Workload, Route, Istio
<1>s. /\ mem.spec.config \in Settings \cup {Unset}
      /\ mem.spec.pods \in Settings \cup {Unset}
      /\ mem.spec.storage \in Settings \cup {Unset}
  BY SpecType DEF TypeOK, Components
<1>u. /\ Owned(Unset) \in Objects /\ Owned(Unset).exists
      /\ Owned(Unset).owner = mem.uid
  BY OwnedType
<1>1. CASE SkipStep \/ CheckGenesis \/ WaitForVolume \/ Enrol
  BY <1>1 DEF SkipStep, CheckGenesis, WaitForVolume, Enrol
<1>2. CASE StoreCertificate
  <2> DEFINE c == Subject
             new == [Owned(Unset) EXCEPT !.serial = hand[c]]
             renewed == [objects[c] EXCEPT !.serial = hand[c]]
  <2>1. pc = "pipeline" /\ c \in Cert
    BY <1>2, AtSubject DEF StoreCertificate
  <2>2. hand[c] \in Serials \cup {0} /\ objects[c] \in Objects
    BY <1>0, <2>1
  <2>3. /\ new \in Objects /\ new.exists /\ new.owner = mem.uid
    BY <2>2, OwnedType
  <2>4. /\ renewed \in Objects /\ renewed.exists = objects[c].exists
        /\ renewed.owner = objects[c].owner
    BY <2>2 DEF Objects
  <2>5. \/ UNCHANGED outside
        \/ Write(c, ~objects[c].exists, new)
        \/ seen[c].exists /\ Write(c, c \in seenFresh, renewed)
    BY <1>2 DEF StoreCertificate, outside
  <2>6. c \in seenFresh /\ seen[c].exists => objects[c].exists
    BY DEF FreshIsCurrent
  <2> HIDE DEF new, renewed, c
  <2>7. Fits(c, new)
    BY <1>0, <2>1, <2>3 DEF Fits
  <2>8. objects[c].exists => Fits(c, renewed)
    BY <1>0, <2>1, <2>4 DEF Fits
  <2>9. UNCHANGED outside \/ \E object : Fits(c, object) /\ Put(c, object)
    BY <2>5, <2>6, <2>7, <2>8, WriteMakes
  <2>10. QED BY <2>1, <2>9 DEF c
<1>3. CASE ReconcileConfig
  <2> DEFINE p == IF Reads(kind, mem.spec) = {} THEN 0 ELSE given.password
             built == [Owned(mem.spec.config) EXCEPT !.password = p]
  <2>1. /\ pc = "pipeline" /\ Subject = "config"
        /\ ~Breaks(kind, mem.spec, <<"write", "config">>)
    BY <1>3 DEF ReconcileConfig, At, Subject
  <2>2. p \in Nat
    BY DEF TypeOK
  <2>3. \/ UNCHANGED outside
        \/ /\ Reads(kind, mem.spec) # {} => p # 0
           /\ Save("config", built)
    BY <1>3 DEF ReconcileConfig, outside
  <2>4. built \in Objects /\ built.exists /\ built.owner = mem.uid
    BY <1>s, <2>2, OwnedType
  <2>5. built.password = p
    BY DEF Owned, NoObject
  <2> HIDE DEF p, built
  <2>6. CASE Reads(kind, mem.spec) # {} => p # 0
    <3>1. p = 0 => Passwordless(kind)
      BY <2>1, <2>6 DEF PasswordsChosen, Passwordless
    <3>2. Fits("config", built)
      BY <1>0, <2>4, <2>5, <3>1 DEF Fits
    <3>3. QED BY <2>1, <2>3, <3>2, SaveMakes
  <2>7. QED BY <2>3, <2>6
<1>4. CASE ReconcileService
  <2>1. /\ pc = "pipeline" /\ Subject = "service"
        /\ Save("service", Owned(Unset))
    BY <1>4 DEF ReconcileService, At, Subject
  <2>2. Fits("service", Owned(Unset))
    BY <1>0, <1>u DEF Fits
  <2>3. QED BY <2>1, <2>2, SaveMakes
<1>5. CASE ReconcileDeployment
  <2> DEFINE built == [Owned(mem.spec.pods) EXCEPT !.hash = TemplateHash]
  <2>1. /\ pc = "pipeline" /\ Subject = "deployment"
        /\ Head(plan) = <<"write", "deployment">>
    BY <1>5 DEF ReconcileDeployment, At, Subject
  <2>2. UNCHANGED outside \/ Save("deployment", built)
    BY <1>5 DEF ReconcileDeployment, outside
  <2>3. built \in Objects /\ built.exists /\ built.owner = mem.uid
    BY <1>s, OwnedType, TemplateHashType
  <2> HIDE DEF built
  <2>4. Fits("deployment", built)
    BY <1>0, <2>1, <2>3 DEF Fits
  <2>5. QED BY <2>1, <2>2, <2>4, SaveMakes
<1>6. CASE ReplaceVolumeClaim \/ KeepVolumeClaim
  <2> DEFINE claim == Owned(mem.spec.storage)
             grown == [objects["pvc"] EXCEPT !.content = mem.spec.storage]
  <2>1. pc = "pipeline" /\ Subject = "pvc"
    BY <1>6 DEF ReplaceVolumeClaim, KeepVolumeClaim, At, Subject
  <2>2. \/ UNCHANGED outside
        \/ \E a : Write("pvc", a, claim)
        \/ \E a : (a => objects["pvc"].exists) /\ Write("pvc", a, grown)
    BY <1>6 DEF ReplaceVolumeClaim, KeepVolumeClaim, GrowVolumeClaim, outside
  <2>3. claim \in Objects /\ claim.exists /\ claim.owner = mem.uid
    BY <1>s, OwnedType
  <2>4. /\ grown \in Objects /\ grown.exists = objects["pvc"].exists
        /\ grown.owner = objects["pvc"].owner
    <3>1. objects["pvc"] \in Objects BY <1>0
    <3>2. QED BY <1>s, <3>1 DEF Objects
  <2> HIDE DEF claim, grown
  <2>5. /\ Fits("pvc", claim)
        /\ objects["pvc"].exists => Fits("pvc", grown)
    BY <1>0, <2>3, <2>4 DEF Fits
  <2>6. QED BY <2>1, <2>2, <2>5, WriteMakes
<1>7. CASE ReconcileRoute
  <2> DEFINE o == Subject
  <2>1. pc = "pipeline" /\ o \in Route
    BY <1>7, AtSubject DEF ReconcileRoute
  <2>2. \/ Write(o, ~objects[o].exists, Owned(Unset))
        \/ seen[o].exists /\ Write(o, o \in seenFresh, objects[o])
    BY <1>7 DEF ReconcileRoute
  <2>3. o \in seenFresh /\ seen[o].exists => objects[o].exists
    BY DEF FreshIsCurrent
  <2> HIDE DEF o
  <2>4. /\ Fits(o, Owned(Unset))
        /\ objects[o].exists => Fits(o, objects[o])
    BY <1>0, <1>u, <2>1 DEF Fits
  <2>5. UNCHANGED outside \/ \E object : Fits(o, object) /\ Put(o, object)
    BY <2>2, <2>3, <2>4, WriteMakes
  <2>6. QED BY <2>1, <2>5 DEF o
<1>8. CASE ReconcileIstio
  <2>1. pc = "pipeline" /\ Subject \in Istio
    BY <1>8, AtSubject DEF ReconcileIstio
  <2>2. Write(Subject, TRUE, Owned(Unset))
    BY <1>8 DEF ReconcileIstio
  <2>3. Fits(Subject, Owned(Unset))
    BY <1>0, <1>u, <2>1 DEF Fits, Route
  <2>4. QED BY <2>1, <2>2, <2>3, WriteMakes
<1>9. QED
  BY <1>1, <1>2, <1>3, <1>4, <1>5, <1>6, <1>7, <1>8 DEF Pipeline

\* Every other step leaves the objects as they are; the informers may catch
\* up with some of them.
LEMMA ObjectsMove ==
  ASSUME TypeOK, FreshIsCurrent, PasswordsChosen, [Next]_vars
  PROVE  \/ pc = "pipeline" /\ \E o, object : Fits(o, object) /\ Put(o, object)
         \/ pc = "cleanup" /\ pc' = pc /\ UNCHANGED inside
              /\ \E o : Put(o, NoObject)
         \/ BindVolume
         \/ \E o \in Object : GarbageCollect(o)
         \/ /\ UNCHANGED objects
            /\ \A d \in Object : seen'[d] \in {seen[d], objects'[d]}
<1>t. seen \in [Object -> Objects]
  BY DEF TypeOK
<1>1. CASE Pipeline
  BY <1>1, PipelineMakes DEF outside
<1>2. CASE CleanupObject
  BY <1>2, CleanupEffect DEF outside
<1>3. CASE hand' \in {hand, NoHand} /\ UNCHANGED outside
  BY <1>3 DEF outside
<1>4. CASE UNCHANGED <<hand, objects>>
             /\ \E o \in Object : seen' = [seen EXCEPT ![o] = objects[o]]
  BY <1>4, <1>t
<1>5. CASE hand' = NoHand /\ UNCHANGED objects /\ seen' = objects
  BY <1>5
<1>6. QED BY <1>1, <1>2, <1>3, <1>4, <1>5, RestSettled

-----------------------------------------------------------------------------
(* What becomes of the component and of its copies                          *)

Early == {"init", "finalizer", "mode", "pipeline"}

\* A step that creates no component: the deletion mark stays, the cache takes
\* what is in the server, and a reconcile that comes early enough to make
\* objects has read a component that was not marked.
Steady ==
  /\ kind' = kind /\ res'.uid = res.uid
  /\ res'.exists => /\ res.exists /\ (res.deleting => res'.deleting)
                    /\ res'.spec = res.spec \/ res'.spec \in Chosen[kind]
  /\ cache' = cache \/ cache' = res'
  /\ mem'.uid = mem.uid \/ mem' = cache
  /\ pc' \in Early =>
       \/ /\ pc \in Early /\ mem'.uid = mem.uid
          /\ mem'.spec = mem.spec \/ (res.exists /\ mem'.spec = res.spec)
       \/ mem' = cache /\ cache.exists /\ ~cache.deleting

LEMMA Moves ==
  ASSUME Base, [Next]_vars,
         ~ \E s \in Specs \cap Chosen[kind] : CreateComponent(s)
  PROVE  Steady
<1> USE DEF Goto
<1>0. /\ TypeOK /\ FreshIsCurrent /\ OwnedByPast
      /\ res \in Components /\ mem \in Components /\ cache \in Components
  BY DEF Base, TypeOK
<1>s. \A st \in {"Pending", "Running", "Failed"} : st \in Statuses
  BY DEF Statuses
<1>q. ASSUME UNCHANGED <<kind, res, mem>>, cache' \in {cache, res},
             pc' \in Early => pc \in Early
      PROVE  Steady
  BY <1>q DEF Steady
<1>1. ASSUME NEW s \in Specs \cap Chosen[kind], EditSpec(s) PROVE Steady
  <2>1. /\ res'.exists = res.exists /\ res'.uid = res.uid
        /\ res'.deleting = res.deleting /\ res'.spec \in Chosen[kind]
    BY <1>0, <1>1 DEF EditSpec, Written, Components
  <2>2. UNCHANGED <<kind, cache, mem, pc>>
    BY <1>1 DEF EditSpec, frame
  <2>3. QED BY <2>1, <2>2 DEF Steady
<1>2. CASE DeleteComponent
  <2>1. /\ res'.uid = res.uid /\ res'.spec = res.spec
        /\ res.exists /\ ~res.deleting
    BY <1>0, <1>2 DEF DeleteComponent, Written, Components
  <2>2. UNCHANGED <<kind, cache, mem, pc>>
    BY <1>2 DEF DeleteComponent, frame
  <2>3. QED BY <2>1, <2>2 DEF Steady
<1>3. CASE CacheSync
  BY <1>3, <1>q DEF CacheSync
<1>4. CASE StartReconcile
  BY <1>4 DEF StartReconcile, Read, frame, Steady, Early
<1>5. ASSUME NEW st \in Statuses, UpdateStatus(st), UNCHANGED <<kind, cache>>,
             pc' \in Early => pc \in Early
      PROVE  Steady
  BY <1>0, <1>5, StatusEffect DEF Steady
<1>6. CASE \/ InitialiseStatus \/ MarkRunning \/ MarkFailed \/ MarkDeleting
           \/ MarkPanicked
  BY <1>5, <1>6, <1>s
  DEF InitialiseStatus, MarkRunning, MarkFailed, MarkDeleting, MarkPanicked,
      frame, Early
<1>7. CASE EnsureFinalizer
  <2> DEFINE guarded == [res EXCEPT !.fin = TRUE]
  <2>1. /\ pc = "finalizer" /\ UNCHANGED <<kind, cache>>
        /\ res' \in {res, guarded}
        /\ mem' = mem \/ (Current /\ mem' = guarded)
    BY <1>7 DEF EnsureFinalizer, Accepted, Refused, Written, frame
  <2>2. /\ guarded.exists = res.exists /\ guarded.uid = res.uid
        /\ guarded.deleting = res.deleting /\ guarded.spec = res.spec
    BY <1>0 DEF Components
  <2> HIDE DEF guarded
  <2>3. QED BY <2>1, <2>2 DEF Steady, Early, Current
<1>8. CASE SelectMode
  BY <1>8, <1>q DEF SelectMode, frame, Early
<1>9. CASE Pipeline \/ CleanupObject
  <2>1. UNCHANGED inside /\ pc' \in {pc, "failPipeline"}
    BY <1>0, <1>9, PipelineEffect, CleanupEffect
  <2>2. QED BY <2>1, <1>q DEF inside, frame, Early
<1>10. CASE PipelineDone \/ CleanupDone
  BY <1>10, <1>q DEF PipelineDone, CleanupDone, inside, frame, Early
<1>11. CASE RecoverOrderer
  BY <1>11, <1>q DEF RecoverOrderer, frame, Early
<1>12. CASE RecoverCommitter
  BY <1>12 DEF RecoverCommitter, Read, frame, Early, Steady
<1>13. CASE RemoveFinalizer
  <2> DEFINE released == [res EXCEPT !.fin = FALSE, !.exists = ~res.deleting]
  <2>1. /\ pc' \notin Early /\ UNCHANGED <<kind, cache>>
        /\ res' = res \/ (Current /\ res' = released)
        /\ mem' = mem \/ (Current /\ mem' = released)
    BY <1>13
    DEF RemoveFinalizer, Accepted, Refused, Written, frame, Early
  <2>2. /\ released.uid = res.uid /\ released.deleting = res.deleting
        /\ released.spec = res.spec
    BY <1>0 DEF Components
  <2> HIDE DEF released
  <2>3. QED BY <2>1, <2>2 DEF Steady, Current
<1>14. CASE Environment
  BY <1>14, <1>q
  DEF Environment, ObjectSync, Touch, GarbageCollect, BindVolume, Give,
      StoreGenesis, StorePassword, RotatePassword, inside, frame
<1>15. CASE OperatorCrash
  BY <1>15, <1>q DEF OperatorCrash, Early
<1>16. CASE UNCHANGED vars
  BY <1>16, <1>q DEF vars
<1>17. QED
  BY <1>1, <1>2, <1>3, <1>4, <1>6, <1>7, <1>8, <1>9, <1>10, <1>11, <1>12,
     <1>13, <1>14, <1>15, <1>16
  DEF Next, User, Reconciler, Pipeline

LEMMA UnmarkedBefore ==
  Steady /\ res'.exists /\ Unmarked' => res.exists /\ Unmarked
<1> SUFFICES ASSUME Steady, res'.exists, Unmarked'
             PROVE  res.exists /\ Unmarked
  OBVIOUS
<1>1. /\ res.exists /\ (res.deleting => res'.deleting) /\ res'.uid = res.uid
  BY DEF Steady
<1>2. CASE ~res'.deleting
  BY <1>1, <1>2 DEF Unmarked
<1>3. CASE cache'.exists /\ ~cache'.deleting /\ cache'.uid = res'.uid
  BY <1>1, <1>2, <1>3 DEF Steady, Unmarked
<1>4. CASE pc' \in Early /\ mem'.uid = res'.uid
  BY <1>1, <1>4 DEF Steady, Unmarked, Early
<1>5. QED BY <1>2, <1>3, <1>4 DEF Unmarked, Early

\* The types of the uids and owners, and how they compare.
LEMMA Uids ==
  ASSUME Base
  PROVE  /\ res.uid \in Nat /\ mem.uid \in Nat /\ cache.uid \in Nat
         /\ mem.uid <= cache.uid /\ cache.uid <= res.uid
         /\ \A o \in Object : /\ objects[o].owner \in Nat
                              /\ seen[o].owner \in Nat
                              /\ objects[o].owner <= mem.uid
BY DEF Base, TypeOK, Components, Objects, OwnedByPast

\* What belongs to a component that the reconciler has not seen marked stays.
LEMMA LiveKept ==
  ASSUME Base, PasswordsChosen, [Next]_vars, res.exists, Unmarked,
         NEW o \in Object, objects[o].exists, objects[o].owner = res.uid
  PROVE  objects'[o].exists /\ objects'[o].owner = res.uid
<1>t. /\ TypeOK /\ FreshIsCurrent /\ Guarded /\ DeletionSeen
      /\ objects \in [Object -> Objects]
  BY DEF Base, TypeOK
<1>1. ASSUME pc = "pipeline", NEW d, NEW object, Fits(d, object), Put(d, object)
      PROVE  objects'[o].exists /\ objects'[o].owner = res.uid
  <2>1. mem.uid = res.uid
    BY <1>1, <1>t DEF Guarded, Held
  <2>2. objects'[o] = IF o = d THEN object ELSE objects[o]
    BY <1>1, <1>t, PutSeen
  <2>3. QED BY <1>1, <2>1, <2>2 DEF Fits
<1>2. ASSUME pc = "cleanup", NEW d, Put(d, NoObject)
      PROVE  FALSE
  <2>1. mem.uid = res.uid
    BY Uids
  <2>2. /\ res.deleting
        /\ cache.exists /\ cache.uid = res.uid => cache.deleting
    BY <1>2, <1>t, <2>1 DEF DeletionSeen
  <2>3. QED BY <1>2, <2>2 DEF Unmarked
<1>3. CASE BindVolume
  <2> DEFINE bound == [objects["pvc"] EXCEPT !.bound = TRUE]
  <2>1. Put("pvc", bound)
    BY <1>3 DEF BindVolume
  <2>2. objects["pvc"] \in Objects
    BY <1>t DEF Object
  <2>3. bound.exists = objects["pvc"].exists /\ bound.owner = objects["pvc"].owner
    BY <2>2 DEF Objects
  <2> HIDE DEF bound
  <2>4. objects'[o] = IF o = "pvc" THEN bound ELSE objects[o]
    BY <1>t, <2>1, PutSeen
  <2>5. QED BY <2>3, <2>4
<1>4. ASSUME NEW d \in Object, GarbageCollect(d)
      PROVE  objects'[o].exists /\ objects'[o].owner = res.uid
  <2>1. o # d
    BY <1>4 DEF GarbageCollect
  <2>2. QED BY <1>4, <1>t, <2>1, PutSeen DEF GarbageCollect, Remove
<1>5. CASE UNCHANGED objects
  BY <1>5
<1>6. QED BY <1>1, <1>2, <1>3, <1>4, <1>5, <1>t, ObjectsMove

\* The cache shows an object as it was shown, or as it is.
LEMMA SeenMoves ==
  ASSUME TypeOK, FreshIsCurrent, PasswordsChosen, [Next]_vars, NEW o \in Object
  PROVE  seen'[o] \in {seen[o], objects'[o]}
BY ObjectsMove, PutSeen DEF BindVolume, GarbageCollect, Remove

LEMMA BelongsStep ==
  ASSUME Base, Base', Belongs, PasswordsChosen, [Next]_vars
  PROVE  Belongs'
<1>t. /\ TypeOK /\ FreshIsCurrent /\ Guarded
      /\ objects \in [Object -> Objects] /\ ~NoObject.exists
  BY NoObjectType DEF Base, TypeOK
<1>1. res'.exists => res'.uid > 0
  <2>1. ASSUME NEW s, CreateComponent(s) PROVE res'.uid = res.uid + 1
    BY <2>1, NoComponentType DEF CreateComponent, Written, NoComponent
  <2>2. CASE Steady
    BY <2>2 DEF Steady, Belongs
  <2>3. QED BY <2>1, <2>2, Moves, Uids
<1>2. mem.uid <= mem'.uid
  <2>1. ASSUME NEW s, CreateComponent(s) PROVE mem' = mem
    BY <2>1 DEF CreateComponent
  <2>2. CASE Steady
    BY <2>2, Uids DEF Steady
  <2>3. QED BY <2>1, <2>2, Moves, Uids
<1>3. ASSUME NEW o \in Object, objects'[o].exists PROVE objects'[o].owner > 0
  <2>0. objects[o].exists => objects[o].owner > 0
    BY DEF Belongs
  <2>1. ASSUME pc = "pipeline", NEW d, NEW object, Fits(d, object), Put(d, object)
        PROVE  objects'[o].owner > 0
    <3>1. mem.uid > 0
      BY <1>t, <2>1 DEF Guarded, Held, Belongs
    <3>2. objects'[o] = IF o = d THEN object ELSE objects[o]
      BY <1>t, <2>1, PutSeen
    <3>3. QED BY <1>3, <2>0, <2>1, <3>1, <3>2 DEF Fits
  <2>2. ASSUME NEW d, Put(d, NoObject)
        PROVE  objects'[o].owner > 0
    BY <1>3, <1>t, <2>0, <2>2, PutSeen
  <2>3. CASE BindVolume
    <3>1. Put("pvc", [objects["pvc"] EXCEPT !.bound = TRUE])
      BY <2>3 DEF BindVolume
    <3>2. objects["pvc"] \in Objects
      BY <1>t DEF Object
    <3>3. /\ [objects["pvc"] EXCEPT !.bound = TRUE].exists
               = objects["pvc"].exists
          /\ [objects["pvc"] EXCEPT !.bound = TRUE].owner = objects["pvc"].owner
      BY <3>2 DEF Objects
    <3> DEFINE bound == [objects["pvc"] EXCEPT !.bound = TRUE]
    <3>4. objects'[o] = IF o = "pvc" THEN bound ELSE objects[o]
      BY <1>t, <3>1, PutSeen, Zenon
    <3>5. CASE o = "pvc"
      <4>1. objects'[o] = bound
        BY <3>4, <3>5, Zenon
      <4>2. QED BY <1>3, <2>0, <3>3, <3>5, <4>1, Zenon
    <3>6. CASE o # "pvc"
      <4>1. objects'[o] = objects[o]
        BY <3>4, <3>6, Zenon
      <4>2. QED BY <1>3, <2>0, <4>1, Zenon
    <3>7. QED BY <3>5, <3>6
  <2>4. CASE UNCHANGED objects
    BY <1>3, <2>0, <2>4
  <2>5. QED
    BY <1>t, <2>1, <2>2, <2>3, <2>4, ObjectsMove DEF GarbageCollect, Remove
<1>4. ASSUME NEW o \in Object
      PROVE  /\ seen'[o].exists => seen'[o].owner > 0
             /\ seen'[o].owner <= mem'.uid
  <2>1. CASE seen'[o] = objects'[o]
    BY <1>3, <2>1 DEF Base, OwnedByPast
  <2>2. CASE seen'[o] = seen[o]
    <3>1. mem'.uid \in Nat
      BY DEF Base, TypeOK, Components
    <3>2. seen[o].owner <= mem.uid /\ (seen[o].exists => seen[o].owner > 0)
      BY DEF Belongs
    <3>3. QED BY <1>2, <2>2, <3>1, <3>2, Uids
  <2>3. QED BY <1>t, <2>1, <2>2, SeenMoves
<1>5. QED BY <1>1, <1>3, <1>4 DEF Belongs

LEMMA SeenIsThereStep ==
  ASSUME Base, Belongs, SeenIsThere, PasswordsChosen, [Next]_vars
  PROVE  SeenIsThere'
<1>t. TypeOK /\ FreshIsCurrent
  BY DEF Base
<1>1. ASSUME NEW s, CreateComponent(s) PROVE SeenIsThere'
  <2>1. res'.uid = res.uid + 1 /\ seen' = seen
    BY <1>1, NoComponentType
    DEF CreateComponent, Written, NoComponent, outside
  <2>2. \A o \in Object : seen'[o].owner # res'.uid
    BY <2>1, Uids DEF Belongs
  <2>3. QED BY <2>2 DEF SeenIsThere
<1>2. CASE Steady
  <2> SUFFICES ASSUME res'.exists, Unmarked', NEW o \in Object,
                      seen'[o].exists, seen'[o].owner = res'.uid
               PROVE  objects'[o].exists /\ objects'[o].owner = res'.uid
    BY DEF SeenIsThere
  <2>1. res.exists /\ Unmarked /\ res'.uid = res.uid
    BY <1>2, UnmarkedBefore DEF Steady
  <2>2. CASE seen'[o] = objects'[o]
    BY <2>2
  <2>3. CASE seen'[o] = seen[o]
    <3>1. objects[o].exists /\ objects[o].owner = res.uid
      BY <2>1, <2>3 DEF SeenIsThere
    <3>2. QED BY <2>1, <3>1, LiveKept
  <2>4. QED BY <1>t, <2>2, <2>3, SeenMoves
<1>3. QED BY <1>1, <1>2, Moves

LEMMA PasswordsChosenStep ==
  ASSUME Base, PasswordsChosen, [Next]_vars
  PROVE  PasswordsChosen'
<1>t. /\ TypeOK /\ FreshIsCurrent /\ objects \in [Object -> Objects]
      /\ "config" \in Object /\ ~NoObject.exists
  BY NoObjectType DEF Base, TypeOK, Object, Workload
<1>1. /\ kind' = kind
      /\ res'.exists => res'.spec \in Chosen[kind]
      /\ cache'.exists => cache'.spec \in Chosen[kind]
      /\ pc' \in Early => mem'.spec \in Chosen[kind]
  <2>1. ASSUME NEW s \in Chosen[kind], CreateComponent(s)
        PROVE  /\ UNCHANGED <<kind, cache, mem, pc>>
               /\ res'.spec \in Chosen[kind]
    BY <2>1 DEF CreateComponent, Written, NoComponent, frame
  <2>2. CASE Steady
    BY <2>2 DEF Steady, PasswordsChosen, Early
  <2>3. QED BY <2>1, <2>2, Moves DEF PasswordsChosen, Early
<1>2. objects'["config"].exists /\ objects'["config"].password = 0
        => Passwordless(kind)
  <2>1. ASSUME NEW o, NEW object, Fits(o, object), Put(o, object),
               objects'["config"].exists, objects'["config"].password = 0
        PROVE  Passwordless(kind)
    <3>1. objects'["config"] = IF o = "config" THEN object
                                              ELSE objects["config"]
      BY <1>t, <2>1, PutSeen
    <3>2. QED BY <2>1, <3>1 DEF Fits, PasswordsChosen
  <2>2. ASSUME NEW o, Put(o, NoObject),
               objects'["config"].exists, objects'["config"].password = 0
        PROVE  Passwordless(kind)
    BY <1>t, <2>2, PutSeen DEF PasswordsChosen
  <2>3. CASE BindVolume
    <3>1. Put("pvc", [objects["pvc"] EXCEPT !.bound = TRUE])
      BY <2>3 DEF BindVolume
    <3>2. objects'["config"] = objects["config"]
      BY <1>t, <3>1, PutSeen
    <3>3. QED BY <3>2 DEF PasswordsChosen
  <2>4. CASE UNCHANGED objects
    BY <2>4 DEF PasswordsChosen
  <2>5. QED
    BY <1>t, <2>1, <2>2, <2>3, <2>4, ObjectsMove DEF GarbageCollect, Remove
<1>3. Passwordless(kind) => Passwordless(kind)'
  BY <1>1 DEF Passwordless
<1>4. QED BY <1>1, <1>2, <1>3 DEF PasswordsChosen, Early

-----------------------------------------------------------------------------
(* Step after step                                                          *)

LEMMA WriteProceeds ==
  ASSUME NEW o, NEW accepted, NEW object, Write(o, accepted, object),
         pc' = "pipeline"
  PROVE  plan' = Tail(plan) /\ accepted /\ Put(o, object)
BY DEF Write, StepFails, Proceed, Goto

LEMMA SaveProceeds ==
  ASSUME NEW o, NEW built, Save(o, built), pc' = "pipeline"
  PROVE  /\ plan' = Tail(plan)
         /\ Put(o, built) \/ (seen[o] = built /\ UNCHANGED outside)
<1>1. \/ /\ seen[o] = built /\ plan' = Tail(plan) /\ UNCHANGED outside
      \/ \E accepted : Write(o, accepted, built)
  BY DEF Save, Replace, CreateOrUpdate, Proceed, outside
<1>2. QED BY <1>1, WriteProceeds

\* A pipeline goes on with the steps that it has not taken yet.
LEMMA PipelineProceeds ==
  ASSUME Pipeline, pc' = "pipeline"
  PROVE  pc = "pipeline" /\ plan # <<>> /\ plan' = Tail(plan)
<1> USE DEF Goto
<1>1. CASE SkipStep
  BY <1>1 DEF SkipStep, Proceed
<1>2. CASE CheckGenesis \/ WaitForVolume \/ Enrol
  BY <1>2, AtSubject DEF CheckGenesis, WaitForVolume, Enrol, Proceed, StepFails
<1>3. CASE StoreCertificate
  BY <1>3, AtSubject, WriteProceeds DEF StoreCertificate, Proceed
<1>4. CASE ReconcileConfig \/ ReconcileService \/ ReconcileDeployment
  <2>1. pc = "pipeline" /\ plan # <<>>
    BY <1>4, AtSubject
    DEF ReconcileConfig, ReconcileService, ReconcileDeployment
  <2>2. \E o, built : Save(o, built)
    BY <1>4
    DEF ReconcileConfig, ReconcileService, ReconcileDeployment, StepFails
  <2>3. QED BY <2>1, <2>2, SaveProceeds
<1>5. CASE ReplaceVolumeClaim \/ KeepVolumeClaim
  <2>1. pc = "pipeline" /\ plan # <<>>
    BY <1>5, AtSubject DEF ReplaceVolumeClaim, KeepVolumeClaim
  <2>2. plan' = Tail(plan) \/ \E a, object : Write("pvc", a, object)
    BY <1>5 DEF ReplaceVolumeClaim, KeepVolumeClaim, GrowVolumeClaim, Proceed
  <2>3. QED BY <2>1, <2>2, WriteProceeds
<1>6. CASE ReconcileRoute \/ ReconcileIstio
  <2>1. pc = "pipeline" /\ plan # <<>>
    BY <1>6, AtSubject DEF ReconcileRoute, ReconcileIstio
  <2>2. \E a, object : Write(Subject, a, object)
    BY <1>6 DEF ReconcileRoute, ReconcileIstio
  <2>3. QED BY <2>1, <2>2, WriteProceeds
<1>7. QED BY <1>1, <1>2, <1>3, <1>4, <1>5, <1>6 DEF Pipeline

\* A reconcile that is in its pipeline after a step has just begun it, has
\* done the step before, or has let others do something.
LEMMA Progress ==
  ASSUME Base, [Next]_vars, pc' = "pipeline"
  PROVE  \/ SelectMode
         \/ /\ Pipeline /\ pc = "pipeline" /\ plan # <<>>
            /\ plan' = Tail(plan) /\ UNCHANGED <<kind, mem, given>>
         \/ /\ pc = "pipeline" /\ UNCHANGED <<plan, hand, kind, mem>>
            /\ given.genesis => given'.genesis
            /\ given.password # 0 => given'.password # 0
<1> USE DEF Goto
<1>t. /\ TypeOK /\ FreshIsCurrent /\ OwnedByPast
      /\ given \in [genesis : BOOLEAN, password : Nat]
  BY DEF Base, TypeOK
<1>1. CASE User \/ CacheSync \/ UNCHANGED vars
  BY <1>1
  DEF User, CreateComponent, EditSpec, DeleteComponent, CacheSync, vars, frame
<1>2. CASE Pipeline
  BY <1>2, <1>t, PipelineEffect, PipelineProceeds DEF inside, frame
<1>3. CASE Reconciler /\ ~Pipeline /\ ~SelectMode
  <2>1. \/ StartReconcile \/ InitialiseStatus \/ EnsureFinalizer
        \/ PipelineDone \/ MarkRunning \/ MarkFailed
        \/ RecoverOrderer \/ RecoverCommitter \/ MarkPanicked
        \/ MarkDeleting \/ CleanupObject \/ CleanupDone \/ RemoveFinalizer
    BY <1>3 DEF Reconciler, Pipeline
  <2>2. ~CleanupObject
    BY <1>t, CleanupEffect
  <2>3. QED
    BY <2>1, <2>2
    DEF StartReconcile, InitialiseStatus, EnsureFinalizer, PipelineDone,
        MarkRunning, MarkFailed, RecoverOrderer, RecoverCommitter,
        MarkPanicked, MarkDeleting, CleanupDone, RemoveFinalizer
<1>4. CASE \E o \in Object : ObjectSync(o) \/ Touch(o) \/ GarbageCollect(o)
  BY <1>4 DEF ObjectSync, Touch, GarbageCollect, inside, frame
<1>5. CASE BindVolume
  BY <1>5 DEF BindVolume, inside, frame
<1>6. CASE StoreGenesis \/ StorePassword \/ RotatePassword
  <2>1. /\ pc' = pc /\ UNCHANGED <<plan, hand, kind, mem>>
        /\ given' \in {[given EXCEPT !.genesis = TRUE],
                       [given EXCEPT !.password = 1],
                       [given EXCEPT !.password = 2]}
    BY <1>6 DEF StoreGenesis, StorePassword, RotatePassword, Give, frame
  <2>2. \A g \in {[given EXCEPT !.genesis = TRUE],
                  [given EXCEPT !.password = 1],
                  [given EXCEPT !.password = 2]} :
          /\ given.genesis => g.genesis
          /\ given.password # 0 => g.password # 0
    BY <1>t
  <2>3. QED BY <2>1, <2>2
<1>7. CASE OperatorCrash
  BY <1>7 DEF OperatorCrash
<1>8. QED
  BY <1>1, <1>2, <1>3, <1>4, <1>5, <1>6, <1>7 DEF Next, Environment

\* The tail of an ordered row is ordered, and has what is not its head.
LEMMA TailRow ==
  ASSUME NEW p \in Seq(Step), p # <<>>
  PROVE  /\ Ordered(p) => Ordered(Tail(p))
         /\ \A step : Has(Tail(p), step) => Has(p, step)
         /\ \A step : Has(p, step) => Head(p) = step \/ Has(Tail(p), step)
<1> DEFINE q == Tail(p)
           n == Len(p)
<1>1. /\ n \in Nat /\ n >= 1 /\ q \in Seq(Step) /\ Len(q) = n - 1
      /\ \A i \in 1 .. n - 1 : q[i] = p[i + 1]
      /\ Head(p) = p[1]
  OBVIOUS
<1> HIDE DEF q, n
<1>2. ASSUME Ordered(p) PROVE Ordered(q)
  <2> SUFFICES ASSUME NEW i \in 1 .. n - 1, NEW j \in 1 .. n - 1,
                      i < j, Rank(q[j]) # 0
               PROVE  Rank(q[i]) <= Rank(q[j])
    BY <1>1 DEF Ordered
  <2>1. /\ i + 1 \in 1 .. n /\ j + 1 \in 1 .. n /\ i + 1 < j + 1
        /\ q[i] = p[i + 1] /\ q[j] = p[j + 1]
    BY <1>1
  <2>2. QED BY <1>2, <2>1 DEF Ordered, n
<1>3. ASSUME NEW step, Has(q, step) PROVE Has(p, step)
  <2>1. PICK i \in 1 .. n - 1 : q[i] = step
    BY <1>1, <1>3 DEF Has
  <2>2. i + 1 \in 1 .. Len(p) /\ p[i + 1] = step
    BY <1>1, <2>1 DEF n
  <2>3. QED BY <2>2 DEF Has
<1>4. ASSUME NEW step, Has(p, step), Head(p) # step PROVE Has(q, step)
  <2>1. PICK i \in 1 .. n : p[i] = step
    BY <1>4 DEF Has, n
  <2>2. i - 1 \in 1 .. n - 1 /\ q[i - 1] = step
    BY <1>1, <1>4, <2>1
  <2>3. QED BY <1>1, <2>2 DEF Has
<1>5. QED BY <1>2, <1>3, <1>4 DEF q

\* What goes before the head of an ordered row is not left in it.
LEMMA HeadFirst ==
  ASSUME NEW p \in Seq(Step), p # <<>>, Ordered(p),
         NEW step, Rank(step) # 0, ~(Rank(Head(p)) <= Rank(step))
  PROVE  ~Has(p, step)
<1>1. Len(p) \in Nat /\ Len(p) >= 1 /\ Head(p) = p[1] /\ p[1] \in Step
  OBVIOUS
<1>2. SUFFICES ASSUME NEW i \in 1 .. Len(p), p[i] = step PROVE FALSE
  BY DEF Has
<1>3. CASE i = 1
  BY <1>1, <1>2, <1>3, RankType
<1>4. CASE i # 1
  <2>1. 1 \in 1 .. Len(p) /\ 1 < i
    BY <1>1, <1>2, <1>4
  <2>2. Rank(p[1]) <= Rank(p[i])
    BY <1>2, <2>1 DEF Ordered
  <2>3. QED BY <1>1, <1>2, <2>2
<1>5. QED BY <1>3, <1>4

-----------------------------------------------------------------------------
(* What each step leaves behind                                             *)

\* Only one action takes a step with a given head.
LEMMA StepOf ==
  ASSUME Pipeline, NEW a, NEW o, Head(plan) = <<a, o>>,
         ~Skipped(kind, mem.spec, <<a, o>>)
  PROVE  /\ a = "enrol" => Enrol
         /\ a = "store" => StoreCertificate
         /\ a = "check" => CheckGenesis
         /\ a = "write" /\ o = "config" => ReconcileConfig
<1>0. /\ Head(plan)[1] = a /\ Head(plan)[2] = o
      /\ \A b, S : <<a, o>> \in {b} \X S => a = b /\ o \in S
      /\ \A b, d : <<a, o>> \in {<<b, d>>} => a = b /\ o = d
      /\ "config" \notin Route
  BY DEF Route, Istio
<1>1. ~SkipStep
  BY DEF SkipStep
<1>2. Enrol => a = "enrol"
  BY <1>0 DEF Enrol, At
<1>3. StoreCertificate => a = "store"
  BY <1>0 DEF StoreCertificate, At
<1>4. CheckGenesis => a = "check"
  BY <1>0 DEF CheckGenesis, At
<1>5. ReconcileConfig => a = "write"
  BY <1>0 DEF ReconcileConfig, At
<1>6. /\ ReconcileService => a = "write" /\ o = "service"
      /\ ReconcileDeployment => a = "write" /\ o = "deployment"
  BY <1>0 DEF ReconcileService, ReconcileDeployment, At
<1>7. /\ ReplaceVolumeClaim => a = "write" /\ o = "pvc"
      /\ KeepVolumeClaim => a = "write" /\ o = "pvc"
      /\ WaitForVolume => a = "wait"
  BY <1>0 DEF ReplaceVolumeClaim, KeepVolumeClaim, WaitForVolume, At
<1>8. /\ ReconcileRoute => a = "write" /\ o \in Route
      /\ ReconcileIstio => a = "write" /\ o \in Route
  BY <1>0 DEF ReconcileRoute, ReconcileIstio, At, Route
<1>9. QED
  BY <1>0, <1>1, <1>2, <1>3, <1>4, <1>5, <1>6, <1>7, <1>8 DEF Pipeline

\* The functions of these steps do not return at once.
LEMMA NotSkipped ==
  ASSUME TypeOK
  PROVE  /\ ~Skipped(kind, mem.spec, <<"write", "config">>)
         /\ mem.spec.genesis => ~Skipped(kind, mem.spec, <<"check", "genesis">>)
         /\ mem.spec.enrolment =>
              \A c \in Cert \ Omitted[kind] :
                /\ ~Skipped(kind, mem.spec, <<"enrol", c>>)
                /\ ~Skipped(kind, mem.spec, <<"store", c>>)
<1>1. Omitted[kind] \subseteq Object \ {"config"}
  BY ComponentAssumption DEF TypeOK
<1>2. "genesis" \notin Object /\ "config" \notin Route /\ "genesis" \notin Route
  BY DEF Object, Cert, Workload, Route, Istio
<1>3. \A c \in Cert : c # "genesis"
  BY DEF Cert
<1>4. QED BY <1>1, <1>2, <1>3 DEF Skipped

LEMMA ConfigMade ==
  ASSUME IInv, Pipeline, pc' = "pipeline",
         Head(plan) = <<"write", "config">>
  PROVE  /\ objects'["config"].exists /\ objects'["config"].owner = mem.uid
         /\ Reads(kind, mem.spec) # {} => given.password # 0
<1> DEFINE p == IF Reads(kind, mem.spec) = {} THEN 0 ELSE given.password
           built == [Owned(mem.spec.config) EXCEPT !.password = p]
<1>t. /\ TypeOK /\ Guarded /\ pc = "pipeline"
      /\ "config" \in Object /\ objects \in [Object -> Objects]
  BY PipelineProceeds DEF IInv, Base, TypeOK, Object, Workload
<1>1. ReconcileConfig
  BY <1>t, NotSkipped, StepOf
<1>2. /\ Save("config", built)
      /\ Reads(kind, mem.spec) # {} => given.password # 0
  BY <1>1 DEF ReconcileConfig, StepFails, Goto
<1>3. built.exists /\ built.owner = mem.uid
  <2>1. mem.spec.config \in Settings \cup {Unset} /\ p \in Nat
    BY <1>t, SpecType DEF TypeOK, Components
  <2>2. QED BY <1>t, <2>1, OwnedType
<1> HIDE DEF built
<1>4. CASE Put("config", built)
  <2>1. objects'["config"] = built
    BY <1>4, <1>t, PutSeen
  <2>2. QED BY <1>2, <1>3, <2>1
<1>5. CASE seen["config"] = built /\ UNCHANGED outside
  <2>1. res.exists /\ res.uid = mem.uid /\ Unmarked
    BY <1>t DEF Guarded, Held, Unmarked
  <2>2. objects["config"].exists /\ objects["config"].owner = mem.uid
    BY <1>3, <1>5, <1>t, <2>1 DEF IInv, SeenIsThere
  <2>3. QED BY <1>2, <1>5, <2>2 DEF outside
<1>6. QED BY <1>2, <1>4, <1>5, SaveProceeds

LEMMA GenesisMade ==
  ASSUME TypeOK, Pipeline, pc' = "pipeline",
         Head(plan) = <<"check", "genesis">>, mem.spec.genesis
  PROVE  given.genesis
<1>1. CheckGenesis
  BY NotSkipped, StepOf
<1>2. QED BY <1>1 DEF CheckGenesis, StepFails, Goto

\* In hand a serial is only replaced by another.
LEMMA HandMoves ==
  ASSUME TypeOK, Pipeline, NEW c \in Cert, hand[c] # 0
  PROVE  hand'[c] # 0
<1>1. hand' = hand \/ \E n \in Serials : hand' = [hand EXCEPT ![Subject] = n]
  BY DEF Pipeline, SkipStep, Enrol, StoreCertificate, CheckGenesis,
         ReconcileConfig, ReconcileService, ReconcileDeployment,
         ReplaceVolumeClaim, KeepVolumeClaim, WaitForVolume, ReconcileRoute,
         ReconcileIstio
<1>2. hand \in [Cert -> Serials \cup {0}] /\ Serials \subseteq Nat \ {0}
  BY ComponentAssumption DEF TypeOK
<1>3. QED BY <1>1, <1>2

\* Certificates of the first component of its name are its own.
LEMMA FirstOwner ==
  ASSUME Base, Belongs, mem.uid = 1, NEW o \in Object
  PROVE  /\ objects[o].exists => objects[o].owner = mem.uid
         /\ seen[o].exists => seen[o].owner = mem.uid
BY Uids DEF Belongs

LEMMA EnrolMade ==
  ASSUME IInv, Pipeline, pc' = "pipeline",
         mem.spec.enrolment, mem.uid = 1, NEW c \in Cert \ Omitted[kind],
         Head(plan) = <<"enrol", c>>
  PROVE  hand'[c] # 0 \/ objects'[c].exists
<1>t. /\ TypeOK /\ Guarded /\ Base /\ Belongs /\ SeenIsThere
      /\ pc = "pipeline" /\ c \in Object
      /\ hand \in [Cert -> Serials \cup {0}] /\ Serials \subseteq Nat \ {0}
  BY PipelineProceeds, ComponentAssumption DEF IInv, Base, TypeOK, Object
<1>1. Enrol /\ Subject = c
  <2>1. ~Skipped(kind, mem.spec, <<"enrol", c>>)
    BY <1>t, NotSkipped
  <2>2. QED BY <2>1, StepOf DEF Subject
<1>2. UNCHANGED outside
  BY <1>1 DEF Enrol
<1>3. \/ seen[c].exists
      \/ \E n \in Serials : hand' = [hand EXCEPT ![c] = n]
  BY <1>1 DEF Enrol, StepFails, Goto
<1>4. CASE seen[c].exists
  <2>1. res.exists /\ res.uid = mem.uid /\ Unmarked
    BY <1>t DEF Guarded, Held, Unmarked
  <2>2. seen[c].owner = res.uid
    BY <1>4, <1>t, <2>1, FirstOwner
  <2>3. objects[c].exists
    BY <1>4, <1>t, <2>1, <2>2 DEF SeenIsThere
  <2>4. QED BY <1>2, <2>3 DEF outside
<1>5. CASE \E n \in Serials : hand' = [hand EXCEPT ![c] = n]
  BY <1>5, <1>t
<1>6. QED BY <1>3, <1>4, <1>5

LEMMA StoreMade ==
  ASSUME IInv, Pipeline, pc' = "pipeline", mem.spec.enrolment,
         NEW c \in Cert \ Omitted[kind],
         Head(plan) = <<"store", c>>, hand[c] # 0 \/ objects[c].exists
  PROVE  objects'[c].exists
<1>t. /\ TypeOK /\ FreshIsCurrent /\ c \in Object
      /\ objects \in [Object -> Objects]
  BY DEF IInv, Base, TypeOK, Object
<1>1. StoreCertificate /\ Subject = c
  <2>1. ~Skipped(kind, mem.spec, <<"store", c>>)
    BY <1>t, NotSkipped
  <2>2. QED BY <2>1, StepOf DEF Subject
<1>2. CASE hand[c] = 0 /\ UNCHANGED objects
  BY <1>2
<1>3. ASSUME NEW a, Write(c, a, [Owned(Unset) EXCEPT !.serial = hand[c]])
      PROVE  objects'[c].exists
  <2> DEFINE new == [Owned(Unset) EXCEPT !.serial = hand[c]]
  <2>1. new.exists
    BY DEF Owned, NoObject
  <2>2. Put(c, new)
    BY <1>3, WriteProceeds
  <2> HIDE DEF new
  <2>3. objects'[c] = new
    BY <1>t, <2>2, PutSeen
  <2>4. QED BY <2>1, <2>3
<1>4. CASE seen[c].exists
           /\ Write(c, c \in seenFresh, [objects[c] EXCEPT !.serial = hand[c]])
  <2> DEFINE renewed == [objects[c] EXCEPT !.serial = hand[c]]
  <2>1. c \in seenFresh /\ Put(c, renewed)
    BY <1>4 DEF Write, StepFails, Goto
  <2>2. objects[c].exists /\ objects[c] \in Objects
    BY <1>4, <1>t, <2>1 DEF FreshIsCurrent
  <2>3. renewed.exists
    BY <2>2 DEF Objects
  <2> HIDE DEF renewed
  <2>4. objects'[c] = renewed
    BY <1>t, <2>1, PutSeen
  <2>5. QED BY <2>3, <2>4
<1>5. QED BY <1>1, <1>2, <1>3, <1>4 DEF StoreCertificate

-----------------------------------------------------------------------------
(* The inductive invariant                                                  *)

\* What a pipeline has made stays while it runs.
LEMMA MadeStays ==
  ASSUME IInv, [Next]_vars, pc = "pipeline", NEW o \in Object,
         objects[o].exists, objects[o].owner = mem.uid
  PROVE  objects'[o].exists /\ objects'[o].owner = mem.uid
<1>1. Base /\ PasswordsChosen
  BY DEF IInv
<1>2. res.exists /\ res.uid = mem.uid /\ Unmarked
  BY DEF IInv, Base, Guarded, Held, Unmarked
<1>3. QED BY <1>1, <1>2, LiveKept

\* What is left after a step of the pipeline has been taken.
LEMMA TakenOff ==
  ASSUME TypeOK, plan # <<>>, plan' = Tail(plan)
  PROVE  /\ Ordered(plan) => Ordered(plan')
         /\ \A step : Left(step)' => Left(step)
         /\ \A step : ~Left(step)' => Head(plan) = step \/ ~Left(step)
         /\ Left(Head(plan))
<1>1. plan \in Seq(Step) /\ plan' = Tail(plan)
  BY DEF TypeOK
<1>2. /\ Ordered(plan) => Ordered(Tail(plan))
      /\ \A step : Has(Tail(plan), step) => Has(plan, step)
      /\ \A step : Has(plan, step)
                     => Head(plan) = step \/ Has(Tail(plan), step)
  BY <1>1, TailRow
<1>3. \A step : /\ Left(step) <=> Has(plan, step)
                /\ Left(step)' <=> Has(Tail(plan), step)
  BY <1>1 DEF Left, Has
<1>4. Left(Head(plan))
  <2>1. 1 \in 1 .. Len(plan) /\ plan[1] = Head(plan)
    BY <1>1
  <2>2. QED BY <2>1 DEF Left
<1>5. QED BY <1>1, <1>2, <1>3, <1>4

LEMMA InputsFirstStep ==
  ASSUME IInv, [Next]_vars
  PROVE  InputsFirst'
<1> SUFFICES ASSUME pc' = "pipeline", Left(<<"write", "deployment">>)'
             PROVE  /\ Ordered(plan') /\ ConfigDone' /\ GenesisDone'
                    /\ mem'.spec.enrolment /\ mem'.uid = 1 =>
                         \A c \in Cert \ Omitted[kind'] : CertificateDone(c)'
  BY DEF InputsFirst
<1>t. /\ Base /\ Belongs /\ TypeOK
      /\ kind \in Orderers \cup Committers /\ "config" \in Object
      /\ \A c \in Cert : c \in Object
  BY ComponentAssumption DEF IInv, Base, TypeOK, Object, Workload
<1>1. CASE SelectMode
  <2>1. /\ kind' = kind
        /\ plan' = ConfigurePlan(kind) \/ plan' = DeployPlan(kind)
    BY <1>1 DEF SelectMode, frame, Goto
  <2>2. CASE plan' = ConfigurePlan(kind)
    <3>1. Row(plan', 1, 2)
      BY <1>t, <2>2, ConfigurePlans
    <3>2. PICK i \in 1 .. Len(plan') : plan'[i] = <<"write", "deployment">>
      BY DEF Left
    <3>3. Rank(plan'[i]) = 3
      BY <3>2, Ranks
    <3>4. QED BY <3>1, <3>3 DEF Row
  <2>3. CASE plan' = DeployPlan(kind)
    <3>1. /\ Complete(plan')
          /\ kind \in GenesisMounted => Has(plan', <<"check", "genesis">>)
      BY <1>t, <2>3, DeployPlans
    <3>2. \A step : Has(plan', step) => Left(step)'
      BY DEF Has, Left
    <3>3. Ordered(plan')
      BY <3>1 DEF Complete, Row
    <3>4. ConfigDone'
      BY <3>1, <3>2 DEF Complete, ConfigDone
    <3>5. GenesisDone'
      BY <2>1, <3>1, <3>2 DEF GenesisDone
    <3>6. \A c \in Cert : CertificateDone(c)'
      BY <3>1, <3>2 DEF Complete, CertificateDone
    <3>7. QED BY <3>3, <3>4, <3>5, <3>6
  <2>4. QED BY <2>1, <2>2, <2>3
<1>2. CASE /\ pc = "pipeline" /\ UNCHANGED <<plan, hand, kind, mem>>
           /\ given.genesis => given'.genesis
           /\ given.password # 0 => given'.password # 0
  <2>1. \A step : Left(step)' <=> Left(step)
    BY <1>2 DEF Left
  <2>2. /\ Ordered(plan) /\ ConfigDone /\ GenesisDone
        /\ mem.spec.enrolment /\ mem.uid = 1 =>
             \A c \in Cert \ Omitted[kind] : CertificateDone(c)
    BY <1>2, <2>1 DEF IInv, InputsFirst
  <2>3. ConfigDone'
    <3>1. objects["config"].exists /\ objects["config"].owner = mem.uid
            => objects'["config"].exists /\ objects'["config"].owner = mem.uid
      BY <1>2, <1>t, MadeStays
    <3>2. QED BY <1>2, <2>1, <2>2, <3>1 DEF ConfigDone
  <2>4. GenesisDone'
    BY <1>2, <2>1, <2>2 DEF GenesisDone
  <2>5. ASSUME mem.uid = 1, NEW c \in Cert, CertificateDone(c)
        PROVE  CertificateDone(c)'
    <3>1. objects[c].exists => objects'[c].exists
      BY <1>2, <1>t, <2>5, FirstOwner, MadeStays
    <3>2. QED BY <1>2, <2>1, <2>5, <3>1 DEF CertificateDone
  <2>6. QED BY <1>2, <2>2, <2>3, <2>4, <2>5
<1>3. CASE /\ Pipeline /\ pc = "pipeline" /\ plan # <<>>
           /\ plan' = Tail(plan) /\ UNCHANGED <<kind, mem, given>>
  <2>1. /\ Ordered(plan) => Ordered(plan')
        /\ \A step : Left(step)' => Left(step)
        /\ \A step : ~Left(step)' => Head(plan) = step \/ ~Left(step)
    BY <1>3, <1>t, TakenOff
  <2>2. /\ Ordered(plan) /\ ConfigDone /\ GenesisDone
        /\ mem.spec.enrolment /\ mem.uid = 1 =>
             \A c \in Cert \ Omitted[kind] : CertificateDone(c)
    BY <1>3, <2>1 DEF IInv, InputsFirst
  <2>3. ConfigDone'
    <3> SUFFICES ASSUME ~Left(<<"write", "config">>)'
                 PROVE  /\ objects'["config"].exists
                        /\ objects'["config"].owner = mem.uid
                        /\ Reads(kind, mem.spec) # {} => given.password # 0
      BY <1>3 DEF ConfigDone
    <3>1. CASE Head(plan) = <<"write", "config">>
      BY <1>3, <3>1, ConfigMade
    <3>2. CASE ~Left(<<"write", "config">>)
      BY <1>3, <1>t, <2>2, <3>2, MadeStays DEF ConfigDone
    <3>3. QED BY <2>1, <3>1, <3>2
  <2>4. GenesisDone'
    <3> SUFFICES ASSUME kind \in GenesisMounted, mem.spec.genesis,
                        ~Left(<<"check", "genesis">>)'
                 PROVE  given.genesis
      BY <1>3 DEF GenesisDone
    <3>1. CASE Head(plan) = <<"check", "genesis">>
      BY <1>3, <1>t, <3>1, GenesisMade
    <3>2. CASE ~Left(<<"check", "genesis">>)
      BY <2>2, <3>2 DEF GenesisDone
    <3>3. QED BY <2>1, <3>1, <3>2
  <2>5. ASSUME mem.spec.enrolment, mem.uid = 1, NEW c \in Cert \ Omitted[kind]
        PROVE  CertificateDone(c)'
    <3>0. CertificateDone(c) /\ c \in Object
      BY <1>t, <2>2, <2>5
    <3>1. objects[c].exists => objects'[c].exists
      BY <1>3, <1>t, <2>5, <3>0, FirstOwner, MadeStays
    <3>2. hand[c] # 0 => hand'[c] # 0
      BY <1>3, <1>t, HandMoves
    <3>3. ASSUME ~Left(<<"enrol", c>>)'
          PROVE  hand'[c] # 0 \/ objects'[c].exists
      <4>1. CASE Head(plan) = <<"enrol", c>>
        BY <1>3, <2>5, <4>1, EnrolMade
      <4>2. CASE ~Left(<<"enrol", c>>)
        BY <3>0, <3>1, <3>2, <4>2 DEF CertificateDone
      <4>3. QED BY <2>1, <3>3, <4>1, <4>2
    <3>4. ASSUME ~Left(<<"store", c>>)'
          PROVE  objects'[c].exists
      <4>1. CASE Head(plan) = <<"store", c>>
        <5>1. ~Has(plan, <<"enrol", c>>)
          <6>1. Rank(<<"enrol", c>>) = 1 /\ Rank(<<"store", c>>) = 2
            BY <3>0, Ranks
          <6>2. plan \in Seq(Step) /\ plan # <<>> /\ Ordered(plan)
            BY <1>3, <1>t, <2>2 DEF TypeOK
          <6>3. /\ Rank(<<"enrol", c>>) # 0
                /\ ~(Rank(Head(plan)) <= Rank(<<"enrol", c>>))
            BY <4>1, <6>1
          <6>4. QED BY <6>2, <6>3, HeadFirst
        <5>2. hand[c] # 0 \/ objects[c].exists
          BY <3>0, <5>1 DEF CertificateDone, Left, Has
        <5>3. QED BY <1>3, <2>5, <4>1, <5>2, StoreMade
      <4>2. CASE ~Left(<<"store", c>>)
        BY <3>0, <3>1, <4>2 DEF CertificateDone
      <4>3. QED BY <2>1, <3>4, <4>1, <4>2
    <3>5. QED BY <3>3, <3>4 DEF CertificateDone
  <2>6. QED BY <1>3, <2>1, <2>2, <2>3, <2>4, <2>5
<1>4. QED BY <1>1, <1>2, <1>3, <1>t, Progress

LEMMA InitStrong == Init => IInv
<1> SUFFICES ASSUME Init PROVE IInv
  OBVIOUS
<1>1. Base
  BY InitInv
<1>2. /\ ~res.exists /\ ~cache.exists /\ pc = "idle" /\ mem.uid = 0
      /\ \A o \in Object : /\ ~objects[o].exists /\ ~seen[o].exists
                           /\ seen[o].owner = 0
  BY NoComponentType, NoObjectType DEF Init, Nothing
<1>3. "config" \in Object
  BY DEF Object, Workload
<1>4. Belongs /\ SeenIsThere /\ PasswordsChosen /\ InputsFirst
  BY <1>2, <1>3 DEF Belongs, SeenIsThere, PasswordsChosen, InputsFirst
<1>5. QED BY <1>1, <1>4 DEF IInv

\* What the reconciler reads, late as it may be, is enough to know that the
\* finalizer holds the component while its objects are written, that what a
\* cleanup removes by name belongs to no later component, that what the cache
\* shows of a component's objects is still there, and that each step of a
\* pipeline leaves behind what the deployment needs of it.
THEOREM Invariance == Spec => []IInv
<1>1. IInv /\ [Next]_vars => IInv'
  <2> SUFFICES ASSUME IInv, [Next]_vars PROVE IInv'
    OBVIOUS
  <2>1. Base /\ Belongs /\ SeenIsThere /\ PasswordsChosen
    BY DEF IInv
  <2>2. Base'
    BY <2>1, InductiveStep
  <2>3. Belongs'
    BY <2>1, <2>2, BelongsStep
  <2>4. SeenIsThere'
    BY <2>1, SeenIsThereStep
  <2>5. PasswordsChosen'
    BY <2>1, PasswordsChosenStep
  <2>6. InputsFirst'
    BY InputsFirstStep
  <2>7. QED BY <2>2, <2>3, <2>4, <2>5, <2>6 DEF IInv
<1>2. QED BY <1>1, InitStrong, PTL DEF Spec

-----------------------------------------------------------------------------
(* Deployments                                                              *)

\* Whoever reconciles, and whatever happens meanwhile: when a deployment comes
\* into being its configuration is there and is the component's own, with the
\* password if it needs one, the block has been stored if the pods mount it,
\* and a first component has its certificates.
THEOREM DeploymentsHaveInputs == Spec => DeployedWithInputs
<1>1. IInv /\ [Next]_vars =>
        [~objects["deployment"].exists /\ objects'["deployment"].exists =>
           /\ objects["config"].exists /\ objects["config"].owner = mem.uid
           /\ Reads(kind, mem.spec) # {} =>
                /\ given.password # 0
                /\ objects["config"].password # 0 \/ Passwordless(kind)
           /\ kind \in GenesisMounted /\ mem.spec.genesis => given.genesis
           /\ mem.spec.enrolment /\ mem.uid = 1
                => \A c \in Cert \ Omitted[kind] : objects[c].exists]_vars
  <2> SUFFICES ASSUME IInv, [Next]_vars, ~objects["deployment"].exists,
                      objects'["deployment"].exists
               PROVE  /\ objects["config"].exists
                      /\ objects["config"].owner = mem.uid
                      /\ Reads(kind, mem.spec) # {} =>
                           /\ given.password # 0
                           /\ objects["config"].password # 0
                                \/ Passwordless(kind)
                      /\ kind \in GenesisMounted /\ mem.spec.genesis
                           => given.genesis
                      /\ mem.spec.enrolment /\ mem.uid = 1
                           => \A c \in Cert \ Omitted[kind] : objects[c].exists
    OBVIOUS
  <2>t. /\ TypeOK /\ FreshIsCurrent /\ PasswordsChosen /\ OwnedByPast
        /\ "deployment" \in Object /\ plan \in Seq(Step)
        /\ ~NoObject.exists
    BY NoObjectType DEF IInv, Base, TypeOK, Object, Workload
  <2>1. pc = "pipeline" /\ plan # <<>> /\ Head(plan) = <<"write", "deployment">>
    <3>1. ASSUME NEW o, Put(o, NoObject) PROVE FALSE
      BY <2>t, <3>1, PutSeen
    <3>2. ~BindVolume
      BY <2>t, BindEffect
    <3>3. ~CleanupObject
      BY <2>t, <3>1, CleanupEffect DEF outside
    <3>4. ~ \E o \in Object : GarbageCollect(o)
      BY <3>1 DEF GarbageCollect, Remove
    <3>5. Pipeline
      BY <3>2, <3>3, <3>4, QuietSteps
    <3>6. PICK object : /\ pc = "pipeline"
                        /\ Fits(Subject, object) /\ Put(Subject, object)
      BY <2>t, <3>5, PipelineMakes DEF outside
    <3>7. Subject = "deployment"
      BY <2>t, <3>6, PutSeen
    <3>8. plan # <<>>
      BY <3>5, <3>6
      DEF Pipeline, SkipStep, Enrol, StoreCertificate, CheckGenesis,
          ReconcileConfig, ReconcileService, ReconcileDeployment,
          ReplaceVolumeClaim, KeepVolumeClaim, WaitForVolume, ReconcileRoute,
          ReconcileIstio, At
    <3>9. QED BY <3>6, <3>7, <3>8 DEF Fits
  <2>2. Left(<<"write", "deployment">>)
    <3>1. 1 \in 1 .. Len(plan) /\ plan[1] = Head(plan)
      BY <2>t, <2>1
    <3>2. QED BY <2>1, <3>1 DEF Left
  <2>3. /\ Ordered(plan) /\ ConfigDone /\ GenesisDone
        /\ mem.spec.enrolment /\ mem.uid = 1 =>
             \A c \in Cert \ Omitted[kind] : CertificateDone(c)
    BY <2>1, <2>2 DEF IInv, InputsFirst
  <2>4. /\ ~Left(<<"write", "config">>) /\ ~Left(<<"check", "genesis">>)
        /\ \A c \in Cert : ~Left(<<"store", c>>)
    <3>1. /\ Rank(<<"write", "config">>) = 2 /\ Rank(<<"check", "genesis">>) = 2
          /\ Rank(<<"write", "deployment">>) = 3
          /\ \A c \in Cert : Rank(<<"store", c>>) = 2
      BY Ranks DEF Object, Cert, Input
    <3>2. ASSUME NEW step, Rank(step) = 2 PROVE ~Has(plan, step)
      <4>1. Rank(step) # 0 /\ ~(Rank(Head(plan)) <= Rank(step))
        BY <2>1, <3>1, <3>2
      <4>2. QED BY <2>t, <2>1, <2>3, <4>1, HeadFirst
    <3>3. QED BY <3>1, <3>2 DEF Left, Has
  <2>5. \A c \in Cert : CertificateDone(c) => objects[c].exists
    BY <2>4 DEF CertificateDone
  <2>6. objects["config"].exists => objects["config"].password # 0
                                      \/ Passwordless(kind)
    BY <2>t DEF PasswordsChosen
  <2>7. QED BY <2>3, <2>4, <2>5, <2>6 DEF ConfigDone, GenesisDone
<1>2. QED BY <1>1, Invariance, PTL DEF Spec, DeployedWithInputs
=============================================================================
