-------------------------- MODULE DeploymentProofs --------------------------
(***************************************************************************)
(* Theorems about Deployment, for any configurations, any release and any  *)
(* exports that are at work beside generate.                               *)
(***************************************************************************)
EXTENDS Deployment, ExportProofs

Records == {Resolved(id, Loaded) : id \in DOMAIN Loaded.tenants}

\* seq has the first n tenants.
Lists(seq, n) ==
    /\ seq \in Seq(Records)
    /\ Len(seq) = n
    /\ \A i \in 1..n : seq[i] = Resolved(Ids[i], Loaded)

GeneratedSoFar ==
    IF phase = "validate" \/ verdict = "refused" THEN 0
    ELSE IF phase = "generate" THEN index - 1 ELSE Len(Ids)

ComposedSoFar ==
    IF phase \in {"validate", "generate"} \/ verdict = "refused" THEN 0
    ELSE IF phase = "compose" THEN index - 1 ELSE Len(Ids)

ControlInv ==
    /\ conf \in DOMAIN Configuration
    /\ networked \in BOOLEAN
    /\ phase \in Phases
    /\ index \in Nat \ {0}
    /\ phase = "validate" => index = 1
    /\ phase \in {"generate", "compose", "schemas"} => index \in DOMAIN Ids
    /\ phase = "templates" => index \in DOMAIN Wanted
    /\ ready \in BOOLEAN
    /\ verdict \in {"none", "ok", "refused", "noAsset"}
    /\ phase = "done" <=> verdict # "none"

\* What is generated has been accepted.
AcceptedInv == phase # "validate" /\ verdict # "refused" => Valid(Loaded)

GeneratedInv == Lists(generated, GeneratedSoFar)

\* A backend is a tenant's behind ProxySQL, and every such tenant has one.
Suits(backend, tenant) ==
    /\ tenant.deployment = "proxysql"
    /\ backend.server = tenant.backend
    /\ backend.login = tenant.login

DataInv ==
    /\ Lists(data.tenants, ComposedSoFar)
    /\ data.backends \in Seq({Backend(tenant, g) : tenant \in Records, g \in Nat})
    /\ \A b \in DOMAIN data.backends :
         /\ data.backends[b].group = 9 + b
         /\ \E i \in DOMAIN data.tenants : Suits(data.backends[b], data.tenants[i])
    /\ \A i \in DOMAIN data.tenants :
         data.tenants[i].deployment = "proxysql" =>
             \E b \in DOMAIN data.backends : Suits(data.backends[b], data.tenants[i])
    /\ data.container \in BOOLEAN
    /\ data.container <=> \E i \in DOMAIN data.tenants : data.tenants[i].deployment = "container"

GenerateInv == ControlInv /\ AcceptedInv /\ GeneratedInv /\ DataInv

-----------------------------------------------------------------------------
LEMMA IdsFacts ==
    ASSUME conf \in DOMAIN Configuration
    PROVE  /\ Ids \in Seq(DOMAIN Loaded.tenants)
           /\ Len(Ids) \in Nat
           /\ DOMAIN Ids = 1..Len(Ids)
           /\ \A i, j \in DOMAIN Ids : Ids[i] = Ids[j] => i = j
           /\ \A id \in DOMAIN Loaded.tenants : \E i \in DOMAIN Ids : Ids[i] = id
<1>1. /\ Ids \in Seq(DOMAIN Loaded.tenants)
      /\ IsInjective(Ids)
      /\ ToSet(Ids) = DOMAIN Loaded.tenants
  BY ConfigurationAssumption DEF Ids, Loaded
<1>2. Len(Ids) \in Nat /\ DOMAIN Ids = 1..Len(Ids)
  BY <1>1
<1>3. \A id \in DOMAIN Loaded.tenants : \E i \in DOMAIN Ids : Ids[i] = id
  BY <1>1 DEF ToSet
<1> QED
  BY <1>1, <1>2, <1>3 DEF IsInjective

LEMMA WantedFacts ==
    /\ Wanted \in Seq({"docker-compose.yml", "entrypoint.sh", "proxysql.cnf"})
    /\ Len(Wanted) = (IF HasProxy(data) THEN 3 ELSE 2)
    /\ DOMAIN Wanted = 1..Len(Wanted)
    /\ Wanted[1] = "docker-compose.yml" /\ Wanted[2] = "entrypoint.sh"
    /\ HasProxy(data) => Wanted[3] = "proxysql.cnf"
<1>1. CASE HasProxy(data)
  <2>1. Wanted = <<"docker-compose.yml", "entrypoint.sh", "proxysql.cnf">>
    BY <1>1 DEF Wanted
  <2> QED
    BY <1>1, <2>1
<1>2. CASE ~HasProxy(data)
  <2>1. Wanted = <<"docker-compose.yml", "entrypoint.sh">>
    BY <1>2 DEF Wanted
  <2> QED
    BY <1>2, <2>1
<1> QED
  BY <1>1, <1>2

LEMMA AddedFacts ==
    ASSUME NEW path, NEW source, files' = Added(path, source)
    PROVE  /\ DOMAIN files' = DOMAIN files \cup {path}
           /\ \A p \in DOMAIN files' : files'[p] = IF p = path THEN source ELSE files[p]
BY DEF Added

-----------------------------------------------------------------------------
\* The configuration stays, and what only depends on it.
LEMMA LoadedStays ==
    ASSUME UNCHANGED conf
    PROVE  Loaded' = Loaded /\ Ids' = Ids /\ Records' = Records
BY DEF Loaded, Ids, Records

LEMMA ListsStay ==
    ASSUME UNCHANGED conf, NEW seq, NEW n, Lists(seq, n)
    PROVE  Lists(seq, n)'
BY LoadedStays DEF Lists

LEMMA ListsOneMore ==
    ASSUME conf \in DOMAIN Configuration, NEW seq, NEW n \in Nat, Lists(seq, n), n + 1 \in DOMAIN Ids
    PROVE  Lists(Append(seq, Resolved(Ids[n + 1], Loaded)), n + 1)
<1>1. Resolved(Ids[n + 1], Loaded) \in Records
  BY IdsFacts DEF Records
<1> QED
  BY <1>1 DEF Lists

LEMMA GeneratedStays ==
    ASSUME UNCHANGED <<conf, generated>>, GeneratedSoFar' = GeneratedSoFar, GeneratedInv
    PROVE  GeneratedInv'
BY LoadedStays DEF GeneratedInv, Lists

LEMMA DataStays ==
    ASSUME UNCHANGED <<conf, data>>, ComposedSoFar' = ComposedSoFar, DataInv
    PROVE  DataInv' /\ Wanted' = Wanted
BY LoadedStays DEF DataInv, Lists, Suits, Wanted, HasProxy

\* The facts about a phase that every step of generate starts from.
LEMMA PhaseFacts ==
    ASSUME GenerateInv
    PROVE  /\ conf \in DOMAIN Configuration
           /\ Len(Ids) \in Nat /\ DOMAIN Ids = 1..Len(Ids)
           /\ index \in Nat \ {0}
           /\ GeneratedSoFar \in Nat /\ ComposedSoFar \in Nat
           /\ DOMAIN Wanted = 1..Len(Wanted) /\ Len(Wanted) \in {2, 3}
           /\ Len(generated) = GeneratedSoFar /\ DOMAIN generated = 1..GeneratedSoFar
           /\ Len(data.tenants) = ComposedSoFar /\ DOMAIN data.tenants = 1..ComposedSoFar
<1>1. conf \in DOMAIN Configuration /\ index \in Nat \ {0}
  BY DEF GenerateInv, ControlInv
<1>2. Len(Ids) \in Nat /\ DOMAIN Ids = 1..Len(Ids)
  BY <1>1, IdsFacts
<1>3. GeneratedSoFar \in Nat /\ ComposedSoFar \in Nat
  BY <1>1, <1>2 DEF GeneratedSoFar, ComposedSoFar
<1>4. DOMAIN Wanted = 1..Len(Wanted) /\ Len(Wanted) \in {2, 3}
  BY WantedFacts
<1>5. Len(generated) = GeneratedSoFar /\ DOMAIN generated = 1..GeneratedSoFar
  BY DEF GenerateInv, GeneratedInv, Lists
<1>6. Len(data.tenants) = ComposedSoFar /\ DOMAIN data.tenants = 1..ComposedSoFar
  BY DEF GenerateInv, DataInv, Lists
<1> QED
  BY <1>1, <1>2, <1>3, <1>4, <1>5, <1>6

LEMMA ValidateStep == GenerateInv /\ Validate => GenerateInv'
<1> SUFFICES ASSUME GenerateInv, Validate
             PROVE  GenerateInv'
  OBVIOUS
<1>1. /\ phase = "validate" /\ index = 1 /\ verdict = "none"
      /\ UNCHANGED <<conf, networked, generated, data, files>>
      /\ (Ids = << >>) <=> (Len(Ids) = 0)
  BY IdsFacts DEF Validate, GenerateInv, ControlInv
<1>2. ready' \in BOOLEAN
  <2> DEFINE There == ~meddled /\ \E p \in Exports : result[p] = "ok"
  <2>1. There \in BOOLEAN
    OBVIOUS
  <2> QED
    BY <2>1 DEF Validate, ReleaseIsThere
<1>3. \/ ~Valid(Loaded) /\ phase' = "done" /\ index' = 1 /\ verdict' = "refused"
      \/ /\ Valid(Loaded) /\ Len(Ids) = 0
         /\ phase' = "templates" /\ index' = 1 /\ verdict' = "none"
      \/ /\ Valid(Loaded) /\ 1 \in DOMAIN Ids
         /\ phase' = "generate" /\ index' = 1 /\ verdict' = "none"
  <2>1. CASE ~Valid(Loaded)
    BY <2>1 DEF Validate, Conclude
  <2>2. CASE Valid(Loaded) /\ Ids = << >>
    BY <1>1, <2>2 DEF Validate, Turn
  <2>3. CASE Valid(Loaded) /\ Ids # << >>
    BY <1>1, <2>3, PhaseFacts DEF Validate, Turn
  <2> QED
    BY <2>1, <2>2, <2>3
<1>4. GeneratedSoFar' = GeneratedSoFar /\ ComposedSoFar' = ComposedSoFar
  BY <1>1, <1>3, LoadedStays DEF GeneratedSoFar, ComposedSoFar
<1>5. GeneratedInv' /\ DataInv' /\ Wanted' = Wanted
  BY <1>1, <1>4, GeneratedStays, DataStays DEF GenerateInv
<1>6. ControlInv' /\ AcceptedInv'
  BY <1>1, <1>2, <1>3, <1>5, PhaseFacts, LoadedStays
     DEF GenerateInv, ControlInv, AcceptedInv, Phases
<1> QED
  BY <1>5, <1>6 DEF GenerateInv

LEMMA GenerateTenantStep == GenerateInv /\ GenerateTenant => GenerateInv'
<1> SUFFICES ASSUME GenerateInv, GenerateTenant
             PROVE  GenerateInv'
  OBVIOUS
<1>1. /\ phase = "generate" /\ index \in DOMAIN Ids /\ verdict = "none"
      /\ UNCHANGED <<conf, networked, data, files, ready, verdict>>
      /\ generated' = Append(generated, Resolved(Ids[index], Loaded))
  BY DEF GenerateTenant, GenerateInv, ControlInv, Turn
<1>2. \/ phase' = "generate" /\ index < Len(Ids) /\ index' = index + 1
      \/ phase' = "compose" /\ index = Len(Ids) /\ index' = 1
  BY <1>1, PhaseFacts DEF GenerateTenant, Turn
<1>3. GeneratedSoFar = index - 1 /\ GeneratedSoFar' = index
  BY <1>1, <1>2, PhaseFacts, LoadedStays DEF GeneratedSoFar
<1>4. GeneratedInv'
  <2>1. Lists(generated', index)
    <3>1. Lists(generated, index - 1) /\ (index - 1) + 1 = index
      BY <1>3, PhaseFacts DEF GenerateInv, GeneratedInv
    <3> QED
      BY <1>1, <3>1, ListsOneMore, PhaseFacts
  <2> QED
    BY <1>1, <1>3, <2>1, LoadedStays DEF GeneratedInv, Lists
<1>5. ComposedSoFar' = ComposedSoFar
  BY <1>1, <1>2 DEF ComposedSoFar
<1>6. DataInv' /\ Wanted' = Wanted
  BY <1>1, <1>5, DataStays DEF GenerateInv
<1>7. ControlInv'
  <2>1. index' \in Nat \ {0} /\ index' \in DOMAIN Ids
    BY <1>1, <1>2, PhaseFacts
  <2> QED
    BY <1>1, <1>2, <1>6, <2>1, LoadedStays DEF GenerateInv, ControlInv, Phases
<1>8. AcceptedInv'
  BY <1>1, <1>2, LoadedStays DEF GenerateInv, AcceptedInv
<1> QED
  BY <1>4, <1>6, <1>7, <1>8 DEF GenerateInv

LEMMA AddKeeps ==
    ASSUME GenerateInv, phase = "compose", data' = Add(data, generated[index]), UNCHANGED conf,
           ComposedSoFar' = index
    PROVE  DataInv'
<1> DEFINE tenant == generated[index]
           D      == data'
           n      == Len(data.backends)
<1>1. /\ index \in DOMAIN Ids /\ tenant \in Records
      /\ tenant = Resolved(Ids[index], Loaded)
      /\ Lists(data.tenants, index - 1)
      /\ Len(data.tenants) = index - 1
  BY PhaseFacts
     DEF GenerateInv, ControlInv, GeneratedInv, DataInv, Lists, GeneratedSoFar, ComposedSoFar
<1>2. D.tenants = Append(data.tenants, tenant) /\ Lists(D.tenants, index)
  <2>1. (index - 1) + 1 = index /\ index - 1 \in Nat
    BY PhaseFacts
  <2> QED
    BY <1>1, <2>1, ListsOneMore, PhaseFacts DEF Add
<1>3. /\ DOMAIN D.tenants = 1..index
      /\ D.tenants[index] = tenant
      /\ \A i \in DOMAIN data.tenants : i \in DOMAIN D.tenants /\ D.tenants[i] = data.tenants[i]
      /\ \A i \in DOMAIN D.tenants : i = index \/ i \in DOMAIN data.tenants
  <2>1. index \in Nat \ {0} /\ data.tenants \in Seq(Records) /\ Len(data.tenants) = index - 1
    BY <1>1, PhaseFacts DEF Lists
  <2> HIDE DEF tenant
  <2>2. data.tenants \in Seq(Records) /\ tenant \in Records
    BY <1>1, <2>1
  <2>3. D.tenants = Append(data.tenants, tenant)
    BY <1>2
  <2> HIDE DEF D
  <2> QED
    BY <2>1, <2>2, <2>3
<1>4. n \in Nat /\ DOMAIN data.backends = 1..n
  BY DEF GenerateInv, DataInv
<1>5. ASSUME NEW b \in DOMAIN D.backends, NEW i \in DOMAIN D.tenants,
             b \in DOMAIN data.backends, i \in DOMAIN data.tenants,
             D.backends[b] = data.backends[b], Suits(data.backends[b], data.tenants[i])
      PROVE  Suits(D.backends[b], D.tenants[i])
  BY <1>3, <1>5
<1>6. D.container \in BOOLEAN
      /\ (D.container <=> \E i \in DOMAIN D.tenants : D.tenants[i].deployment = "container")
  <2>1. D.container <=> (data.container \/ tenant.deployment = "container")
    BY DEF Add
  <2>2. data.container <=> \E i \in DOMAIN data.tenants : data.tenants[i].deployment = "container"
    BY DEF GenerateInv, DataInv
  <2>3. index \in DOMAIN D.tenants
    BY <1>3, PhaseFacts
  <2>4. D.container \in BOOLEAN
    BY DEF Add
  <2> HIDE DEF D, tenant
  <2> QED
    BY <1>3, <2>1, <2>2, <2>3, <2>4
<1>7. CASE tenant.deployment = "proxysql"
  <2>1. /\ D.backends = Append(data.backends, Backend(tenant, 10 + n))
        /\ Backend(tenant, 10 + n) \in {Backend(t, g) : t \in Records, g \in Nat}
    BY <1>1, <1>4, <1>7 DEF Add, NextGroup
  <2>2. /\ D.backends \in Seq({Backend(t, g) : t \in Records, g \in Nat})
        /\ DOMAIN D.backends = 1..(n + 1)
        /\ D.backends[n + 1] = Backend(tenant, 10 + n)
        /\ \A b \in DOMAIN data.backends : b \in DOMAIN D.backends /\ D.backends[b] = data.backends[b]
        /\ \A b \in DOMAIN D.backends : b = n + 1 \/ b \in DOMAIN data.backends
    <3>1. data.backends \in Seq({Backend(t, g) : t \in Records, g \in Nat})
      BY DEF GenerateInv, DataInv
    <3> HIDE DEF D, tenant
    <3> QED
      BY <1>4, <2>1, <3>1
  <2>3. Suits(D.backends[n + 1], D.tenants[index])
    BY <1>3, <1>7, <2>2 DEF Suits, Backend
  <2>4. ASSUME NEW b \in DOMAIN D.backends
        PROVE  D.backends[b].group = 9 + b /\ \E i \in DOMAIN D.tenants : Suits(D.backends[b], D.tenants[i])
    <3>1. CASE b = n + 1
      <4>1. D.backends[b].group = 10 + n
        BY <2>2, <3>1 DEF Backend
      <4> QED
        BY <1>3, <1>4, <2>3, <3>1, <4>1, PhaseFacts
    <3>2. CASE b \in DOMAIN data.backends
      <4>1. PICK i \in DOMAIN data.tenants : Suits(data.backends[b], data.tenants[i])
        BY <3>2 DEF GenerateInv, DataInv
      <4>2. Suits(D.backends[b], D.tenants[i]) /\ i \in DOMAIN D.tenants
        BY <1>3, <1>5, <2>2, <2>4, <3>2, <4>1
      <4>3. data.backends[b].group = 9 + b
        BY <3>2 DEF GenerateInv, DataInv
      <4>4. D.backends[b] = data.backends[b]
        BY <2>2, <3>2
      <4> QED
        BY <4>2, <4>3, <4>4
    <3> QED
      BY <2>2, <3>1, <3>2
  <2>5. ASSUME NEW i \in DOMAIN D.tenants, D.tenants[i].deployment = "proxysql"
        PROVE  \E b \in DOMAIN D.backends : Suits(D.backends[b], D.tenants[i])
    <3>1. CASE i = index
      BY <1>4, <2>2, <2>3, <3>1
    <3>2. CASE i \in DOMAIN data.tenants
      <4>1. PICK b \in DOMAIN data.backends : Suits(data.backends[b], data.tenants[i])
        BY <1>3, <2>5, <3>2 DEF GenerateInv, DataInv
      <4> QED
        BY <1>5, <2>2, <2>5, <3>2, <4>1
    <3> QED
      BY <1>3, <3>1, <3>2
  <2> QED
    BY SMTT(30), <1>2, <1>6, <2>2, <2>4, <2>5, LoadedStays DEF DataInv, Lists
<1>8. CASE tenant.deployment # "proxysql"
  <2>1. D.backends = data.backends
    BY <1>8 DEF Add
  <2>2. ASSUME NEW b \in DOMAIN D.backends
        PROVE  D.backends[b].group = 9 + b /\ \E i \in DOMAIN D.tenants : Suits(D.backends[b], D.tenants[i])
    <3>1. PICK i \in DOMAIN data.tenants : Suits(data.backends[b], data.tenants[i])
      BY <2>1 DEF GenerateInv, DataInv
    <3>2. Suits(D.backends[b], D.tenants[i]) /\ i \in DOMAIN D.tenants
      BY <1>3, <1>5, <2>1, <2>2, <3>1
    <3> QED
      BY <2>1, <3>2 DEF GenerateInv, DataInv
  <2>3. ASSUME NEW i \in DOMAIN D.tenants, D.tenants[i].deployment = "proxysql"
        PROVE  \E b \in DOMAIN D.backends : Suits(D.backends[b], D.tenants[i])
    <3>1. i \in DOMAIN data.tenants
      BY <1>3, <1>8, <2>3
    <3>2. PICK b \in DOMAIN data.backends : Suits(data.backends[b], data.tenants[i])
      BY <1>3, <2>3, <3>1 DEF GenerateInv, DataInv
    <3> QED
      BY <1>5, <2>1, <2>3, <3>1, <3>2
  <2>4. data.backends \in Seq({Backend(t, g) : t \in Records, g \in Nat})
    BY DEF GenerateInv, DataInv
  <2> QED
    BY SMTT(30), <1>2, <1>6, <2>1, <2>2, <2>3, <2>4, LoadedStays DEF DataInv, Lists
<1> QED
  BY <1>7, <1>8

LEMMA NewComposeDataStep == GenerateInv /\ NewComposeData => GenerateInv'
<1> SUFFICES ASSUME GenerateInv, NewComposeData
             PROVE  GenerateInv'
  OBVIOUS
<1>1. /\ phase = "compose" /\ index \in DOMAIN Ids /\ verdict = "none"
      /\ UNCHANGED <<conf, networked, generated, files, ready, verdict>>
      /\ data' = Add(data, generated[index])
  BY DEF NewComposeData, GenerateInv, ControlInv, Turn
<1>2. Len(generated) = Len(Ids)
  BY <1>1, PhaseFacts DEF GeneratedSoFar
<1>3. \/ phase' = "compose" /\ index < Len(Ids) /\ index' = index + 1
      \/ phase' = "templates" /\ index = Len(Ids) /\ index' = 1
  BY <1>1, <1>2, PhaseFacts DEF NewComposeData, Turn
<1>4. ComposedSoFar' = index /\ GeneratedSoFar' = GeneratedSoFar
  BY <1>1, <1>3, PhaseFacts, LoadedStays DEF ComposedSoFar, GeneratedSoFar
<1>5. DataInv'
  BY <1>1, <1>4, AddKeeps
<1>6. GeneratedInv'
  BY <1>1, <1>4, GeneratedStays DEF GenerateInv
<1>7. 1 \in DOMAIN Wanted'
  BY WantedFacts DEF Wanted, HasProxy
<1>8. ControlInv'
  <2>1. index' \in Nat \ {0} /\ index' \in DOMAIN Ids
    BY <1>1, <1>3, PhaseFacts
  <2> QED
    BY <1>1, <1>3, <1>7, <2>1, LoadedStays DEF GenerateInv, ControlInv, Phases
<1>9. AcceptedInv'
  BY <1>1, <1>3, LoadedStays DEF GenerateInv, AcceptedInv
<1> QED
  BY <1>5, <1>6, <1>8, <1>9 DEF GenerateInv

\* The loop over the templates goes on, ends in that over the schemas, or ends
\* generate; files are only added.
LEMMA RenderOutcome ==
    ASSUME GenerateInv, Render
    PROVE  /\ phase = "templates" /\ index \in DOMAIN Wanted /\ verdict = "none"
           /\ UNCHANGED <<conf, networked, generated, data, ready>>
           /\ \/ /\ phase' = "done" /\ index' = 1 /\ verdict' = "noAsset"
                 /\ UNCHANGED files
                 /\ \/ ~Readable(TemplatePath(Wanted[index]))
                    \/ ~Parses(TemplatePath(Wanted[index]))
              \/ /\ Readable(TemplatePath(Wanted[index]))
                 /\ files' = Added(<<Wanted[index]>>, library[TemplatePath(Wanted[index])])
                 /\ \/ /\ phase' = "templates" /\ index' = index + 1 /\ index < Len(Wanted)
                       /\ verdict' = "none"
                    \/ /\ phase' = "schemas" /\ index' = 1 /\ index = Len(Wanted)
                       /\ verdict' = "none" /\ 1 \in DOMAIN Ids
                    \/ /\ phase' = "done" /\ index' = 1 /\ index = Len(Wanted)
                       /\ verdict' = "ok" /\ Len(Ids) = 0
<1>1. /\ phase = "templates" /\ index \in DOMAIN Wanted /\ verdict = "none"
      /\ UNCHANGED <<conf, networked, generated, data, ready>>
  BY DEF Render, GenerateInv, ControlInv
<1>2. CASE /\ ~Readable(TemplatePath(Wanted[index])) \/ ~Parses(TemplatePath(Wanted[index]))
           /\ Conclude("noAsset") /\ UNCHANGED files
  BY <1>1, <1>2 DEF Conclude
<1>3. CASE /\ Readable(TemplatePath(Wanted[index]))
           /\ files' = Added(<<Wanted[index]>>, library[TemplatePath(Wanted[index])])
           /\ IF index = Len(Wanted) /\ Ids = << >> THEN Conclude("ok")
              ELSE Turn(Len(Wanted), "schemas")
  <2>1. CASE index = Len(Wanted) /\ Ids = << >>
    <3>1. Len(Ids) = 0
      BY <2>1
    <3> QED
      BY <1>1, <1>3, <2>1, <3>1 DEF Conclude
  <2>2. CASE index = Len(Wanted) /\ Ids # << >>
    <3>1. Ids \in Seq(DOMAIN Loaded.tenants)
      BY PhaseFacts, IdsFacts
    <3>2. 1 \in DOMAIN Ids
      BY <2>2, <3>1
    <3> QED
      BY <1>1, <1>3, <2>2, <3>2, PhaseFacts DEF Turn
  <2>3. CASE index # Len(Wanted)
    BY <1>1, <1>3, <2>3, PhaseFacts DEF Turn
  <2> QED
    BY <2>1, <2>2, <2>3
<1> QED
  BY <1>2, <1>3 DEF Render

LEMMA RenderStep == GenerateInv /\ Render => GenerateInv'
<1> SUFFICES ASSUME GenerateInv, Render
             PROVE  GenerateInv'
  OBVIOUS
<1>1. GeneratedSoFar' = GeneratedSoFar /\ ComposedSoFar' = ComposedSoFar
  BY RenderOutcome, LoadedStays DEF GeneratedSoFar, ComposedSoFar
<1>2. GeneratedInv' /\ DataInv' /\ Wanted' = Wanted
  BY <1>1, RenderOutcome, GeneratedStays, DataStays DEF GenerateInv
<1>3. index' \in Nat \ {0} /\ (phase' = "templates" => index' \in DOMAIN Wanted)
  BY RenderOutcome, PhaseFacts
<1>4. ControlInv'
  BY <1>2, <1>3, RenderOutcome, LoadedStays DEF GenerateInv, ControlInv, Phases
<1>5. AcceptedInv'
  BY RenderOutcome, LoadedStays DEF GenerateInv, AcceptedInv
<1> QED
  BY <1>2, <1>4, <1>5 DEF GenerateInv

SchemaFile(tenant) == <<tenant.id, "database", "schema.sql">>

LEMMA LoadSchemaOutcome ==
    ASSUME GenerateInv, LoadSchema
    PROVE  /\ phase = "schemas" /\ index \in DOMAIN Ids /\ verdict = "none"
           /\ UNCHANGED <<conf, networked, generated, data, ready>>
           /\ \/ /\ phase' = "done" /\ index' = 1 /\ verdict' = "noAsset"
                 /\ generated[index].deployment = "container"
                 /\ ~Readable(SchemaPath(generated[index].version)) /\ UNCHANGED files
              \/ /\ \/ generated[index].deployment # "container" /\ UNCHANGED files
                    \/ /\ generated[index].deployment = "container"
                       /\ Readable(SchemaPath(generated[index].version))
                       /\ files' = Added(SchemaFile(generated[index]),
                                         library[SchemaPath(generated[index].version)])
                 /\ \/ /\ phase' = "schemas" /\ index' = index + 1 /\ index < Len(Ids)
                       /\ verdict' = "none"
                    \/ /\ phase' = "done" /\ index' = 1 /\ index = Len(Ids)
                       /\ verdict' = "ok"
<1>1. /\ phase = "schemas" /\ index \in DOMAIN Ids /\ verdict = "none"
      /\ UNCHANGED <<conf, networked, generated, data, ready>>
  BY DEF LoadSchema, GenerateInv, ControlInv
<1> DEFINE needed == generated[index].deployment = "container"
           path == SchemaPath(generated[index].version)
<1>2. CASE needed /\ ~Readable(path)
  BY <1>1, <1>2 DEF LoadSchema, Conclude
<1>3. CASE needed => Readable(path)
  <2>1. \/ ~needed /\ UNCHANGED files
        \/ needed /\ Readable(path) /\ files' = Added(SchemaFile(generated[index]), library[path])
    BY <1>3 DEF LoadSchema, SchemaFile
  <2>2. CASE index = Len(Ids)
    <3>1. phase' = "done" /\ index' = 1 /\ verdict' = "ok"
      BY <1>3, <2>2 DEF LoadSchema, Conclude
    <3> QED
      BY <1>1, <2>1, <2>2, <3>1
  <2>3. CASE index # Len(Ids)
    <3>1. phase' = "schemas" /\ index' = index + 1 /\ index < Len(Ids) /\ verdict' = "none"
      BY <1>1, <1>3, <2>3, PhaseFacts DEF LoadSchema, Turn
    <3> QED
      BY <1>1, <2>1, <3>1
  <2> QED
    BY <2>2, <2>3
<1> QED
  BY <1>2, <1>3

LEMMA LoadSchemaStep == GenerateInv /\ LoadSchema => GenerateInv'
<1> SUFFICES ASSUME GenerateInv, LoadSchema
             PROVE  GenerateInv'
  OBVIOUS
<1>1. GeneratedSoFar' = GeneratedSoFar /\ ComposedSoFar' = ComposedSoFar
  BY LoadSchemaOutcome, LoadedStays DEF GeneratedSoFar, ComposedSoFar
<1>2. GeneratedInv' /\ DataInv' /\ Wanted' = Wanted
  BY <1>1, LoadSchemaOutcome, GeneratedStays, DataStays DEF GenerateInv
<1>3. index' \in Nat \ {0} /\ (phase' = "schemas" => index' \in DOMAIN Ids)
  BY LoadSchemaOutcome, PhaseFacts
<1>4. ControlInv'
  BY <1>2, <1>3, LoadSchemaOutcome, LoadedStays DEF GenerateInv, ControlInv, Phases
<1>5. AcceptedInv'
  BY LoadSchemaOutcome, LoadedStays DEF GenerateInv, AcceptedInv
<1> QED
  BY <1>2, <1>4, <1>5 DEF GenerateInv

LEMMA GenerateStep == GenerateInv /\ [DeploymentNext]_deploymentvars => GenerateInv'
<1> SUFFICES ASSUME GenerateInv, [DeploymentNext]_deploymentvars
             PROVE  GenerateInv'
  OBVIOUS
<1>1. CASE Generate
  BY <1>1, ValidateStep, GenerateTenantStep, NewComposeDataStep, RenderStep, LoadSchemaStep
     DEF Generate
<1>2. CASE UNCHANGED generatevars
  <2>1. UNCHANGED <<conf, networked, phase, index, generated, data, files, ready, verdict>>
    BY <1>2 DEF generatevars
  <2>2. GeneratedSoFar' = GeneratedSoFar /\ ComposedSoFar' = ComposedSoFar
    BY <2>1, LoadedStays DEF GeneratedSoFar, ComposedSoFar
  <2>3. GeneratedInv' /\ DataInv' /\ Wanted' = Wanted
    BY <2>1, <2>2, GeneratedStays, DataStays DEF GenerateInv
  <2> QED
    BY <2>1, <2>3, LoadedStays DEF GenerateInv, ControlInv, AcceptedInv
<1> QED
  BY <1>1, <1>2 DEF DeploymentNext, deploymentvars

LEMMA GenerateInitial == GenerateInit => GenerateInv
<1> SUFFICES ASSUME GenerateInit
             PROVE  GenerateInv
  OBVIOUS
<1>1. GeneratedSoFar = 0 /\ ComposedSoFar = 0
  BY DEF GenerateInit, GeneratedSoFar, ComposedSoFar
<1>2. Lists(<< >>, 0)
  BY DEF Lists
<1>3. ControlInv /\ AcceptedInv
  <2>1. ready \in BOOLEAN /\ networked \in BOOLEAN /\ conf \in DOMAIN Configuration
    BY DEF GenerateInit
  <2>2. phase = "validate" /\ index = 1 /\ verdict = "none"
    BY DEF GenerateInit
  <2> QED
    BY <2>1, <2>2 DEF ControlInv, AcceptedInv, Phases
<1>4. GeneratedInv
  BY <1>1, <1>2 DEF GenerateInit, GeneratedInv
<1>5. data.tenants = << >> /\ data.backends = << >> /\ ~data.container /\ data.container \in BOOLEAN
  BY DEF GenerateInit, NoData
<1>6. DOMAIN data.tenants = {} /\ DOMAIN data.backends = {}
  BY <1>5
<1>7. data.backends \in Seq({Backend(tenant, g) : tenant \in Records, g \in Nat})
  BY <1>5
<1>8. DataInv
  BY <1>1, <1>2, <1>5, <1>6, <1>7 DEF DataInv
<1> QED
  BY <1>3, <1>4, <1>8 DEF GenerateInv

LEMMA GenerateInvariant == DeploymentSpec => []GenerateInv
BY GenerateInitial, GenerateStep, PTL DEF DeploymentSpec

LEMMA ExportsOfDeployment == DeploymentSpec => ExportSpec
<1>1. [DeploymentNext]_deploymentvars => [ExportNext]_exportvars
  BY DEF DeploymentNext, deploymentvars
<1> QED
  BY <1>1, PTL DEF DeploymentSpec, ExportSpec

-----------------------------------------------------------------------------
\* Tenants and what was made of them.

LEMMA RecordFields ==
    ASSUME NEW id, NEW c
    PROVE  /\ Resolved(id, c).id = id
           /\ Resolved(id, c).deployment = DeploymentOf(c.tenants[id].database)
           /\ Resolved(id, c).endpoint = Endpoint(id, c.tenants[id].database)
           /\ Resolved(id, c).version = c.tenants[id].server.version
           /\ Resolved(id, c).backend = [host |-> c.tenants[id].database.host,
                                         port |-> c.tenants[id].database.port]
           /\ Resolved(id, c).login = [database |-> c.tenants[id].database.database,
                                       username |-> c.tenants[id].database.username,
                                       password |-> c.tenants[id].database.password]
BY DEF Resolved

LEMMA GeneratedIsResolved ==
    ASSUME GenerateInv
    PROVE  /\ \A i \in DOMAIN generated : /\ generated[i] = Resolved(Ids[i], Loaded)
                                          /\ Ids[i] \in DOMAIN Loaded.tenants
           /\ \A i \in DOMAIN data.tenants : /\ data.tenants[i] = Resolved(Ids[i], Loaded)
                                            /\ Ids[i] \in DOMAIN Loaded.tenants
<1>1. GeneratedSoFar <= Len(Ids) /\ ComposedSoFar <= Len(Ids)
  BY PhaseFacts DEF GenerateInv, ControlInv, GeneratedSoFar, ComposedSoFar
<1>2. \A i \in 1..Len(Ids) : Ids[i] \in DOMAIN Loaded.tenants
  BY PhaseFacts, IdsFacts
<1>3. ASSUME NEW i \in DOMAIN generated
      PROVE  generated[i] = Resolved(Ids[i], Loaded) /\ i \in 1..Len(Ids)
  <2>1. i \in 1..GeneratedSoFar
    BY PhaseFacts
  <2> QED
    BY <1>1, <2>1, PhaseFacts DEF GenerateInv, GeneratedInv, Lists
<1>4. ASSUME NEW i \in DOMAIN data.tenants
      PROVE  data.tenants[i] = Resolved(Ids[i], Loaded) /\ i \in 1..Len(Ids)
  <2>1. i \in 1..ComposedSoFar
    BY PhaseFacts
  <2> QED
    BY SMTT(30), <1>1, <2>1, PhaseFacts DEF GenerateInv, DataInv, Lists
<1> QED
  BY <1>2, <1>3, <1>4

LEMMA TypesFollow ==
    ASSUME ExportTypeOK, GenerateInv
    PROVE  DeploymentTypeOK
<1>1. \A i \in DOMAIN generated : generated[i].id \in DOMAIN Loaded.tenants
  <2> SUFFICES ASSUME NEW i \in DOMAIN generated
               PROVE  generated[i].id \in DOMAIN Loaded.tenants
    OBVIOUS
  <2>1. generated[i] = Resolved(Ids[i], Loaded) /\ Ids[i] \in DOMAIN Loaded.tenants
    BY GeneratedIsResolved
  <2>2. Resolved(Ids[i], Loaded).id = Ids[i]
    BY RecordFields
  <2> QED
    BY <2>1, <2>2
<1>2. \A i \in DOMAIN data.backends : data.backends[i].group = 9 + i
  BY DEF GenerateInv, DataInv
<1>3. data.container <=> Contained(data) # {}
  BY DEF GenerateInv, DataInv, Contained, ToSet
<1> QED
  BY <1>1, <1>2, <1>3 DEF GenerateInv, ControlInv, DeploymentTypeOK

\* Every variable of generate stays within its type, the host groups count up from
\* 10, and HasContainerDatabase says whether a tenant has a database container.
THEOREM DeploymentTypeCorrect == DeploymentSpec => []DeploymentTypeOK
BY TypesFollow, GenerateInvariant, ExportsOfDeployment, ExportTypeCorrect, PTL

LEMMA ValidClients ==
    ASSUME NEW c, NEW id \in DOMAIN c.tenants, Valid(c)
    PROVE  LET tenant == Resolved(id, c) IN
           /\ \A d, e \in tenant.clients : d.id = e.id => d = e
           /\ \A d \in tenant.clients \cup tenant.homes : d.ip \in IPs /\ d.secret # ""
           /\ \A policy \in tenant.policies : \A t \in policy.timeout : t > 0
           /\ tenant.homes # {}
<1> DEFINE t == c.tenants[id]
           g == c.global
           Nas(n) == [id |-> n, ip |-> g.nas[n].ip,
                      secret |-> g.credentials[t.nas[n].credential], vendor |-> g.nas[n].vendor]
           Trusted(n) == [id |-> n, ip |-> g.trusted[n],
                          secret |-> g.credentials[t.trusted[n].credential], vendor |-> ""]
           Home(n) == [id |-> n, ip |-> g.nas[n].ip,
                       secret |-> g.credentials[t.nas[n].credential]]
           Policy(n) == [nas |-> n, timeout |-> Timeout(g.accounting[t.nas[n].accounting])]
           tenant == Resolved(id, c)
<1>1. /\ tenant.clients = {Nas(n) : n \in DOMAIN t.nas} \cup {Trusted(n) : n \in DOMAIN t.trusted}
      /\ tenant.homes = {Home(n) : n \in DOMAIN t.nas}
      /\ tenant.policies = {Policy(n) : n \in DOMAIN t.nas}
  BY DEF Resolved
<1>2. ValidGlobals(g) /\ ValidTenant(t) /\ ValidReferences(t, g) /\ ValidRelationships(t, g)
  BY DEF Valid
<1>3. ASSUME NEW n \in DOMAIN t.nas
      PROVE  /\ n \in DOMAIN g.nas /\ g.nas[n].ip \in IPs
             /\ g.credentials[t.nas[n].credential] # ""
             /\ \A s \in Timeout(g.accounting[t.nas[n].accounting]) : s > 0
  <2>1. n \in DOMAIN g.nas /\ g.nas[n].ip \in IPs
    BY <1>2 DEF ValidReferences, ValidGlobals
  <2>2. t.nas[n].credential \in DOMAIN g.credentials /\ t.nas[n].accounting \in DOMAIN g.accounting
    BY <1>2 DEF ValidReferences, ValidTenant, Exists
  <2> QED
    BY <1>2, <2>1, <2>2 DEF ValidGlobals, Timeout
<1>4. ASSUME NEW n \in DOMAIN t.trusted
      PROVE  /\ n \in DOMAIN g.trusted /\ g.trusted[n] \in IPs
             /\ g.credentials[t.trusted[n].credential] # ""
  <2>1. n \in DOMAIN g.trusted /\ g.trusted[n] \in IPs
    BY <1>2 DEF ValidReferences, ValidGlobals
  <2>2. t.trusted[n].credential \in DOMAIN g.credentials
    BY <1>2 DEF ValidReferences, ValidTenant, Exists
  <2> QED
    BY <1>2, <2>1, <2>2 DEF ValidGlobals
<1>5. DOMAIN t.nas \cap DOMAIN t.trusted = {}
  BY <1>2, <1>3, <1>4 DEF ValidRelationships
<1>6. \A n : /\ Nas(n).id = n /\ Nas(n).ip = g.nas[n].ip
            /\ Nas(n).secret = g.credentials[t.nas[n].credential]
            /\ Trusted(n).id = n /\ Trusted(n).ip = g.trusted[n]
            /\ Trusted(n).secret = g.credentials[t.trusted[n].credential]
            /\ Home(n).ip = g.nas[n].ip
            /\ Home(n).secret = g.credentials[t.nas[n].credential]
            /\ Policy(n).timeout = Timeout(g.accounting[t.nas[n].accounting])
  OBVIOUS
<1>11. DOMAIN t.nas # {}
  BY <1>2 DEF ValidTenant
<1> HIDE DEF tenant, Nas, Trusted, Home, Policy, t, g
<1>7. ASSUME NEW d \in tenant.clients, NEW e \in tenant.clients, d.id = e.id
      PROVE  d = e
  <2>1. \/ \E n \in DOMAIN t.nas : d = Nas(n)
        \/ \E n \in DOMAIN t.trusted : d = Trusted(n)
    BY <1>1
  <2>2. \/ \E n \in DOMAIN t.nas : e = Nas(n)
        \/ \E n \in DOMAIN t.trusted : e = Trusted(n)
    BY <1>1
  <2> QED
    BY <1>5, <1>6, <1>7, <2>1, <2>2
<1>8. ASSUME NEW d \in tenant.clients \cup tenant.homes
      PROVE  d.ip \in IPs /\ d.secret # ""
  <2>1. CASE \E n \in DOMAIN t.nas : d = Nas(n) \/ d = Home(n)
    <3>1. PICK n \in DOMAIN t.nas : d = Nas(n) \/ d = Home(n)
      BY <2>1
    <3>2. g.nas[n].ip \in IPs /\ g.credentials[t.nas[n].credential] # ""
      BY <1>3
    <3> QED
      BY ZenonT(40), <1>6, <3>1, <3>2
  <2>2. CASE \E n \in DOMAIN t.trusted : d = Trusted(n)
    <3>1. PICK n \in DOMAIN t.trusted : d = Trusted(n)
      BY <2>2
    <3>2. g.trusted[n] \in IPs /\ g.credentials[t.trusted[n].credential] # ""
      BY <1>4
    <3> QED
      BY <1>6, <3>1, <3>2
  <2> QED
    BY <1>1, <2>1, <2>2
<1>9. \A policy \in tenant.policies : \A s \in policy.timeout : s > 0
  <2> SUFFICES ASSUME NEW policy \in tenant.policies, NEW s \in policy.timeout
               PROVE  s > 0
    OBVIOUS
  <2>1. PICK n \in DOMAIN t.nas : policy = Policy(n)
    BY <1>1
  <2>2. \A r \in Timeout(g.accounting[t.nas[n].accounting]) : r > 0
    BY <1>3
  <2>3. policy.timeout = Timeout(g.accounting[t.nas[n].accounting])
    BY <1>6, <2>1
  <2> QED
    BY <2>2, <2>3
<1>10. tenant.homes # {}
  BY <1>1, <1>11
<1> QED
  BY <1>7, <1>8, <1>9, <1>10 DEF tenant

\* What is generated has one client for each name, and an address and a secret in
\* every client and home server: the rules of validation, in whatever order the
\* functions of package validation check them, suffice for package generator.
THEOREM ClientsAreComplete == DeploymentSpec => []ClientsComplete
<1>1. GenerateInv => ClientsComplete
  <2> SUFFICES ASSUME GenerateInv, NEW i \in DOMAIN generated
               PROVE  LET tenant == generated[i] IN
                      /\ \A d, e \in tenant.clients : d.id = e.id => d = e
                      /\ \A d \in tenant.clients \cup tenant.homes : d.ip \in IPs /\ d.secret # ""
                      /\ \A policy \in tenant.policies : \A t \in policy.timeout : t > 0
                      /\ tenant.homes # {}
    BY DEF ClientsComplete, ToSet
  <2>1. Valid(Loaded)
    BY PhaseFacts DEF GenerateInv, AcceptedInv, GeneratedSoFar
  <2> QED
    BY ZenonT(40), <2>1, GeneratedIsResolved, ValidClients
<1> QED
  BY <1>1, GenerateInvariant, PTL

-----------------------------------------------------------------------------
\* The files that are there at every point of generate.

RenderedSoFar ==
    IF phase = "templates" THEN index - 1
    ELSE IF phase = "schemas" \/ verdict = "ok" THEN Len(Wanted) ELSE 0

SchemasSoFar ==
    IF phase = "schemas" THEN index - 1 ELSE IF verdict = "ok" THEN Len(Ids) ELSE 0

FilesInv ==
    /\ \A k \in 1..RenderedSoFar : <<Wanted[k]>> \in DOMAIN files
    /\ \A i \in 1..SchemasSoFar :
         data.tenants[i].deployment = "container" => SchemaFile(data.tenants[i]) \in DOMAIN files

LEMMA FilesKept ==
    ASSUME FilesInv, UNCHANGED data, Wanted' = Wanted,
           DOMAIN files \subseteq DOMAIN files',
           RenderedSoFar \in Nat, SchemasSoFar \in Nat,
           \/ RenderedSoFar' = RenderedSoFar
           \/ /\ RenderedSoFar' = RenderedSoFar + 1
              /\ <<Wanted[RenderedSoFar + 1]>> \in DOMAIN files',
           \/ SchemasSoFar' = SchemasSoFar
           \/ /\ SchemasSoFar' = SchemasSoFar + 1
              /\ data.tenants[SchemasSoFar + 1].deployment = "container" =>
                   SchemaFile(data.tenants[SchemasSoFar + 1]) \in DOMAIN files'
    PROVE  FilesInv'
<1>1. ASSUME NEW k \in 1..RenderedSoFar'
      PROVE  <<Wanted[k]>> \in DOMAIN files'
  <2>1. k \in 1..RenderedSoFar \/ (k = RenderedSoFar + 1 /\ RenderedSoFar' = RenderedSoFar + 1)
    OBVIOUS
  <2> QED
    BY <2>1 DEF FilesInv
<1>2. ASSUME NEW i \in 1..SchemasSoFar'
      PROVE  data.tenants[i].deployment = "container" => SchemaFile(data.tenants[i]) \in DOMAIN files'
  <2>1. i \in 1..SchemasSoFar \/ (i = SchemasSoFar + 1 /\ SchemasSoFar' = SchemasSoFar + 1)
    OBVIOUS
  <2> QED
    BY <2>1 DEF FilesInv
<1>3. \A i \in 1..SchemasSoFar' : SchemaFile(data.tenants[i])' = SchemaFile(data.tenants[i])
  BY DEF SchemaFile
<1> QED
  BY <1>1, <1>2, <1>3 DEF FilesInv

LEMMA FilesStep ==
    GenerateInv /\ FilesInv /\ [DeploymentNext]_deploymentvars => FilesInv'
<1> SUFFICES ASSUME GenerateInv, FilesInv, [DeploymentNext]_deploymentvars
             PROVE  FilesInv'
  OBVIOUS
<1>1. RenderedSoFar \in Nat /\ SchemasSoFar \in Nat
  BY PhaseFacts DEF RenderedSoFar, SchemasSoFar
<1>2. CASE Validate \/ GenerateTenant \/ NewComposeData
  <2>1. /\ phase' = "templates" => index' = 1
        /\ phase' # "schemas" /\ verdict' # "ok"
    BY <1>2, PhaseFacts
       DEF Validate, GenerateTenant, NewComposeData, Conclude, Turn, GenerateInv, ControlInv
  <2>2. RenderedSoFar' = 0 /\ SchemasSoFar' = 0
    BY <2>1 DEF RenderedSoFar, SchemasSoFar
  <2> QED
    BY <2>2 DEF FilesInv
<1>3. CASE Render
  <2>1. UNCHANGED data /\ Wanted' = Wanted /\ RenderedSoFar = index - 1
    BY <1>3, RenderOutcome DEF Wanted, HasProxy, RenderedSoFar
  <2>2. CASE verdict' = "noAsset"
    <3>1. RenderedSoFar' = 0 /\ SchemasSoFar' = 0
      BY <1>3, <2>2, RenderOutcome DEF RenderedSoFar, SchemasSoFar
    <3> QED
      BY <3>1 DEF FilesInv
  <2>3. CASE verdict' # "noAsset"
    <3>1. files' = Added(<<Wanted[index]>>, library[TemplatePath(Wanted[index])])
      BY <1>3, <2>3, RenderOutcome
    <3>2. DOMAIN files' = DOMAIN files \cup {<<Wanted[index]>>}
      BY <3>1, AddedFacts
    <3>3. RenderedSoFar' = RenderedSoFar + 1 /\ RenderedSoFar + 1 = index
      BY <1>3, <2>1, <2>3, RenderOutcome, PhaseFacts DEF RenderedSoFar
    <3>4. SchemasSoFar = 0 /\ SchemasSoFar' = 0
      BY <1>3, <2>3, RenderOutcome, PhaseFacts, LoadedStays DEF SchemasSoFar
    <3> QED
      BY <1>1, <2>1, <3>2, <3>3, <3>4, FilesKept
  <2> QED
    BY <2>2, <2>3
<1>4. CASE LoadSchema
  <2>1. UNCHANGED data /\ Wanted' = Wanted /\ SchemasSoFar = index - 1
    BY <1>4, LoadSchemaOutcome DEF Wanted, HasProxy, SchemasSoFar
  <2>2. CASE verdict' = "noAsset"
    <3>1. RenderedSoFar' = 0 /\ SchemasSoFar' = 0
      BY <1>4, <2>2, LoadSchemaOutcome DEF RenderedSoFar, SchemasSoFar
    <3> QED
      BY <3>1 DEF FilesInv
  <2>3. CASE verdict' # "noAsset"
    <3>1. data.tenants[index] = generated[index]
      <4>1. index \in DOMAIN generated /\ index \in DOMAIN data.tenants
        BY <1>4, LoadSchemaOutcome, PhaseFacts DEF GeneratedSoFar, ComposedSoFar
      <4> QED
        BY <4>1, GeneratedIsResolved
    <3>2. /\ DOMAIN files \subseteq DOMAIN files'
          /\ data.tenants[index].deployment = "container" =>
               SchemaFile(data.tenants[index]) \in DOMAIN files'
      <4>1. CASE generated[index].deployment # "container"
        BY <1>4, <2>3, <3>1, <4>1, LoadSchemaOutcome
      <4>2. CASE generated[index].deployment = "container"
        <5>1. files' = Added(SchemaFile(generated[index]),
                             library[SchemaPath(generated[index].version)])
          BY <1>4, <2>3, <4>2, LoadSchemaOutcome
        <5> QED
          BY <3>1, <5>1, AddedFacts
      <4> QED
        BY <4>1, <4>2
    <3>3. SchemasSoFar' = SchemasSoFar + 1 /\ SchemasSoFar + 1 = index
      BY <1>4, <2>1, <2>3, LoadSchemaOutcome, PhaseFacts, LoadedStays DEF SchemasSoFar
    <3>4. RenderedSoFar' = RenderedSoFar
      BY <1>4, <2>1, <2>3, LoadSchemaOutcome DEF RenderedSoFar
    <3> QED
      BY <1>1, <2>1, <3>2, <3>3, <3>4, FilesKept
  <2> QED
    BY <2>2, <2>3
<1>5. CASE UNCHANGED generatevars
  <2>1. UNCHANGED <<conf, phase, index, data, files, verdict>>
    BY <1>5 DEF generatevars
  <2>2. RenderedSoFar' = RenderedSoFar /\ SchemasSoFar' = SchemasSoFar /\ Wanted' = Wanted
    BY <2>1, LoadedStays DEF RenderedSoFar, SchemasSoFar, Wanted, HasProxy
  <2> QED
    BY <1>1, <2>1, <2>2, FilesKept
<1> QED
  BY <1>2, <1>3, <1>4, <1>5 DEF DeploymentNext, Generate, deploymentvars

LEMMA FilesInvariant == DeploymentSpec => []FilesInv
<1>1. GenerateInit => FilesInv
  BY DEF GenerateInit, FilesInv, RenderedSoFar, SchemasSoFar
<1> QED
  BY <1>1, FilesStep, GenerateInvariant, PTL DEF DeploymentSpec

\* When generate has succeeded, all of it is there.
LEMMA WhenOk ==
    ASSUME GenerateInv, verdict = "ok"
    PROVE  /\ DOMAIN generated = DOMAIN Ids /\ DOMAIN data.tenants = DOMAIN Ids
           /\ \A i \in DOMAIN Ids : data.tenants[i] = generated[i] /\ generated[i].id = Ids[i]
           /\ SchemasSoFar = Len(Ids) /\ RenderedSoFar = Len(Wanted)
<1>1. phase = "done"
  BY DEF GenerateInv, ControlInv
<1>2. GeneratedSoFar = Len(Ids) /\ ComposedSoFar = Len(Ids)
  BY <1>1 DEF GeneratedSoFar, ComposedSoFar
<1>3. SchemasSoFar = Len(Ids) /\ RenderedSoFar = Len(Wanted)
  BY <1>1 DEF SchemasSoFar, RenderedSoFar
<1>4. DOMAIN generated = DOMAIN Ids /\ DOMAIN data.tenants = DOMAIN Ids
  BY <1>2, PhaseFacts
<1>5. ASSUME NEW i \in DOMAIN Ids
      PROVE  data.tenants[i] = generated[i] /\ generated[i].id = Ids[i]
  <2>1. generated[i] = Resolved(Ids[i], Loaded) /\ data.tenants[i] = generated[i]
    BY <1>4, GeneratedIsResolved
  <2>2. Resolved(Ids[i], Loaded).id = Ids[i]
    BY RecordFields
  <2> QED
    BY <2>1, <2>2
<1> QED
  BY <1>3, <1>4, <1>5

LEMMA SameIdSameTenant ==
    ASSUME GenerateInv, NEW t \in ToSet(data.tenants), NEW u \in ToSet(data.tenants), t.id = u.id
    PROVE  t = u
<1>1. PICK i \in DOMAIN data.tenants : t = data.tenants[i]
  BY DEF ToSet
<1>2. PICK j \in DOMAIN data.tenants : u = data.tenants[j]
  BY DEF ToSet
<1>3. t = Resolved(Ids[i], Loaded) /\ u = Resolved(Ids[j], Loaded)
  BY <1>1, <1>2, GeneratedIsResolved
<1>4. t.id = Ids[i] /\ u.id = Ids[j]
  BY ZenonT(40), <1>3, RecordFields
<1> QED
  BY <1>3, <1>4

LEMMA ServiceFields ==
    ASSUME NEW t
    PROVE  /\ Radius(t, networked).name = <<"radius", t.id>>
           /\ Radius(t, networked).needs = CASE t.deployment = "container" -> {<<"database", t.id>>}
                                              [] t.deployment = "proxysql"  -> {<<"proxysql">>}
                                              [] OTHER                      -> {}
           /\ Radius(t, networked).files = {<<t.id>>, <<"entrypoint.sh">>}
           /\ Radius(t, networked).volumes = {}
           /\ Radius(t, networked).networks = Networks(networked)
           /\ Radius(t, networked).holds = {}
           /\ Database(t, networked).name = <<"database", t.id>>
           /\ Database(t, networked).needs = {}
           /\ Database(t, networked).files = {<<t.id, "database", "schema.sql">>}
           /\ Database(t, networked).volumes = {Volume(t)}
           /\ Database(t, networked).networks = Networks(networked)
           /\ Database(t, networked).holds = {t.login}
           /\ Proxy(networked).name = <<"proxysql">>
           /\ Proxy(networked).needs = {} /\ Proxy(networked).volumes = {}
           /\ Proxy(networked).files = {<<"proxysql.cnf">>}
           /\ Proxy(networked).networks = Networks(networked)
BY DEF Radius, Database, Proxy

\* A service is a tenant's FreeRADIUS, a tenant's database, or the proxy.
LEMMA ServiceKinds ==
    ASSUME NEW s \in Services(data, networked)
    PROVE  \/ \E t \in ToSet(data.tenants) : s = Radius(t, networked)
           \/ \E t \in ToSet(data.tenants) :
                t.deployment = "container" /\ s = Database(t, networked)
           \/ HasProxy(data) /\ s = Proxy(networked)
BY DEF Services, Contained

LEMMA ServiceNames ==
    ASSUME NEW s \in Services(data, networked)
    PROVE  \/ /\ s.name[1] = "radius"
              /\ \E t \in ToSet(data.tenants) : s = Radius(t, networked) /\ s.name[2] = t.id
           \/ /\ s.name[1] = "database"
              /\ \E t \in ToSet(data.tenants) : s = Database(t, networked) /\ s.name[2] = t.id
           \/ /\ s.name[1] = "proxysql" /\ s = Proxy(networked)
<1>1. ASSUME NEW t \in ToSet(data.tenants), s = Radius(t, networked)
      PROVE  s.name[1] = "radius" /\ s.name[2] = t.id
  <2>1. s.name = <<"radius", t.id>>
    BY <1>1, ServiceFields
  <2> QED
    BY <2>1
<1>2. ASSUME NEW t \in ToSet(data.tenants), s = Database(t, networked)
      PROVE  s.name[1] = "database" /\ s.name[2] = t.id
  <2>1. s.name = <<"database", t.id>>
    BY <1>2, ServiceFields
  <2> QED
    BY <2>1
<1>3. ASSUME s = Proxy(networked)
      PROVE  s.name[1] = "proxysql"
  <2>1. s.name = <<"proxysql">>
    BY <1>3, ServiceFields
  <2> QED
    BY <2>1
<1> QED
  BY <1>1, <1>2, <1>3, ServiceKinds

LEMMA ServicesByName ==
    ASSUME GenerateInv, NEW s \in Services(data, networked), NEW t \in Services(data, networked),
           s.name = t.name
    PROVE  s = t
<1>1. CASE s.name[1] = "radius"
  <2>1. PICK a \in ToSet(data.tenants) : s = Radius(a, networked) /\ s.name[2] = a.id
    BY <1>1, ServiceNames
  <2>2. PICK b \in ToSet(data.tenants) : t = Radius(b, networked) /\ t.name[2] = b.id
    BY <1>1, ServiceNames
  <2> QED
    BY <2>1, <2>2, SameIdSameTenant
<1>2. CASE s.name[1] = "database"
  <2>1. PICK a \in ToSet(data.tenants) : s = Database(a, networked) /\ s.name[2] = a.id
    BY <1>2, ServiceNames
  <2>2. PICK b \in ToSet(data.tenants) : t = Database(b, networked) /\ t.name[2] = b.id
    BY <1>2, ServiceNames
  <2> QED
    BY <2>1, <2>2, SameIdSameTenant
<1>3. CASE s.name[1] = "proxysql"
  BY <1>3, ServiceNames
<1> QED
  BY <1>1, <1>2, <1>3, ServiceNames

LEMMA ProxyIfNeeded ==
    ASSUME GenerateInv, NEW t \in ToSet(data.tenants), t.deployment = "proxysql"
    PROVE  HasProxy(data)
<1>1. PICK i \in DOMAIN data.tenants : t = data.tenants[i]
  BY DEF ToSet
<1>2. \E b \in DOMAIN data.backends : Suits(data.backends[b], data.tenants[i])
  BY <1>1 DEF GenerateInv, DataInv
<1> QED
  BY <1>2 DEF HasProxy

LEMMA NeedsAreMet ==
    ASSUME GenerateInv, NEW s \in Services(data, networked), NEW n \in s.needs
    PROVE  \E t \in Services(data, networked) : t.name = n /\ t.networks \cap s.networks # {}
<1>1. \A u \in Services(data, networked) : u.networks = Networks(networked)
  BY ZenonT(40), ServiceKinds, ServiceFields
<1>2. Networks(networked) # {}
  BY DEF Networks
<1>3. PICK t \in ToSet(data.tenants) : s = Radius(t, networked)
  BY ServiceKinds, ServiceFields
<1>4. CASE t.deployment = "container"
  <2>1. n = <<"database", t.id>>
    BY <1>3, <1>4, ServiceFields
  <2>2. Database(t, networked) \in Services(data, networked)
    BY <1>4 DEF Services, Contained
  <2>3. Database(t, networked).name = n
    BY <2>1, ServiceFields
  <2> QED
    BY <1>1, <1>2, <2>2, <2>3
<1>5. CASE t.deployment = "proxysql"
  <2>1. n = <<"proxysql">>
    BY ZenonT(40), <1>3, <1>5, ServiceFields
  <2>2. Proxy(networked) \in Services(data, networked)
    BY <1>5, ProxyIfNeeded DEF Services
  <2>3. Proxy(networked).name = n
    BY <2>1, ServiceFields
  <2> QED
    BY <1>1, <1>2, <2>2, <2>3
<1>6. CASE t.deployment \notin {"container", "proxysql"}
  <2>1. Radius(t, networked).needs = {}
    BY <1>6, ServiceFields
  <2> QED
    BY <1>3, <2>1
<1> QED
  BY <1>4, <1>5, <1>6

LEMMA FilesAreThere ==
    ASSUME GenerateInv, FilesInv, verdict = "ok", NEW s \in Services(data, networked)
    PROVE  s.files \subseteq DOMAIN files \cup {<<t.id>> : t \in ToSet(generated)}
<1>1. CASE \E t \in ToSet(data.tenants) : s = Radius(t, networked)
  <2>1. PICK t \in ToSet(data.tenants) : s = Radius(t, networked)
    BY <1>1
  <2>2. t \in ToSet(generated)
    BY WhenOk DEF ToSet
  <2>3. <<"entrypoint.sh">> \in DOMAIN files
    <3>1. 2 \in 1..RenderedSoFar /\ Wanted[2] = "entrypoint.sh"
      BY WhenOk, WantedFacts
    <3> QED
      BY <3>1 DEF FilesInv
  <2>4. s.files = {<<t.id>>, <<"entrypoint.sh">>}
    BY <2>1, ServiceFields
  <2> QED
    BY <2>2, <2>3, <2>4
<1>2. CASE \E t \in ToSet(data.tenants) : t.deployment = "container" /\ s = Database(t, networked)
  <2>1. PICK i \in DOMAIN data.tenants :
          data.tenants[i].deployment = "container" /\ s = Database(data.tenants[i], networked)
    BY <1>2 DEF ToSet
  <2>2. i \in 1..SchemasSoFar
    BY WhenOk, PhaseFacts
  <2>3. SchemaFile(data.tenants[i]) \in DOMAIN files
    BY <2>1, <2>2 DEF FilesInv
  <2>4. s.files = {SchemaFile(data.tenants[i])}
    BY <2>1, ServiceFields DEF SchemaFile
  <2> QED
    BY <2>3, <2>4
<1>3. CASE HasProxy(data) /\ s = Proxy(networked)
  <2>1. 3 \in 1..RenderedSoFar /\ Wanted[3] = "proxysql.cnf"
    BY <1>3, WhenOk, WantedFacts
  <2>2. <<"proxysql.cnf">> \in DOMAIN files
    BY <2>1 DEF FilesInv
  <2>3. s.files = {<<"proxysql.cnf">>}
    BY <1>3, ServiceFields
  <2> QED
    BY <2>2, <2>3
<1> QED
  BY <1>1, <1>2, <1>3, ServiceKinds

LEMMA VolumesAreThere ==
    ASSUME GenerateInv, NEW s \in Services(data, networked)
    PROVE  s.volumes \subseteq Volumes(data)
<1>1. CASE \E t \in ToSet(data.tenants) : t.deployment = "container" /\ s = Database(t, networked)
  <2>1. PICK t \in ToSet(data.tenants) : t.deployment = "container" /\ s = Database(t, networked)
    BY <1>1
  <2>2. data.container
    BY <2>1 DEF GenerateInv, DataInv, ToSet
  <2>3. Volume(t) \in Volumes(data)
    BY <2>1, <2>2 DEF Volumes, Contained
  <2>4. s.volumes = {Volume(t)}
    BY <2>1, ServiceFields
  <2> QED
    BY <2>3, <2>4
<1>2. CASE s.volumes = {}
  BY <1>2
<1> QED
  BY <1>1, <1>2, ServiceKinds, ServiceFields

\* The Compose file of a successful generate is closed: the services it depends on are
\* in it, on a common network and under one name each, the files it mounts were
\* generated and the volumes it mounts are declared.
THEOREM DeploymentClosed == DeploymentSpec => []DeploymentIsClosed
<1>1. GenerateInv /\ FilesInv => DeploymentIsClosed
  BY NeedsAreMet, FilesAreThere, VolumesAreThere, ServicesByName DEF DeploymentIsClosed
<1> QED
  BY <1>1, GenerateInvariant, FilesInvariant, PTL

-----------------------------------------------------------------------------
\* ProxySQL.

\* Accepted tenants behind ProxySQL have a database user each.
LEMMA UsersDiffer ==
    ASSUME NEW c, Valid(c), NEW s \in DOMAIN c.tenants, NEW t \in DOMAIN c.tenants,
           Resolved(s, c).deployment = "proxysql", Resolved(t, c).deployment = "proxysql",
           Resolved(s, c).login.username = Resolved(t, c).login.username
    PROVE  s = t
<1>1. s \in Proxied(c) /\ t \in Proxied(c)
  BY RecordFields DEF Proxied
<1>2. Resolved(s, c).login.username = c.tenants[s].database.username
  BY DEF Resolved
<1>3. Resolved(t, c).login.username = c.tenants[t].database.username
  BY DEF Resolved
<1>4. c.tenants[s].database.username # ""
  BY DEF Valid, ValidTenant, ValidDatabase
<1>5. ValidUsernames(c)
  BY DEF Valid
<1> QED
  BY <1>1, <1>2, <1>3, <1>4, <1>5 DEF ValidUsernames

UsersInv ==
    \A b, c \in DOMAIN data.backends :
        data.backends[b].login.username = data.backends[c].login.username => b = c

LEMMA UsersStep ==
    GenerateInv /\ UsersInv /\ [DeploymentNext]_deploymentvars => UsersInv'
<1> SUFFICES ASSUME GenerateInv, UsersInv, [DeploymentNext]_deploymentvars
             PROVE  UsersInv'
  OBVIOUS
<1>1. CASE UNCHANGED data
  BY <1>1 DEF UsersInv
<1>2. CASE NewComposeData
  <2> DEFINE tenant == generated[index]
             n == Len(data.backends)
             backends == data'.backends
  <2>1. /\ phase = "compose" /\ index \in DOMAIN Ids /\ Valid(Loaded)
        /\ data' = Add(data, tenant)
    BY <1>2 DEF NewComposeData, GenerateInv, ControlInv, AcceptedInv
  <2>2. tenant = Resolved(Ids[index], Loaded) /\ Ids[index] \in DOMAIN Loaded.tenants
    <3>1. index \in DOMAIN generated
      BY <2>1, PhaseFacts DEF GeneratedSoFar, GenerateInv, ControlInv
    <3> QED
      BY <3>1, GeneratedIsResolved
  <2>3. CASE tenant.deployment # "proxysql"
    <3>1. backends = data.backends
      BY <2>1, <2>3 DEF Add
    <3> QED
      BY <3>1 DEF UsersInv
  <2>4. CASE tenant.deployment = "proxysql"
    <3>1. backends = Append(data.backends, Backend(tenant, 10 + n))
      BY <2>1, <2>4 DEF Add, NextGroup
    <3>2. data.backends \in Seq({Backend(t, g) : t \in Records, g \in Nat}) /\ n \in Nat
      BY DEF GenerateInv, DataInv
    <3>3. /\ DOMAIN data.backends = 1..n /\ DOMAIN backends = 1..(n + 1)
          /\ \A b \in 1..n : backends[b] = data.backends[b]
          /\ backends[n + 1] = Backend(tenant, 10 + n)
      <4> HIDE DEF backends, tenant
      <4> QED
        BY <3>1, <3>2
    <3>4. backends[n + 1].login = tenant.login
      BY <3>3 DEF Backend
    <3>5. ASSUME NEW b \in 1..n, backends[b].login.username = tenant.login.username
          PROVE  FALSE
      <4>1. PICK i \in DOMAIN data.tenants : Suits(data.backends[b], data.tenants[i])
        BY SMTT(30), <3>3 DEF GenerateInv, DataInv
      <4>2. data.tenants[i] = Resolved(Ids[i], Loaded) /\ Ids[i] \in DOMAIN Loaded.tenants
        BY GeneratedIsResolved
      <4>3. /\ data.tenants[i].deployment = "proxysql"
            /\ data.tenants[i].login.username = tenant.login.username
        BY <3>3, <3>5, <4>1 DEF Suits
      <4>4. Ids[i] = Ids[index]
        BY <2>1, <2>2, <2>4, <4>2, <4>3, UsersDiffer
      <4>5. i \in 1..(index - 1)
        BY <2>1, PhaseFacts DEF ComposedSoFar, GenerateInv, ControlInv
      <4>6. i \in DOMAIN Ids /\ i # index
        BY <2>1, <4>5, PhaseFacts
      <4> QED
        BY <2>1, <4>4, <4>6, IdsFacts, PhaseFacts
    <3>6. ASSUME NEW b \in DOMAIN backends, NEW c \in DOMAIN backends,
                 backends[b].login.username = backends[c].login.username
          PROVE  b = c
      <4>1. CASE b \in 1..n /\ c \in 1..n
        BY <3>3, <3>6, <4>1 DEF UsersInv
      <4>2. CASE b = n + 1 /\ c \in 1..n
        BY <3>4, <3>5, <3>6, <4>2
      <4>3. CASE b \in 1..n /\ c = n + 1
        BY <3>4, <3>5, <3>6, <4>3
      <4>4. CASE b = n + 1 /\ c = n + 1
        BY <4>4
      <4> QED
        BY <3>2, <3>3, <4>1, <4>2, <4>3, <4>4
    <3> QED
      BY <3>6 DEF UsersInv
  <2> QED
    BY <2>3, <2>4
<1>3. UNCHANGED data \/ NewComposeData
  BY DEF DeploymentNext, Generate, deploymentvars, generatevars, Validate, GenerateTenant, Render,
         LoadSchema
<1> QED
  BY <1>1, <1>2, <1>3

LEMMA UsersInvariant == DeploymentSpec => []UsersInv
<1>1. GenerateInit => UsersInv
  BY DEF GenerateInit, NoData, UsersInv
<1> QED
  BY <1>1, UsersStep, GenerateInvariant, PTL DEF DeploymentSpec

\* A user is routed to one host group and that has one server, the tenant's.
LEMMA ProxyReaches ==
    ASSUME GenerateInv, UsersInv, NEW i \in DOMAIN data.tenants,
           data.tenants[i].deployment = "proxysql"
    PROVE  \E route \in ToSet(data.backends) :
             /\ Routes(data, data.tenants[i].login.username) = {route}
             /\ route.login = data.tenants[i].login
             /\ Servers(data, route.group) = {data.tenants[i].backend}
<1>1. PICK b \in DOMAIN data.backends : Suits(data.backends[b], data.tenants[i])
  BY DEF GenerateInv, DataInv
<1> DEFINE route == data.backends[b]
<1>2. route \in ToSet(data.backends)
  BY DEF ToSet
<1>3. route.login = data.tenants[i].login /\ route.server = data.tenants[i].backend
  BY <1>1 DEF Suits
<1>4. ASSUME NEW r \in ToSet(data.backends), r.login.username = route.login.username
      PROVE  r = route
  BY <1>4 DEF UsersInv, ToSet
<1>5. Routes(data, data.tenants[i].login.username) = {route}
  BY <1>2, <1>3, <1>4 DEF Routes
<1>6. ASSUME NEW r \in ToSet(data.backends), r.group = route.group
      PROVE  r = route
  <2>1. PICK c \in DOMAIN data.backends : r = data.backends[c]
    BY DEF ToSet
  <2>2. data.backends[b].group = 9 + b /\ data.backends[c].group = 9 + c
    BY DEF GenerateInv, DataInv
  <2>3. b \in Nat /\ c \in Nat
    BY SMTT(30) DEF GenerateInv, DataInv
  <2>4. b = c
    BY <1>6, <2>1, <2>2, <2>3
  <2> QED
    BY <2>1, <2>4
<1>7. Servers(data, route.group) = {route.server}
  BY <1>2, <1>6 DEF Servers
<1> QED
  BY <1>2, <1>3, <1>5, <1>7

LEMMA ContainerReaches ==
    ASSUME GenerateInv, NEW t \in ToSet(data.tenants), t.deployment = "container"
    PROVE  \E s \in Services(data, networked) :
             Named(<<"database", t.id>>) = {s} /\ s.holds = {t.login}
<1> DEFINE db == Database(t, networked)
<1>1. db \in Services(data, networked)
  BY DEF Services, Contained
<1>2. db.name = <<"database", t.id>> /\ db.holds = {t.login}
  BY ServiceFields
<1>3. \A s \in Services(data, networked) : s.name = <<"database", t.id>> => s = db
  BY <1>1, <1>2, ServicesByName
<1>4. Named(<<"database", t.id>>) = {db}
  BY <1>1, <1>2, <1>3 DEF Named
<1> QED
  BY <1>1, <1>2, <1>4

\* Every tenant's FreeRADIUS reaches the tenant's own database and no other, through
\* whatever it is deployed with: host groups numbered by position and usernames that
\* validation keeps apart are enough for ProxySQL.
THEOREM RequestsReach == DeploymentSpec => []RequestsReachOwnDatabase
<1>1. GenerateInv /\ UsersInv => RequestsReachOwnDatabase
  <2> SUFFICES ASSUME GenerateInv, UsersInv, verdict = "ok", NEW id \in DOMAIN Loaded.tenants
               PROVE  \E tenant \in ToSet(generated) :
                        tenant.id = id /\ Reaches(tenant, Loaded.tenants[id].database)
    BY DEF RequestsReachOwnDatabase
  <2> DEFINE db == Loaded.tenants[id].database
  <2>1. PICK i \in DOMAIN Ids : Ids[i] = id
    BY IdsFacts, PhaseFacts
  <2> DEFINE tenant == generated[i]
  <2>2. /\ i \in DOMAIN generated /\ i \in DOMAIN data.tenants
        /\ data.tenants[i] = tenant /\ tenant = Resolved(id, Loaded)
    BY <2>1, WhenOk, GeneratedIsResolved
  <2>3. tenant \in ToSet(generated) /\ tenant \in ToSet(data.tenants)
    BY <2>2 DEF ToSet
  <2>4. /\ tenant.id = id /\ tenant.deployment = DeploymentOf(db)
        /\ tenant.endpoint = Endpoint(id, db)
        /\ tenant.backend = [host |-> db.host, port |-> db.port]
        /\ tenant.login = [database |-> db.database, username |-> db.username,
                           password |-> db.password]
    <3> HIDE DEF tenant
    <3> QED
      BY <2>2, RecordFields
  <2>5. tenant.login.username = db.username
    BY <2>4
  <2> HIDE DEF tenant, db
  <2>6. CASE DeploymentOf(db) = "container"
    <3>1. tenant.endpoint.port = 3306 /\ tenant.endpoint.host = <<"database", id>>
      BY <2>4, <2>6 DEF Endpoint
    <3>2. \E s \in Services(data, networked) :
            Named(tenant.endpoint.host) = {s} /\ s.holds = {tenant.login}
      BY <2>3, <2>4, <2>6, <3>1, ContainerReaches
    <3>3. Reaches(tenant, db)
      BY <2>4, <2>6, <3>1, <3>2 DEF Reaches
    <3> QED
      BY <2>3, <2>4, <3>3 DEF db
  <2>7. CASE DeploymentOf(db) = "proxysql"
    <3>1. tenant.endpoint = [host |-> <<"proxysql">>, port |-> 6033]
      BY <2>4, <2>7 DEF Endpoint
    <3>2. \E route \in ToSet(data.backends) :
            /\ Routes(data, db.username) = {route}
            /\ route.login = tenant.login
            /\ Servers(data, route.group) = {[host |-> db.host, port |-> db.port]}
      BY <2>2, <2>4, <2>5, <2>7, ProxyReaches
    <3>3. Reaches(tenant, db)
      BY <2>4, <2>7, <3>1, <3>2 DEF Reaches
    <3> QED
      BY <2>3, <2>4, <3>3 DEF db
  <2>8. CASE DeploymentOf(db) \notin {"container", "proxysql"}
    <3>1. tenant.endpoint = [host |-> db.host, port |-> db.port]
      BY <2>4, <2>8 DEF Endpoint
    <3>2. Reaches(tenant, db)
      BY <2>4, <2>8, <3>1 DEF Reaches
    <3> QED
      BY <2>3, <2>4, <3>2 DEF db
  <2> QED
    BY <2>6, <2>7, <2>8
<1> QED
  BY <1>1, GenerateInvariant, UsersInvariant, PTL

-----------------------------------------------------------------------------
\* Generate and the exports.

FromRelease(f) == \A path \in DOMAIN f : f[path] \in {Item(p, TRUE) : p \in Exports}

SomeReady == \E p \in Exports : result[p] = "ok"

\* While generate has found a release and nobody has changed it, there is one, and
\* nothing else was read, nor was anything missing.
SourcesInv ==
    /\ phase = "validate" => files = << >>
    /\ ready /\ ~meddled =>
         /\ SomeReady
         /\ FromRelease(files)
         /\ HasSchemas => verdict # "noAsset"

LEMMA AddedFromRelease ==
    ASSUME FromRelease(files), NEW path, NEW p \in Exports, files' = Added(path, Item(p, TRUE))
    PROVE  FromRelease(files')
<1> DEFINE source == Item(p, TRUE)
           good == {Item(o, TRUE) : o \in Exports}
<1>1. source \in good
  OBVIOUS
<1>2. \A q \in DOMAIN files : files[q] \in good
  BY DEF FromRelease
<1>3. files' = Added(path, source)
  OBVIOUS
<1> HIDE DEF source, good
<1>4. /\ DOMAIN files' = DOMAIN files \cup {path}
      /\ \A q \in DOMAIN files' : files'[q] = IF q = path THEN source ELSE files[q]
  BY <1>3, AddedFacts
<1>5. \A q \in DOMAIN files' : files'[q] \in good
  BY <1>1, <1>2, <1>4
<1> QED
  BY <1>5 DEF FromRelease, good

LEMMA ReleaseIsReadable ==
    ASSUME NEW p \in Exports, IsWhole(p), NEW path, [path |-> path, kind |-> "file"] \in ToSet(Bundle)
    PROVE  Readable(path) /\ library[path] = Item(p, TRUE)
<1>1. PICK i \in DOMAIN Bundle : Bundle[i] = [path |-> path, kind |-> "file"]
  BY DEF ToSet
<1>2. Bundle[i].path = path /\ Bundle[i].kind = "file"
  BY <1>1
<1>3. library[path] = Item(p, TRUE)
  BY <1>2 DEF IsWhole
<1> QED
  BY <1>2, <1>3, KindsOfNodes DEF Readable, Assets

LEMMA TemplatesAreReadable ==
    ASSUME GenerateInv, NEW p \in Exports, IsWhole(p), index \in DOMAIN Wanted
    PROVE  /\ Readable(TemplatePath(Wanted[index]))
           /\ library[TemplatePath(Wanted[index])] = Item(p, TRUE)
<1>1. Wanted[index] \in {"docker-compose.yml", "entrypoint.sh", "proxysql.cnf"}
  BY WantedFacts
<1>2. [path |-> TemplatePath(Wanted[index]), kind |-> "file"] \in ToSet(Bundle)
  BY <1>1, ReleaseAssumption
<1> QED
  BY <1>2, ReleaseIsReadable

\* Validation lets versions through that the template library supports, and
\* HasSchemas says that there are schemas for them.
LEMMA SchemasAreReadable ==
    ASSUME GenerateInv, NEW p \in Exports, IsWhole(p), phase = "schemas",
           generated[index].deployment = "container",
           SchemaPath(generated[index].version) \in Assets
    PROVE  /\ Readable(SchemaPath(generated[index].version))
           /\ library[SchemaPath(generated[index].version)] = Item(p, TRUE)
<1>1. index \in DOMAIN generated /\ verdict = "none"
  BY PhaseFacts DEF GenerateInv, ControlInv, GeneratedSoFar
<1>2. generated[index] = Resolved(Ids[index], Loaded) /\ Ids[index] \in DOMAIN Loaded.tenants
  BY <1>1, GeneratedIsResolved
<1>3. generated[index].version = Loaded.tenants[Ids[index]].server.version
  <2>1. Resolved(Ids[index], Loaded).version = Loaded.tenants[Ids[index]].server.version
    BY RecordFields
  <2> QED
    BY <1>2, <2>1
<1>4. generated[index].version \in Versions
  <2>1. Valid(Loaded)
    BY <1>1 DEF GenerateInv, AcceptedInv
  <2> QED
    BY <1>2, <1>3, <2>1 DEF Valid, ValidTenant, ValidServer
<1>5. PICK i \in DOMAIN Bundle : Bundle[i].path = SchemaPath(generated[index].version)
  BY DEF Assets
<1>6. Bundle[i].kind = "file"
  BY <1>4, <1>5, ReleaseAssumption
<1>7. library[SchemaPath(generated[index].version)] = Item(p, TRUE)
  BY <1>5, <1>6 DEF IsWhole
<1> QED
  BY <1>7, KindsOfNodes DEF Readable

LEMMA SchemaIsThere ==
    ASSUME GenerateInv, HasSchemas, phase = "schemas", generated[index].deployment = "container"
    PROVE  SchemaPath(generated[index].version) \in Assets
<1> DEFINE id == Ids[index]
           tenant == Loaded.tenants[id]
<1>1. index \in DOMAIN generated
  BY PhaseFacts DEF GenerateInv, ControlInv, GeneratedSoFar
<1>2. generated[index] = Resolved(id, Loaded) /\ id \in DOMAIN Loaded.tenants
  BY <1>1, GeneratedIsResolved
<1>3. /\ Resolved(id, Loaded).version = tenant.server.version
      /\ Resolved(id, Loaded).deployment = DeploymentOf(tenant.database)
  BY RecordFields
<1>4. DeploymentOf(tenant.database) = "container" => SchemaPath(tenant.server.version) \in Assets
  BY <1>2 DEF HasSchemas
<1> HIDE DEF id, tenant
<1> QED
  BY <1>2, <1>3, <1>4

\* What a step has to show when the release is there before and after it.
LEMMA SourcesSuffice ==
    ASSUME GenerateInv, SourcesInv, UNCHANGED <<conf, ready>>, UNCHANGED exportvars,
           phase' # "validate",
           ready /\ ~meddled => FromRelease(files') /\ (HasSchemas => verdict' # "noAsset")
    PROVE  SourcesInv'
<1>1. UNCHANGED <<result, meddled>>
  BY DEF exportvars
<1>2. SomeReady' = SomeReady
  BY <1>1 DEF SomeReady
<1>3. HasSchemas' = HasSchemas
  BY LoadedStays DEF HasSchemas
<1>4. FromRelease(files)' = FromRelease(files')
  BY DEF FromRelease
<1> HIDE DEF HasSchemas, FromRelease, SomeReady
<1> QED
  BY <1>1, <1>2, <1>3, <1>4 DEF SourcesInv

LEMMA SourcesOfRender ==
    ASSUME ReleaseInv, GenerateInv, SourcesInv, UNCHANGED exportvars, Render
    PROVE  SourcesInv'
<1>1. /\ UNCHANGED <<conf, ready>> /\ phase' # "validate"
      /\ phase = "templates" /\ index \in DOMAIN Wanted
  BY RenderOutcome
<1>2. ASSUME ready, ~meddled
      PROVE  FromRelease(files') /\ verdict' # "noAsset"
  <2>1. SomeReady /\ FromRelease(files)
    BY <1>2 DEF SourcesInv
  <2>2. PICK p \in Exports : IsWhole(p)
    BY <1>2, <2>1 DEF ReleaseInv, SomeReady
  <2>3. /\ Readable(TemplatePath(Wanted[index]))
        /\ library[TemplatePath(Wanted[index])] = Item(p, TRUE)
    BY <1>1, <2>2, TemplatesAreReadable
  <2>4. verdict' # "noAsset" /\ files' = Added(<<Wanted[index]>>, Item(p, TRUE))
    BY <2>3, RenderOutcome DEF Parses
  <2> QED
    BY <2>1, <2>4, AddedFromRelease
<1> QED
  BY <1>1, <1>2, SourcesSuffice

LEMMA SourcesOfLoadSchema ==
    ASSUME ReleaseInv, GenerateInv, SourcesInv, UNCHANGED exportvars, LoadSchema
    PROVE  SourcesInv'
<1> DEFINE path == SchemaPath(generated[index].version)
           needed == generated[index].deployment = "container"
<1>1. UNCHANGED <<conf, ready>> /\ phase' # "validate" /\ phase = "schemas"
  BY LoadSchemaOutcome
<1>2. \/ needed /\ ~Readable(path) /\ UNCHANGED files
      \/ ~needed /\ UNCHANGED files /\ verdict' # "noAsset"
      \/ /\ needed /\ Readable(path) /\ verdict' # "noAsset"
         /\ files' = Added(SchemaFile(generated[index]), library[path])
  BY LoadSchemaOutcome
<1>3. needed /\ HasSchemas => path \in Assets
  BY <1>1, SchemaIsThere
<1>4. ASSUME NEW p \in Exports, IsWhole(p), needed, path \in Assets
      PROVE  Readable(path) /\ library[path] = Item(p, TRUE)
  BY <1>1, <1>4, SchemasAreReadable
<1>5. Readable(path) => path \in Assets
  BY DEF Readable
<1> HIDE DEF path, needed
<1>6. ASSUME ready, ~meddled
      PROVE  FromRelease(files') /\ (HasSchemas => verdict' # "noAsset")
  <2>1. SomeReady /\ FromRelease(files)
    BY <1>6 DEF SourcesInv
  <2>2. PICK p \in Exports : IsWhole(p)
    BY <1>6, <2>1 DEF ReleaseInv, SomeReady
  <2>3. CASE needed /\ ~Readable(path) /\ UNCHANGED files
    <3>1. ~HasSchemas
      BY <1>3, <1>4, <2>2, <2>3
    <3> QED
      BY <2>1, <2>3, <3>1
  <2>4. CASE ~needed /\ UNCHANGED files /\ verdict' # "noAsset"
    BY <2>1, <2>4
  <2>5. CASE /\ needed /\ Readable(path) /\ verdict' # "noAsset"
             /\ files' = Added(SchemaFile(generated[index]), library[path])
    <3>1. files' = Added(SchemaFile(generated[index]), Item(p, TRUE))
      BY <1>4, <1>5, <2>2, <2>5
    <3> QED
      BY <2>1, <2>5, <3>1, AddedFromRelease
  <2> QED
    BY <1>2, <2>3, <2>4, <2>5
<1> QED
  BY <1>1, <1>6, SourcesSuffice

LEMMA SourcesOfValidate ==
    ASSUME GenerateInv, SourcesInv, UNCHANGED exportvars, Validate
    PROVE  SourcesInv'
<1>1. files = << >> /\ UNCHANGED files /\ ready' = ReleaseIsThere
  BY DEF Validate, SourcesInv
<1>2. verdict' # "noAsset"
  BY DEF Validate, Conclude, Turn, GenerateInv, ControlInv
<1>3. UNCHANGED result
  BY DEF exportvars
<1>4. ready' => SomeReady'
  BY <1>1, <1>3 DEF ReleaseIsThere, SomeReady
<1>5. FromRelease(files')
  BY <1>1 DEF FromRelease
<1>6. FromRelease(files)' = FromRelease(files')
  BY DEF FromRelease
<1> HIDE DEF HasSchemas, FromRelease, SomeReady
<1> QED
  BY <1>1, <1>2, <1>4, <1>5, <1>6 DEF SourcesInv

\* An export, or the administrator, takes no success back.
LEMMA SourcesOfExport ==
    ASSUME ExportTypeOK, ReleaseInv, SourcesInv, UNCHANGED generatevars, [ExportNext]_exportvars
    PROVE  SourcesInv'
<1>1. UNCHANGED <<conf, phase, files, ready, verdict>>
  BY DEF generatevars
<1>2. ASSUME meddled PROVE meddled'
  BY <1>2, MeddledStays
<1>3. SomeReady => SomeReady'
  <2> SUFFICES ASSUME NEW p \in Exports, result[p] = "ok"
               PROVE  result'[p] = "ok"
    BY DEF SomeReady
  <2> QED
    BY ResultStays DEF ReleaseInv
<1>4. HasSchemas' = HasSchemas
  BY <1>1, LoadedStays DEF HasSchemas
<1>5. FromRelease(files)' = FromRelease(files)
  BY <1>1 DEF FromRelease
<1> HIDE DEF HasSchemas, FromRelease, SomeReady
<1> QED
  BY <1>1, <1>2, <1>3, <1>4, <1>5 DEF SourcesInv

LEMMA SourcesStep ==
    /\ ExportTypeOK /\ ReleaseInv /\ GenerateInv /\ SourcesInv
    /\ [DeploymentNext]_deploymentvars
    => SourcesInv'
<1> SUFFICES ASSUME ExportTypeOK, ReleaseInv, GenerateInv, SourcesInv,
                    [DeploymentNext]_deploymentvars
             PROVE  SourcesInv'
  OBVIOUS
<1>1. CASE UNCHANGED generatevars /\ [ExportNext]_exportvars
  BY <1>1, SourcesOfExport
<1>2. ASSUME Generate, UNCHANGED exportvars
      PROVE  SourcesInv'
  <2>1. CASE Validate
    BY <1>2, <2>1, SourcesOfValidate
  <2>2. CASE GenerateTenant \/ NewComposeData
    <3>1. UNCHANGED <<conf, files, ready, verdict>> /\ phase' # "validate"
      BY <2>2 DEF GenerateTenant, NewComposeData, Turn
    <3>2. ready /\ ~meddled => FromRelease(files) /\ (HasSchemas => verdict # "noAsset")
      BY DEF SourcesInv
    <3>3. ready /\ ~meddled => FromRelease(files') /\ (HasSchemas => verdict' # "noAsset")
      BY <3>1, <3>2
    <3> QED
      BY <1>2, <3>1, <3>3, SourcesSuffice
  <2>3. CASE Render
    BY <1>2, <2>3, SourcesOfRender
  <2>4. CASE LoadSchema
    BY <1>2, <2>4, SourcesOfLoadSchema
  <2> QED
    BY <1>2, <2>1, <2>2, <2>3, <2>4 DEF Generate
<1> QED
  BY <1>1, <1>2 DEF DeploymentNext, deploymentvars

\* An export that has succeeded is enough for every generate that starts after it,
\* whatever other exports do meanwhile: only whole files of the release are read, and
\* none is missed for which the release has a schema.
THEOREM ReleaseIsEnough == DeploymentSpec => []ReleaseSuffices
<1>1. GenerateInit => SourcesInv
  BY DEF GenerateInit, SourcesInv
<1>2. DeploymentSpec => []SourcesInv
  BY <1>1, SourcesStep, GenerateInvariant, ExportsOfDeployment, ExportTypeCorrect,
     ReleaseInvariant, PTL DEF DeploymentSpec
<1>3. SourcesInv => ReleaseSuffices
  BY DEF SourcesInv, ReleaseSuffices, FromRelease
<1> QED
  BY <1>2, <1>3, PTL

\* The properties of exports hold while generate is at work, too.
THEOREM DeploymentExports == DeploymentSpec => NeverOverwrites /\ SuccessIsWhole
BY ExportsOfDeployment, ExportNeverOverwrites, ExportSuccessIsWhole
=============================================================================
