----------------------------- MODULE Deployment -----------------------------
(***************************************************************************)
(* `radius-director generate` between the configuration it has loaded and  *)
(* the files it writes: the rules of package validation (those for template *)
(* sets are in Templates), the resolved tenants of package generator and   *)
(* the Docker deployment, whose templates and schemas come from the asset  *)
(* library that exports fill.                                              *)
(*                                                                         *)
(* A configuration is what the YAML document says, "" where it says nothing; *)
(* an optional value is a set with at most one element.  A host, a service, *)
(* a volume or a file is the sequence of the parts of its name.            *)
(***************************************************************************)
EXTENDS Export, Integers

CONSTANTS
    Configuration,  \* the configurations that may have been loaded: name -> content
    Sorted,         \* the names of the tenants of a configuration, sorted
    IPs,            \* what net.ParseIP accepts
    Seconds,        \* what time.ParseDuration accepts: text -> duration
    Versions        \* the FreeRADIUS versions the template library supports

Port == 1..65535

SchemaPath(version) == <<"schemas", "freeradius", version, "mysql", "schema.sql">>
TemplatePath(name)  == <<"templates", "deployment", "docker", name>>

\* Every tenant has its turn, once.
ASSUME ConfigurationAssumption ==
    \A c \in DOMAIN Configuration :
        /\ Sorted[c] \in Seq(DOMAIN Configuration[c].tenants)
        /\ IsInjective(Sorted[c])
        /\ ToSet(Sorted[c]) = DOMAIN Configuration[c].tenants

\* A release has the templates of the deployment; a schema is a file.
ASSUME ReleaseAssumption ==
    /\ \A name \in {"docker-compose.yml", "entrypoint.sh", "proxysql.cnf"} :
         [path |-> TemplatePath(name), kind |-> "file"] \in ToSet(Bundle)
    /\ \A version \in Versions : \A i \in DOMAIN Bundle :
         Bundle[i].path = SchemaPath(version) => Bundle[i].kind = "file"

-----------------------------------------------------------------------------
\* Package validation.

DeploymentOf(db) == IF db.deployment = "" THEN "container" ELSE db.deployment

ValidGlobals(g) ==
    /\ \A id \in DOMAIN g.credentials : g.credentials[id] # ""
    /\ \A id \in DOMAIN g.authentication : \A n \in g.authentication[id] : n >= 1
    /\ \A id \in DOMAIN g.accounting :
         g.accounting[id] # "" =>
             g.accounting[id] \in DOMAIN Seconds /\ Seconds[g.accounting[id]] > 0
    /\ \A id \in DOMAIN g.nas : g.nas[id].ip \in IPs /\ g.nas[id].vendor # ""
    /\ \A id \in DOMAIN g.trusted : g.trusted[id] \in IPs

ValidDatabase(db) ==
    /\ db.engine = "mysql"
    /\ DeploymentOf(db) \in {"container", "proxysql", "external"}
    /\ DeploymentOf(db) # "container" => db.host # << >> /\ db.port \in Port
    /\ db.database # "" /\ db.username # "" /\ db.password # ""

ValidServer(server) ==
    /\ server.version \in Versions
    /\ {server.authentication, server.accounting, server.coa} \subseteq Port

ValidAuthenticator(optional) == optional \subseteq {"auto", "yes", "no"}

ValidTenant(t) ==
    /\ t.authentication # "" /\ t.deployment # ""
    /\ ValidDatabase(t.database)
    /\ ValidServer(t.server)
    /\ DOMAIN t.nas # {}
    /\ \A id \in DOMAIN t.nas :
         /\ t.nas[id].credential # "" /\ t.nas[id].accounting # "" /\ t.nas[id].monitoring # ""
         /\ ValidAuthenticator(t.nas[id].authenticator)
    /\ \A id \in DOMAIN t.trusted :
         t.trusted[id].credential # "" /\ ValidAuthenticator(t.trusted[id].authenticator)

Exists(id, objects) == id # "" => id \in objects

ValidReferences(t, g) ==
    /\ Exists(t.authentication, DOMAIN g.authentication)
    /\ Exists(t.deployment, g.deployment)
    /\ \A id \in DOMAIN t.nas :
         /\ id \in DOMAIN g.nas
         /\ Exists(t.nas[id].credential, DOMAIN g.credentials)
         /\ Exists(t.nas[id].accounting, DOMAIN g.accounting)
         /\ Exists(t.nas[id].monitoring, g.monitoring)
    /\ \A id \in DOMAIN t.trusted :
         /\ id \in DOMAIN g.trusted
         /\ Exists(t.trusted[id].credential, DOMAIN g.credentials)

\* Mutant: the rule is forgotten.
RelationshipsUnchecked(t, g) == TRUE

\* A device and a trusted client of one name would be one FreeRADIUS client.
ValidRelationships(t, g) ==
    (DOMAIN t.nas \cap DOMAIN g.nas) \cap (DOMAIN t.trusted \cap DOMAIN g.trusted) = {}

Proxied(c) == {id \in DOMAIN c.tenants : DeploymentOf(c.tenants[id].database) = "proxysql"}

\* Mutant: users of one backend only are compared.
UsernamesPerHost(c) ==
    \A s, t \in Proxied(c) :
        LET a == c.tenants[s].database  b == c.tenants[t].database
        IN  a.username = b.username /\ a.host = b.host => s = t

\* ProxySQL tells the tenants apart by their database users.
ValidUsernames(c) ==
    \A s, t \in Proxied(c) :
        LET user == c.tenants[s].database.username
        IN  user # "" /\ user = c.tenants[t].database.username => s = t

Valid(c) ==
    /\ ValidGlobals(c.global)
    /\ ValidUsernames(c)
    /\ \A id \in DOMAIN c.tenants :
         LET t == c.tenants[id] IN
         ValidTenant(t) /\ ValidReferences(t, c.global) /\ ValidRelationships(t, c.global)

-----------------------------------------------------------------------------
\* Package generator: one tenant.  What is only printed is left out (the ports of
\* the server, the authenticators), and so is the selection of templates.

Endpoint(id, db) ==
    CASE DeploymentOf(db) = "container" -> [host |-> <<"database", id>>, port |-> 3306]
      [] DeploymentOf(db) = "proxysql"  -> [host |-> <<"proxysql">>, port |-> 6033]
      [] OTHER                          -> [host |-> db.host, port |-> db.port]

Timeout(text) == IF text = "" THEN {} ELSE {Seconds[text]}

Resolved(id, c) ==
    LET t == c.tenants[id]
        g == c.global
        Secret(assignment) == g.credentials[assignment.credential]
    IN  [id         |-> id,
         clients    |-> {[id |-> n, ip |-> g.nas[n].ip, secret |-> Secret(t.nas[n]),
                          vendor |-> g.nas[n].vendor] : n \in DOMAIN t.nas}
                        \cup
                        {[id |-> n, ip |-> g.trusted[n], secret |-> Secret(t.trusted[n]),
                          vendor |-> ""] : n \in DOMAIN t.trusted},
         homes      |-> {[id |-> n, ip |-> g.nas[n].ip, secret |-> Secret(t.nas[n])] :
                            n \in DOMAIN t.nas},
         policies   |-> {[nas |-> n, timeout |-> Timeout(g.accounting[t.nas[n].accounting])] :
                            n \in DOMAIN t.nas},
         limit      |-> g.authentication[t.authentication],
         deployment |-> DeploymentOf(t.database),
         endpoint   |-> Endpoint(id, t.database),
         backend    |-> [host |-> t.database.host, port |-> t.database.port],
         login      |-> [database |-> t.database.database,
                         username |-> t.database.username,
                         password |-> t.database.password],
         version    |-> t.server.version]

-----------------------------------------------------------------------------
\* Package docker: the data of the templates, and what those make of it.

Backend(tenant, group) == [server |-> tenant.backend, login |-> tenant.login, group |-> group]

NextGroup(data) == 10 + Len(data.backends)

\* Mutant: the last tenant says whether there is a database container.
AddLast(data, tenant) ==
    [tenants   |-> Append(data.tenants, tenant),
     backends  |-> IF tenant.deployment = "proxysql"
                     THEN Append(data.backends, Backend(tenant, NextGroup(data)))
                     ELSE data.backends,
     container |-> tenant.deployment = "container"]

Add(data, tenant) ==
    [tenants   |-> Append(data.tenants, tenant),
     backends  |-> IF tenant.deployment = "proxysql"
                     THEN Append(data.backends, Backend(tenant, NextGroup(data)))
                     ELSE data.backends,
     container |-> data.container \/ tenant.deployment = "container"]

Volume(tenant) == <<"database", tenant.id, "data">>

HasProxy(data) == data.backends # << >>

\* docker-compose.yml: every service repeats the network of the runtime.
Networks(networked) == {IF networked THEN "radius-director" ELSE "default"}

Radius(tenant, networked) ==
    [name     |-> <<"radius", tenant.id>>,
     needs    |-> CASE tenant.deployment = "container" -> {<<"database", tenant.id>>}
                    [] tenant.deployment = "proxysql"  -> {<<"proxysql">>}
                    [] OTHER                           -> {},
     files    |-> {<<tenant.id>>, <<"entrypoint.sh">>},
     volumes  |-> {},
     networks |-> Networks(networked),
     holds    |-> {}]

Database(tenant, networked) ==
    [name     |-> <<"database", tenant.id>>,
     needs    |-> {},
     files    |-> {<<tenant.id, "database", "schema.sql">>},
     volumes  |-> {Volume(tenant)},
     networks |-> Networks(networked),
     holds    |-> {tenant.login}]

Proxy(networked) ==
    [name     |-> <<"proxysql">>,
     needs    |-> {},
     files    |-> {<<"proxysql.cnf">>},
     volumes  |-> {},
     networks |-> Networks(networked),
     holds    |-> {}]

Contained(data) == {tenant \in ToSet(data.tenants) : tenant.deployment = "container"}

Services(data, networked) ==
    {Radius(tenant, networked) : tenant \in ToSet(data.tenants)}
    \cup {Database(tenant, networked) : tenant \in Contained(data)}
    \cup (IF HasProxy(data) THEN {Proxy(networked)} ELSE {})

Volumes(data) == IF data.container THEN {Volume(tenant) : tenant \in Contained(data)} ELSE {}

\* proxysql.cnf: where a user name is routed to, and the servers of a group.
Routes(data, username) ==
    {backend \in ToSet(data.backends) : backend.login.username = username}
Servers(data, group) ==
    {backend.server : backend \in {b \in ToSet(data.backends) : b.group = group}}

-----------------------------------------------------------------------------
VARIABLES
    conf,       \* the configuration that has been loaded
    networked,  \* RADIUS_DIRECTOR_RUNTIME_NETWORK is set
    phase,      \* the loop generate is in
    index,      \* the element it is at
    generated,  \* generator.Configuration
    data,       \* ComposeData
    files,      \* the files of the deployment: name -> what it was read from
    ready,      \* history: the library held a whole release when generate began
    verdict     \* how it ends, "none" while it is undecided

generatevars == <<conf, networked, phase, index, generated, data, files, ready, verdict>>
deploymentvars == <<exportvars, generatevars>>

Loaded == Configuration[conf]

Ids == Sorted[conf]

NoData == [tenants |-> << >>, backends |-> << >>, container |-> FALSE]

Wanted ==
    IF HasProxy(data) THEN <<"docker-compose.yml", "entrypoint.sh", "proxysql.cnf">>
    ELSE <<"docker-compose.yml", "entrypoint.sh">>

Phases == {"validate", "generate", "compose", "templates", "schemas", "done"}

DeploymentTypeOK ==
    /\ ExportTypeOK
    /\ conf \in DOMAIN Configuration
    /\ networked \in BOOLEAN
    /\ phase \in Phases
    /\ index \in Nat \ {0}
    /\ phase \in {"generate", "compose", "schemas"} => index \in DOMAIN Ids
    /\ phase = "templates" => index \in DOMAIN Wanted
    /\ \A i \in DOMAIN generated : generated[i].id \in DOMAIN Loaded.tenants
    /\ \A i \in DOMAIN data.backends : data.backends[i].group = 9 + i
    /\ data.container <=> Contained(data) # {}
    /\ ready \in BOOLEAN
    /\ verdict \in {"none", "ok", "refused", "noAsset"}

GenerateInit ==
    /\ conf \in DOMAIN Configuration
    /\ networked \in BOOLEAN
    /\ phase = "validate"
    /\ index = 1
    /\ generated = << >>
    /\ data = NoData
    /\ files = << >>
    /\ ready = FALSE
    /\ verdict = "none"

Conclude(why) == phase' = "done" /\ index' = 1 /\ verdict' = why

\* The next element of a loop over n of them, or the next loop.
Turn(n, next) ==
    /\ IF index < n
         THEN index' = index + 1 /\ UNCHANGED phase
         ELSE index' = 1 /\ phase' = next
    /\ UNCHANGED verdict

ReleaseIsThere == ~meddled /\ \E p \in Exports : result[p] = "ok"

Validate ==
    /\ phase = "validate"
    /\ IF ~Valid(Loaded) THEN Conclude("refused")
       ELSE IF Ids = << >> THEN Turn(1, "templates")
       ELSE Turn(1, "generate")
    /\ ready' = ReleaseIsThere
    /\ UNCHANGED <<conf, networked, generated, data, files>>

GenerateTenant ==
    /\ phase = "generate"
    /\ generated' = Append(generated, Resolved(Ids[index], Loaded))
    /\ Turn(Len(Ids), "compose")
    /\ UNCHANGED <<conf, networked, data, files, ready>>

NewComposeData ==
    /\ phase = "compose"
    /\ data' = Add(data, generated[index])
    /\ Turn(Len(generated), "templates")
    /\ UNCHANGED <<conf, networked, generated, files, ready>>

Readable(path) == path \in Assets /\ library[path].kind = "item"

\* Mutant: proxysql.cnf is rendered, but not added to the files.
AddedButProxy(path, source) ==
    [p \in DOMAIN files \cup ({path} \ {<<"proxysql.cnf">>}) |->
        IF p = path THEN source ELSE files[p]]

Added(path, source) ==
    [p \in DOMAIN files \cup {path} |-> IF p = path THEN source ELSE files[p]]

\* Only the templates of a release are sure to parse, and to execute.
Parses(path) == \E p \in Exports : library[path] = Item(p, TRUE)

\* A file that an export is still writing is read as far as it has got.
Render ==
    /\ phase = "templates"
    /\ LET name == Wanted[index]
           path == TemplatePath(name)
       IN  \/ /\ Readable(path)
              /\ files' = Added(<<name>>, library[path])
              /\ IF index = Len(Wanted) /\ Ids = << >>
                   THEN Conclude("ok")
                   ELSE Turn(Len(Wanted), "schemas")
           \/ /\ ~Readable(path) \/ ~Parses(path)
              /\ Conclude("noAsset")
              /\ UNCHANGED files
    /\ UNCHANGED <<conf, networked, generated, data, ready>>

LoadSchema ==
    /\ phase = "schemas"
    /\ LET tenant == generated[index]
           path == SchemaPath(tenant.version)
           needed == tenant.deployment = "container"
       IN  \/ /\ needed => Readable(path)
              /\ files' = IF needed
                            THEN Added(<<tenant.id, "database", "schema.sql">>, library[path])
                            ELSE files
              /\ IF index = Len(Ids) THEN Conclude("ok") ELSE Turn(Len(Ids), "schemas")
           \/ /\ needed /\ ~Readable(path)
              /\ Conclude("noAsset")
              /\ UNCHANGED files
    /\ UNCHANGED <<conf, networked, generated, data, ready>>

Generate == Validate \/ GenerateTenant \/ NewComposeData \/ Render \/ LoadSchema

DeploymentNext ==
    \/ Generate /\ UNCHANGED exportvars
    \/ ExportNext /\ UNCHANGED generatevars

DeploymentSpec == ExportInit /\ GenerateInit /\ [][DeploymentNext]_deploymentvars

-----------------------------------------------------------------------------
\* Properties.

Named(host) == {s \in Services(data, networked) : s.name = host}

\* FreeRADIUS of every tenant reaches the database the configuration gives that
\* tenant, with that database's credentials, and no other tenant's: directly,
\* as a service of the deployment, or through ProxySQL, where the user name
\* leads to one host group and that to one server.
Reaches(tenant, db) ==
    /\ tenant.login = [database |-> db.database, username |-> db.username, password |-> db.password]
    /\ CASE DeploymentOf(db) = "container" ->
              /\ tenant.endpoint.port = 3306
              /\ \E s \in Services(data, networked) :
                   Named(tenant.endpoint.host) = {s} /\ s.holds = {tenant.login}
         [] DeploymentOf(db) = "proxysql" ->
              /\ tenant.endpoint = [host |-> <<"proxysql">>, port |-> 6033]
              /\ \E route \in ToSet(data.backends) :
                   /\ Routes(data, db.username) = {route}
                   /\ route.login = tenant.login
                   /\ Servers(data, route.group) = {[host |-> db.host, port |-> db.port]}
         [] OTHER -> tenant.endpoint = [host |-> db.host, port |-> db.port]

RequestsReachOwnDatabase ==
    verdict = "ok" =>
        \A id \in DOMAIN Loaded.tenants : \E tenant \in ToSet(generated) :
            tenant.id = id /\ Reaches(tenant, Loaded.tenants[id].database)

\* Validation leaves nothing empty in what is rendered, and no name twice: a name
\* is one FreeRADIUS client, every client and home server has an address and a
\* secret, and a stale-session timeout that is enabled is positive.  Addresses
\* may be shared.
ClientsComplete ==
    \A tenant \in ToSet(generated) :
        /\ \A c, d \in tenant.clients : c.id = d.id => c = d
        /\ \A c \in tenant.clients \cup tenant.homes : c.ip \in IPs /\ c.secret # ""
        /\ \A policy \in tenant.policies : \A t \in policy.timeout : t > 0
        /\ tenant.homes # {}

\* The deployment is closed: whatever a service of the Compose file needs,
\* mounts or joins is part of the deployment.
DeploymentIsClosed ==
    verdict = "ok" =>
        \A s \in Services(data, networked) :
            /\ \A n \in s.needs : \E t \in Services(data, networked) :
                 t.name = n /\ t.networks \cap s.networks # {}
            /\ s.files \subseteq DOMAIN files \cup {<<t.id>> : t \in ToSet(generated)}
            /\ s.volumes \subseteq Volumes(data)
            /\ \A t \in Services(data, networked) : t.name = s.name => t = s

\* After an export has succeeded, and as long as nobody changes the library,
\* a configuration that validation accepts is generated, from whole files of
\* the release, provided the release has a schema for the tenants' versions.
HasSchemas ==
    \A id \in DOMAIN Loaded.tenants :
        DeploymentOf(Loaded.tenants[id].database) = "container" =>
            SchemaPath(Loaded.tenants[id].server.version) \in Assets

ReleaseSuffices ==
    ready /\ ~meddled =>
        /\ HasSchemas => verdict # "noAsset"
        /\ \A path \in DOMAIN files : files[path] \in {Item(p, TRUE) : p \in Exports}
=============================================================================
