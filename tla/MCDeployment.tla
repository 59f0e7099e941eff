---------------------------- MODULE MCDeployment ----------------------------
(***************************************************************************)
(* A small release and configurations for model checking Deployment: every *)
(* kind of database, alone and in pairs, and one configuration for each     *)
(* mistake validation is to find.                                          *)
(***************************************************************************)
EXTENDS Deployment, TLC

E(path, kind) == [path |-> path, kind |-> kind]

TheBundle ==
    << E(<<"templates">>, "dir"),
       E(<<"templates", "deployment">>, "dir"),
       E(<<"templates", "deployment", "docker">>, "dir"),
       E(TemplatePath("docker-compose.yml"), "file"),
       E(TemplatePath("entrypoint.sh"), "file"),
       E(TemplatePath("proxysql.cnf"), "file"),
       E(<<"templates", "enabled">>, "link"),
       E(<<"schemas">>, "dir"),
       E(<<"schemas", "freeradius">>, "dir"),
       E(<<"schemas", "freeradius", "3.2.10">>, "dir"),
       E(<<"schemas", "freeradius", "3.2.10", "mysql">>, "dir"),
       E(SchemaPath("3.2.10"), "file") >>

TheTouched ==
    {TemplatePath("docker-compose.yml"), <<"schemas", "freeradius">>}

\* The administrator's templates support a version that has no schema.
TheVersions == {"3.2.10", "4.0.0"}
TheIPs      == {"10.0.0.1", "10.0.0.2", "2001:db8::9"}
TheSeconds  == ("30m" :> 1800) @@ ("0s" :> 0) @@ ("-1h" :> -3600)

-----------------------------------------------------------------------------
Global ==
    [credentials    |-> [strong |-> "s3cret", other |-> "secr3t"],
     authentication |-> [one |-> {1}, many |-> {}],
     accounting     |-> [never |-> "", half |-> "30m"],
     monitoring     |-> {"basic"},
     deployment     |-> {"default"},
     nas            |-> [west |-> [ip |-> "10.0.0.1", vendor |-> "mikrotik"],
                         east |-> [ip |-> "10.0.0.2", vendor |-> "other"]],
     trusted        |-> [portal |-> "2001:db8::9", west |-> "2001:db8::9"]]

Db(deployment, host, user) ==
    [engine |-> "mysql", deployment |-> deployment, host |-> host, port |-> 3307,
     database |-> "radius", username |-> user, password |-> "pw-" \o user]

Assign(credential, accounting, monitoring, authenticator) ==
    [credential |-> credential, accounting |-> accounting, monitoring |-> monitoring,
     authenticator |-> authenticator]

Trust(credential, authenticator) == [credential |-> credential, authenticator |-> authenticator]

Tenant(db) ==
    [authentication |-> "one", deployment |-> "default", database |-> db,
     server  |-> [version |-> "3.2.10", authentication |-> 1812, accounting |-> 1813, coa |-> 3799],
     nas     |-> [west |-> Assign("strong", "half", "basic", {}),
                  east |-> Assign("other", "never", "basic", {"yes"})],
     trusted |-> [portal |-> Trust("strong", {"auto"})]]

Good == Tenant(Db("", << >>, "radius"))

Isp(tenant) == [global |-> Global, tenants |-> [isp |-> tenant]]
With(global) == [global |-> global, tenants |-> [isp |-> Good]]

\* Two backends, two users, a container and an external database.
Databases ==
    << Db("", << >>, "radius"), Db("container", <<"db1">>, "isp"),
       Db("external", <<"db1">>, "isp"),
       Db("proxysql", <<"db1">>, "radius"), Db("proxysql", <<"db1">>, "isp"),
       Db("proxysql", <<"db2">>, "radius"), Db("proxysql", <<"db2">>, "isp") >>

Pair(i, j) ==
    [global |-> Global, tenants |-> [isp |-> Tenant(Databases[i]), lab |-> Tenant(Databases[j])]]

Pairs == [k \in 1..49 |-> Pair(((k - 1) \div 7) + 1, ((k - 1) % 7) + 1)]

Triple(a, deployment) ==
    [global |-> Global, tenants |-> [isp |-> Tenant(Db("proxysql", <<"db1">>, a)),
                                     lab |-> Tenant(Db(deployment, <<"db2">>, "radius")),
                                     pop |-> Tenant(Db("proxysql", <<"db1">>, "isp"))]]

Triples ==
    << Triple("lab", "container"), Triple("lab", "external"), Triple("lab", "proxysql"),
       Triple("isp", "container"), Triple("isp", "proxysql") >>

BadDatabases ==
    << [Db("proxysql", <<"db1">>, "isp") EXCEPT !.engine = "postgresql"],
     [Db("", << >>, "isp") EXCEPT !.engine = ""],
     Db("cloud", <<"db1">>, "isp"), Db("external", << >>, "isp"),
     [Db("external", <<"db1">>, "isp") EXCEPT !.port = 65536],
     [Db("proxysql", <<"db1">>, "isp") EXCEPT !.port = 0],
     [Db("", << >>, "isp") EXCEPT !.password = ""],
     [Db("", << >>, "isp") EXCEPT !.database = ""], Db("proxysql", <<"db1">>, "") >>

BadTenants ==
    << [Good EXCEPT !.authentication = ""], [Good EXCEPT !.authentication = "none"],
     [Good EXCEPT !.deployment = ""], [Good EXCEPT !.deployment = "none"],
     [Good EXCEPT !.server.version = "2.0"], [Good EXCEPT !.server.coa = 0],
     [Good EXCEPT !.nas = << >>],
     [Good EXCEPT !.nas.west = Assign("", "half", "basic", {})],
     [Good EXCEPT !.nas.west = Assign("weak", "half", "basic", {})],
     [Good EXCEPT !.nas.west = Assign("strong", "", "basic", {})],
     [Good EXCEPT !.nas.west = Assign("strong", "daily", "basic", {})],
     [Good EXCEPT !.nas.west = Assign("strong", "half", "", {})],
     [Good EXCEPT !.nas.west = Assign("strong", "half", "basic", {"maybe"})],
     [Good EXCEPT !.nas = [north |-> Assign("strong", "half", "basic", {})]],
     [Good EXCEPT !.trusted = [portal |-> Trust("weak", {})]],
     [Good EXCEPT !.trusted = [portal |-> Trust("", {})]],
     [Good EXCEPT !.trusted = [nobody |-> Trust("strong", {})]],
     [Good EXCEPT !.trusted = [west |-> Trust("other", {})]] >>

BadGlobals ==
    << [Global EXCEPT !.credentials.strong = ""], [Global EXCEPT !.authentication.one = {0}],
     [Global EXCEPT !.accounting.half = "soon"], [Global EXCEPT !.accounting.half = "0s"],
     [Global EXCEPT !.accounting.half = "-1h"], [Global EXCEPT !.nas.west.ip = "west"],
     [Global EXCEPT !.nas.west.vendor = ""], [Global EXCEPT !.trusted.portal = ""] >>

Each(Op(_), seq) == [i \in DOMAIN seq |-> Op(seq[i])]

TheConfigurations ==
    Pairs \o Triples
    \o Each(Isp, Each(Tenant, Databases \o BadDatabases))
    \o Each(Isp, << [Good EXCEPT !.server.version = "4.0.0"] >> \o BadTenants)
    \o Each(With, BadGlobals)
    \o << [global |-> Global, tenants |-> << >>] >>

TheSorted ==
    [c \in DOMAIN TheConfigurations |->
        SelectSeq(<<"isp", "lab", "pop">>,
                  LAMBDA id : id \in DOMAIN TheConfigurations[c].tenants)]

\* A container and ProxySQL.
Busy == 4

-----------------------------------------------------------------------------
\* One configuration with a library that is being exported, or all of them with
\* one that has been.
Exporting == ExportInit /\ GenerateInit /\ conf = Busy /\ networked

Exported ==
    /\ \E p \in Exports :
         /\ library = [path \in Assets |->
                         IF \E i \in DOMAIN Bundle : Bundle[i] = E(path, "dir")
                           THEN Directory ELSE Item(p, TRUE)]
         /\ result = [q \in Exports |-> IF q = p THEN "ok" ELSE "notEmpty"]
         /\ entry = [q \in Exports |-> IF q = p THEN Len(Bundle) ELSE 1]
    /\ call = [p \in Exports |-> "done"]
    /\ meddled = FALSE
    /\ GenerateInit

MCSpec == (Exporting \/ Exported) /\ [][DeploymentNext]_deploymentvars
=============================================================================
