------------------------------ MODULE MCWriter ------------------------------
(***************************************************************************)
(* Configurations for model checking Writer: two tenants, one of them with *)
(* an overlay that can be switched on and off, in the shapes the template  *)
(* library produces (files, links beside them, a schema, a Compose file).  *)
(***************************************************************************)
EXTENDS Writer

File(path)     == [path |-> path, kind |-> "regular", to |-> path]
Link(path, to) == [path |-> path, kind |-> "symlink", to |-> to]

Isp(rendered, remove) == [id |-> "isp", rendered |-> rendered, remove |-> remove]

Inner   == Link(<<"sites", "inner">>, <<"mods", "sql">>)
Base    == << File(<<"mods", "sql">>), Inner >>
Overlay == << File(<<"mods", "sql">>), File(<<"mods", "vlan">>), Inner >>
Compose == << File(<<"docker-compose.yml">>) >>

Plain     == [tenants |-> << Isp(Base, << >>) >>, deployment |-> Compose]
Overlaid  == [tenants |-> << Isp(Overlay, << <<"sites", "default">> >>) >>,
              deployment |-> Compose]
Two       == [tenants |-> << Isp(Base, << <<"mods", "eap">> >>),
                             [id |-> "lab", rendered |-> << File(<<"clients">>) >>,
                              remove |-> << >>] >>,
              deployment |-> Compose \o << File(<<"lab", "database", "schema">>) >>]

\* remove: ["."] passes validation.
Dotted    == [tenants |-> << Isp(Base, << << >> >>) >>, deployment |-> Compose]

\* A file where other configurations have a directory.
Flat      == [tenants |-> << Isp(<< File(<<"mods">>), Link(<<"inner">>, <<"mods">>) >>, << >>) >>,
              deployment |-> Compose]

\* An overlay has files below a path that the set has as a link to a directory.
Crossed   == [tenants |-> << Isp(<< File(<<"mods", "sql">>), Link(<<"more">>, <<"mods">>),
                                 File(<<"more", "notes">>) >>, << >>) >>,
              deployment |-> << >>]

\* No tenants at all.
Nothing   == [tenants |-> << >>, deployment |-> << >>]

Fitting == [plain |-> Plain, overlaid |-> Overlaid, two |-> Two, dotted |-> Dotted]
Through == [crossed |-> Crossed]

KeptBeside == { <<"isp", "mods", "notes">> }
=============================================================================
