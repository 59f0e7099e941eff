---------------------------- MODULE MCEntrypoint ----------------------------
(***************************************************************************)
(* The configurations for model checking Entrypoint: one tenant with a     *)
(* container, with and without an overlay, and with a file where another   *)
(* configuration has a directory.                                          *)
(***************************************************************************)
EXTENDS MCWriter, Entrypoint

\* A removal of a file of the image, one of a file of its own, one in quotes.
Removing == [tenants |-> << Isp(Base, << <<"sites", "default">>, <<"mods", "sql">>, <<"123">> >>) >>,
             deployment |-> << >>]

Served ==
    [plain |-> [Plain EXCEPT !.deployment = << >>], removing |-> Removing,
     flat |-> [Flat EXCEPT !.deployment = << >>], nothing |-> Nothing]

\* The operator's file is planned by one, and has to give way to a directory in
\* the other.
Upturned ==
    [over  |-> [tenants |-> << Isp(<< File(<<"notes">>) >>, << >>) >>, deployment |-> << >>],
     under |-> [tenants |-> << Isp(<< File(<<"notes", "sql">>), Link(<<"notes", "inner">>, <<"notes", "sql">>) >>, << >>) >>,
                deployment |-> << >>]]

\* A file where the image has a link, and files below a link.
Linked ==
    [keys |-> [tenants |-> << Isp(<< File(<<"keys">>) >>, << <<"sites", "default">> >>) >>,
               deployment |-> << >>],
     crossed |-> Crossed]

All == Served @@ Linked @@ Upturned

\* The image has a directory where the flat configuration has a link, and links
\* where others have a link or a file.
TheImage == { <<"isp", "sites", "default">>, <<"isp", "123">>, <<"isp", "inner", "keys">> }

TheLinks == <<"isp", "sites", "inner">> :> <<"isp", "sites", "default">>
            @@ <<"isp", "keys">> :> <<"isp", "sites", "default">>

Notes == { <<"isp", "notes">> }

\* Nothing is said of a container once two generates have met: from there on
\* only the generates are explored.
WithContainer ==
    /\ apart \/ \A t \in Containers : step[t] = "off"
    /\ \A g \in Gens : conf[g] \in DOMAIN Served
    /\ pc[3] = "idle" /\ conf[3] = "nothing"

\* Three generates that are in one another's way are explored by themselves.
InTheWay ==
    /\ \A g \in Gens : conf[g] \in DOMAIN Upturned /\ outcome[g] # "crashed"
    /\ \A t \in Containers : starts[t] = 0

\* A generate writes through a link of the tree, or has cp write through one of
\* the image.
OverLinks ==
    /\ apart
    /\ conf[1] \in DOMAIN Linked
    /\ conf[2] = "nothing" /\ conf[3] = "nothing" /\ pc[3] = "idle"

Explored == WithContainer \/ OverLinks \/ InTheWay

TheQuoted == { <<"isp", "123">> }
=============================================================================
