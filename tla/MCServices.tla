----------------------------- MODULE MCServices -----------------------------
(***************************************************************************)
(* Small instances: one telephone, one browser, one ticket, one            *)
(* conversation, three people, two members of an organization.             *)
(***************************************************************************)
EXTENDS Services

CONSTANTS gateway, client

\* A request through the gateway, and one that names another address itself.
MCOrigins == {<<gateway, client>>, <<client, gateway>>}

MCEntries == 1..4
MCReached == <<"planned", "approved", "absent", "absent">>
MCDated == <<{"claim", "handover"}, {}, {}, {}>>
MCKilometres == {None, 0, 50, 150}

MCWorkloads == {"codes", "factor", "repeat", "support", "chat", "staff", "team",
                "registers", "overview", "score"}
=============================================================================
