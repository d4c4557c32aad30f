-------------------------------- MODULE MCCli -------------------------------
(***************************************************************************)
(* A small instance of Cli for TLC: three editions of a network, and       *)
(* another network that uses what it finds.                                *)
(***************************************************************************)
EXTENDS CliProperties

Chaincodes == {"fabcar", "Fabcar", "marbles"}
ToLower == [c \in Chaincodes |-> IF c = "Fabcar" THEN "fabcar" ELSE c]

Local(edition, crypto, chaincodes) ==
    [edition |-> edition, name |-> "simple", configtx |-> "file", crypto |-> crypto,
     genesis |-> FALSE, folder |-> TRUE, chaincodes |-> chaincodes]
Referring == [edition |-> 4, name |-> "other", configtx |-> "secret", crypto |-> "secret",
              genesis |-> TRUE, folder |-> FALSE, chaincodes |-> <<"fabcar">>]
Changed == [Referring EXCEPT !.edition = 3, !.name = "simple", !.genesis = FALSE,
                             !.chaincodes = <<"marbles">>]
NetworkFiles == { Local(1, "", <<"fabcar">>), Local(2, "folder", <<"Fabcar", "marbles">>),
                  Changed, Referring }
=============================================================================
