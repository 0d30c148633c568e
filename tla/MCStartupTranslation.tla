------------------------ MODULE MCStartupTranslation ------------------------
(***************************************************************************)
(* Two documentation pages and the strings, each in two versions. The      *)
(* batches of the strings end for each of the three reasons: the number of *)
(* texts, the number of characters, the end of the file; a text alone is   *)
(* longer than a batch may be. One version of a page has no text.          *)
(***************************************************************************)
EXTENDS StartupTranslation

MCSizes ==
  [f \in Files |->
     [v \in Versions |->
        CASE f = Strings /\ v = 1 -> <<1, 1, 1, 2>>
          [] f = Strings /\ v = 2 -> <<2, 4, 1>>
          [] f = 1 /\ v = 1 -> <<4>>
          [] f = 1 /\ v = 2 -> <<1, 3>>
          [] f = 2 /\ v = 1 -> <<1>>
          [] OTHER -> <<>>]]

=============================================================================
