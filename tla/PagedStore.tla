----------------------------- MODULE PagedStore -----------------------------
(***************************************************************************)
(* What a client of the flash driver relies on: words put on a page take   *)
(* their place together when the page is written, the other words of the   *)
(* page keep or lose their contents as the configuration says, and no      *)
(* other page changes.  A power failure may spoil the page that is being   *)
(* changed, and loses what was only put; after a command that was not      *)
(* carried out nothing is known of a page that is changed, but of that     *)
(* page only.                                                              *)
(***************************************************************************)
EXTENDS Naturals

CONSTANTS Pages, Words, Contents, Blank

VARIABLES
  config,   \* autoErase: pages are erased before they are written; preserveUnset: words not put are kept
  store,    \* the contents of every page
  page,     \* the page of the writer
  pending,  \* the words put since the page was last written
  sound     \* every command was carried out since the last start

svars == <<config, store, page, pending, sound>>

Nothing == [w \in {} |-> Blank]

Init ==
  /\ config \in [autoErase : BOOLEAN, preserveUnset : BOOLEAN]
  /\ store = [p \in Pages |-> [w \in Words |-> Blank]]
  /\ page = 0 /\ pending = Nothing /\ sound = TRUE

(* only the writer's page may change *)
OnlyPage == page \in Pages /\ store' = [store EXCEPT ![page] = store'[page]]

Put == \E w \in Words \ DOMAIN pending, v \in Contents :
  /\ page \in Pages
  /\ ~config.autoErase /\ sound => store[page][w] = Blank
  /\ pending' = [x \in {w} \union DOMAIN pending |-> IF x = w THEN v ELSE pending[x]]
  /\ UNCHANGED <<config, store, page, sound>>

Goto ==
  /\ pending = Nothing
  /\ UNCHANGED <<config, store, pending, sound>>

Base == IF config.autoErase /\ ~config.preserveUnset THEN [w \in Words |-> Blank] ELSE store[page]
Flush ==
  /\ OnlyPage
  /\ sound => store'[page] = [w \in Words |-> IF w \in DOMAIN pending THEN pending[w] ELSE Base[w]]
  /\ pending' = Nothing
  /\ UNCHANGED <<config, page, sound>>
Erase ==
  /\ pending = Nothing /\ OnlyPage
  /\ sound => store'[page] = [w \in Words |-> Blank]
  /\ UNCHANGED <<config, page, pending, sound>>

(* a page that is being changed ends up somehow when power fails or a command is lost *)
Drop ==
  /\ store' = store \/ OnlyPage
  /\ sound' = FALSE /\ pending' \in {pending, Nothing} /\ UNCHANGED <<config, page>>
PowerFails ==
  /\ store' = store \/ OnlyPage
  /\ page' = 0 /\ pending' = Nothing /\ sound' = TRUE /\ UNCHANGED config

Next == Put \/ Goto \/ Flush \/ Erase \/ Drop \/ PowerFails
Spec == Init /\ [][Next]_svars
=============================================================================
