------------------------------- MODULE PasskeyPages -------------------------------
(***************************************************************************)
(* The server's side of passkeys: what the login page and the Passkeys     *)
(* page do with the forms PasskeyElement posts, and the posts that delete  *)
(* and rename a passkey.                                                   *)
(*                                                                         *)
(* UserManager.AddOrUpdatePasskeyAsync looks the passkey up by its id,     *)
(* updates it or adds it for the account, and then saves the account.      *)
(* Whether the first is kept when the second fails is left open, as it     *)
(* depends on the store.                                                   *)
(***************************************************************************)
EXTENDS PasskeyElement

CONSTANT Request    \* posts of the Rename page the server handles at a time

ASSUME NoneIsNoPasskeyRequest == None \notin Request

VARIABLES
  row,       \* the account each passkey is stored for, in the database
  rename     \* the posts of RenamePasskey in flight

vars == <<elementVars, row, rename>>

RenameRecord ==
  [step       : {"idle", "update"},
   user       : Account \union {None},
   credential : Credential \union {None}]

IdleRename == [step |-> "idle", user |-> None, credential |-> None]

TypeOK ==
  /\ ElementTypeOK
  /\ row \in [Credential -> Account \union {None}]
  /\ rename \in [Request -> RenameRecord]

\* AddOrUpdatePasskeyAsync(a, c), the row part: a passkey that is found keeps its
\* account.
Stored(c, a) == IF row[c] = None THEN [row EXCEPT ![c] = a] ELSE row

--------------------------------------------------------------------------------
(***************************************************************************)
(* The forms of <passkey-submit>                                           *)
(***************************************************************************)

\* The post is answered.  If a tab still waits for the answer, the browser takes it
\* over: denied says that it denies the authorization, cleared that the ceremony is
\* over, user who is signed in from now on.
AnswerPost(f, denied, cleared, user) ==
  LET p == flow[f].page
  IN  IF p = None
      THEN /\ flow' = [flow EXCEPT ![f] = IdleFlow]
           /\ ceremony' = Forget({f})
           /\ UNCHANGED <<session, page>>
      ELSE /\ flow' = [(IF cleared THEN Disturb(Unload(flow, p), p) ELSE Unload(flow, p))
                       EXCEPT ![f] = IdleFlow]
           /\ ceremony' = IF cleared THEN None ELSE Forget(WaitingOn(p) \union {f})
           /\ session' = user
           /\ page' = [page EXCEPT ![p] =
                [ClosedPage EXCEPT !.denied = denied]]

\* Mutant of TokenIsValid: forms are not checked.
TokenIsNotChecked(f) == TRUE

\* Razor pages validate the antiforgery token of a form: it is for the account the
\* page was rendered for.
TokenIsValid(f) == flow[f].token = flow[f].as

RefuseToken(f) ==
  /\ flow[f].step = "posted"
  /\ ~TokenIsValid(f)
  /\ AnswerPost(f, FALSE, FALSE, session)
  /\ UNCHANGED <<supported, device, row, rename>>

\* Account/Login OnPost with Input.Passkey.Error.  The form was not submitted with
\* a button and has no CredentialJson: the authorization is denied, or without one
\* the home page shown.  Passkeys OnPostAddPasskey: the error is shown.
AnswerError(f) ==
  /\ flow[f].step = "posted"
  /\ flow[f].credential = None
  /\ TokenIsValid(f)
  /\ AnswerPost(f, flow[f].operation = "Request", FALSE, session)
  /\ UNCHANGED <<supported, device, row, rename>>

\* PerformPasskeyAssertionAsync, PerformPasskeyAttestationAsync: no ceremony of this
\* kind is under way, which is an exception,
NoCeremony(f) ==
  /\ flow[f].step = "posted"
  /\ flow[f].credential # None
  /\ TokenIsValid(f)
  /\ flow[f].sent = "none"
  /\ AnswerPost(f, FALSE, FALSE, session)
  /\ UNCHANGED <<supported, device, row, rename>>

\* or the credential does not answer it, or is not accepted,
RejectCredential(f) ==
  /\ flow[f].step = "posted"
  /\ flow[f].credential # None
  /\ TokenIsValid(f)
  /\ flow[f].sent # "none"
  /\ AnswerPost(f, FALSE, TRUE, session)
  /\ UNCHANGED <<supported, device, row, rename>>

\* or it is: a passkey that is stored, or one that is not yet.
AcceptCredential(f) ==
  LET c == flow[f].credential
  IN  /\ flow[f].step = "posted"
      /\ c # None
      /\ TokenIsValid(f)
      /\ flow[f].sent = "own"
      /\ \/ /\ flow[f].operation = "Request"
            /\ row[c] # None
            /\ flow' = [flow EXCEPT ![f].step = "store", ![f].entity = row[c]]
         \/ /\ flow[f].operation = "Create"
            /\ flow[f].as # None
            /\ row[c] = None
            /\ flow' = [flow EXCEPT ![f].step = "store", ![f].entity = flow[f].as]
      /\ UNCHANGED <<supported, session, ceremony, device, page, row, rename>>

\* AddOrUpdatePasskeyAsync, and after a passkey sign-in its cookie.
StorePasskey(f) ==
  LET c == flow[f].credential
      a == flow[f].entity
  IN  /\ flow[f].step = "store"
      /\ \/ /\ row' = Stored(c, a)
            /\ AnswerPost(f, FALSE, TRUE, IF flow[f].operation = "Request" THEN a ELSE session)
         \/ /\ row' \in {row, Stored(c, a)}
            /\ AnswerPost(f, FALSE, TRUE, session)
      /\ UNCHANGED <<supported, device, rename>>

--------------------------------------------------------------------------------
(***************************************************************************)
(* Passkeys OnPostUpdatePasskey and RenamePasskey OnPost                   *)
(***************************************************************************)

\* RemovePasskeyAsync: nothing happens to a passkey of another account.  When the
\* account is not saved the handler throws, and the row may be gone or not.
DeletePasskey(c) ==
  /\ session # None
  /\ row[c] = session
  /\ row' = [row EXCEPT ![c] = None]
  /\ UNCHANGED <<elementVars, rename>>

\* Mutant of RenameRead: the passkey is looked up by its id alone.
RenameReadAnyones(r, c) ==
  /\ rename[r].step = "idle"
  /\ session # None
  /\ row[c] # None
  /\ rename' = [rename EXCEPT ![r] =
       [step |-> "update", user |-> session, credential |-> c]]
  /\ UNCHANGED <<elementVars, row>>

\* OnPostAsync of the Rename page: the account, and its passkey (GetPasskeyAsync).
RenameRead(r, c) ==
  /\ rename[r].step = "idle"
  /\ session # None
  /\ row[c] = session
  /\ rename' = [rename EXCEPT ![r] =
       [step |-> "update", user |-> session, credential |-> c]]
  /\ UNCHANGED <<elementVars, row>>

\* AddOrUpdatePasskeyAsync, or an exception.  The name is then written to the row
\* directly, if it is still there; names are not modelled.
RenameUpdate(r) ==
  /\ rename[r].step = "update"
  /\ row' \in {row, Stored(rename[r].credential, rename[r].user)}
  /\ rename' = [rename EXCEPT ![r] = IdleRename]
  /\ UNCHANGED elementVars

--------------------------------------------------------------------------------
(***************************************************************************)
(* The specification                                                       *)
(***************************************************************************)

Init ==
  /\ supported \in BOOLEAN
  /\ session = None
  /\ ceremony = None
  /\ device = [c \in Credential |-> None]
  /\ page = [p \in Page |-> ClosedPage]
  /\ flow = [f \in Flow |-> IdleFlow]
  /\ row = [c \in Credential |-> None]
  /\ rename = [r \in Request |-> IdleRename]

\* What the tab does on its own.
ElementStep(f) ==
  \/ OptionsArrive(f)
  \/ BodyArrives(f)
  \/ FlowFails(f)
  \/ CredentialGiven(f)

Settle(p) == AutofillUnavailable(p) \/ \E f \in Flow : AutofillAvailable(p, f)

Handle(f) ==
  \/ RefuseToken(f)
  \/ AnswerError(f)
  \/ NoCeremony(f)
  \/ RejectCredential(f)
  \/ AcceptCredential(f)
  \/ StorePasskey(f)

UserActs(p) ==
  \/ OpenPage(p)
  \/ LeavePage(p)
  \/ Cancel(p)
  \/ \E f \in Flow : PressButton(p, f) \/ PressButtonUnsupported(p, f)

\* Everything that happens in the browser.
Browse ==
  /\ \/ SessionChanges
     \/ \E p \in Page : UserActs(p) \/ Settle(p)
     \/ \E f \in Flow : ElementStep(f)
  /\ UNCHANGED <<row, rename>>

Rename(r) ==
  \/ \E c \in Credential : RenameRead(r, c)
  \/ RenameUpdate(r)

Next ==
  \/ Browse
  \/ \E f \in Flow : Handle(f)
  \/ \E c \in Credential : DeletePasskey(c)
  \/ \E r \in Request : Rename(r)

Spec == Init /\ [][Next]_vars

\* The browser carries on with what it has begun, the network delivers or fails, a
\* ceremony the user was asked for ends by its timeout, and the server answers
\* posts.  A ceremony of autofill may wait for ever, and so may users.
FairSpec ==
  /\ Spec
  /\ \A p \in Page : WF_vars(Settle(p) /\ UNCHANGED <<row, rename>>)
  /\ \A f \in Flow :
       /\ WF_vars(~flow[f].conditional /\ ElementStep(f) /\ UNCHANGED <<row, rename>>)
       /\ WF_vars(Handle(f))

--------------------------------------------------------------------------------
(***************************************************************************)
(* Properties                                                              *)
(***************************************************************************)

\* A tab's credential answers the ceremony the server has in its cookie, unless
\* another tab or another sign-in has replaced it: the element aborts its previous
\* flow before it asks for new options, so that its own requests never get in each
\* other's way (passkey-submit.js:90).
CredentialMeetsCeremony ==
  \A f \in Flow :
    flow[f].step = "posted" /\ flow[f].credential # None /\ ~flow[f].disturbed =>
      flow[f].sent = "own"

\* A passkey is stored for the account its authenticator created it for, however
\* accounts take turns in the browser while options, ceremonies and posts of
\* several tabs are under way, and also if a rename or a sign-in stores it again
\* after it was deleted.  OnPostAddPasskeyAsync does not compare the account of the
\* ceremony with the one of the session (Passkeys.cshtml.cs:125-132).
PasskeyIsForItsOwner ==
  \A c \in Credential : row[c] # None => row[c] = device[c]

\* An authorization request is denied only if the user has pressed something on
\* that login page: what autofill does on its own never ends it.  (An error of a
\* ceremony the user asked for does, as if it were Cancel: Login/Index.cshtml.cs:77.)
DenialNeedsUser ==
  [][\A p \in Page :
       page'[p].denied /\ ~page[p].denied => page'[p].cancelled \/ page[p].presses > 0]_vars

\* What is posted of a credential is what a working toJSON would have posted, in
\* whatever the authenticator or a password manager holds its binary fields: a toJSON
\* that is broken ends the flow or is made up for field by field (passkey-submit.js:
\* 105-108, "Try and serialize the credential to JSON manually."), so that the server
\* cannot tell the two apart.
PostedJsonIsNative ==
  (\E f \in Flow : flow[f].step = "posted" /\ flow[f].credential # None)
    => ManualJsonIsNative

\* The user has asked tab p for a passkey, and nothing will ask for one unasked.
Asked(p) ==
  /\ ~page[p].autofill
  /\ \E f \in Flow : Waiting(f) /\ flow[f].page = p /\ ~flow[f].conditional

\* A press of the passkey button ends with an answer of the server, or the user
\* leaves the page: errors and timeouts on the way are posted as well
\* (passkey-submit.js:139-145).  While the page is still finding out whether there is
\* autofill it is different, see AbortIsUsers.
PressIsAnswered == \A p \in Page : Asked(p) ~> (page[p].state = "closed")

\* A flow that was started by the button and returns without a trace was aborted by
\* the user ("The user explicitly canceled the operation - return without error.",
\* passkey-submit.js:130).
AbortIsUsers ==
  [][\A f \in Flow :
       flow[f].step \in Awaiting /\ ~flow[f].conditional =>
         \/ flow'[f].step # "free" /\ ~flow'[f].conditional
         \/ LET p == flow[f].page
            IN  page'[p].state = "closed" \/ page'[p].presses # page[p].presses]_vars

================================================================================
