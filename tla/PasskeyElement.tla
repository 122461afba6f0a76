------------------------------ MODULE PasskeyElement ------------------------------
(***************************************************************************)
(* The custom element <passkey-submit> (passkey-submit.js) in the pages of *)
(* one browser: in tabs with the login page it asks for a passkey, in tabs *)
(* with the Passkeys page it has one created.                              *)
(*                                                                         *)
(* A run of obtainAndSubmitCredential is a flow.  It fetches options from  *)
(* the server, reads them, has the authenticator answer them and posts the *)
(* form; at each of these awaits other events may come first.  The server  *)
(* keeps what it asked in a cookie, of which the browser has one: the last *)
(* options it was sent replace what any tab was sent before.               *)
(***************************************************************************)
EXTENDS CredentialJson

CONSTANTS
  None,          \* no account, no page, no flow, ...
  Account,
  Credential,    \* passkeys; a bound on how many are ever created
  LoginPage,     \* tabs with Account/Login
  PasskeysPage,  \* tabs with Account/Passkeys
  Flow,          \* flows and posts in progress at the same time
  MaxPresses     \* bound on how often a page's button is pressed

ASSUME NoneIsNoPasskeyId ==
  None \notin Account \union Credential \union LoginPage \union PasskeysPage \union Flow
ASSUME TabsAreOneKind == LoginPage \intersect PasskeysPage = {}
ASSUME MaxPressesIsNat == MaxPresses \in Nat

Page == LoginPage \union PasskeysPage

VARIABLES
  supported,  \* browserSupportsPasskeys
  session,    \* the account the browser is signed in to
  ceremony,   \* the cookie with what the server asked last
  device,     \* the authenticator: the account each passkey was created for
  page,       \* the tabs
  flow        \* the flows and posts in progress

elementVars == <<supported, session, ceremony, device, page, flow>>

\* Mutant of Operation: the tag helper renders the name in lower case.
OperationLowerCase(p) == IF p \in LoginPage THEN "request" ELSE "create"

\* The operation attribute, as the two pages give it to the tag helper.
Operation(p) == IF p \in LoginPage THEN "Request" ELSE "Create"

Ceremony == [operation : {"Create", "Request"}, flow : Flow \union {None}]

ASSUME NoneIsNoCeremony == None \notin Ceremony

\* token is the account the antiforgery tokens of the page are for, autofill says
\* that tryAutofillPasskey waits for the browser, controller is the flow that
\* abortController can still abort.  cancelled and denied are about the page that was
\* there last: the user has cancelled it, the authorization has been denied.
PageRecord ==
  [state      : {"closed", "open", "leaving"},
   token      : Account \union {None},
   autofill   : BOOLEAN,
   controller : Flow \union {None},
   presses    : 0..MaxPresses,
   cancelled  : BOOLEAN,
   denied     : BOOLEAN]

\* The first three await options, their text and the authenticator; the last two
\* are of a form that has been posted.
Awaiting == {"options", "body", "prompt"}
Posted == {"posted", "store"}

\* granted: the server will send options, made for entity; later entity is the
\* account the passkey is stored for.  credential is None in a post with an error.
\* sent says how the ceremony cookie of the post fits the flow, as is the account
\* of its session cookie.  disturbed is history: since the options came, somebody
\* else has written the ceremony cookie.
FlowRecord ==
  [step        : {"free"} \union Awaiting \union Posted,
   page        : Page \union {None},
   operation   : {"none", "Create", "Request"},
   conditional : BOOLEAN,
   token       : Account \union {None},
   granted     : BOOLEAN,
   entity      : Account \union {None},
   credential  : Credential \union {None},
   sent        : {"own", "other", "none"},
   as          : Account \union {None},
   disturbed   : BOOLEAN]

IdleFlow ==
  [step |-> "free", page |-> None, operation |-> "none", conditional |-> FALSE,
   token |-> None, granted |-> FALSE, entity |-> None, credential |-> None,
   sent |-> "none", as |-> None, disturbed |-> FALSE]

ClosedPage ==
  [state |-> "closed", token |-> None, autofill |-> FALSE, controller |-> None,
   presses |-> 0, cancelled |-> FALSE, denied |-> FALSE]

ElementTypeOK ==
  /\ supported \in BOOLEAN
  /\ session \in Account \union {None}
  /\ ceremony \in Ceremony \union {None}
  /\ device \in [Credential -> Account \union {None}]
  /\ page \in [Page -> PageRecord]
  /\ flow \in [Flow -> FlowRecord]

--------------------------------------------------------------------------------
(***************************************************************************)
(* Flows                                                                   *)
(***************************************************************************)

Waiting(f) == flow[f].step \in Awaiting

\* Mutant of Aborted: a new flow leaves the one before it running.
AbortedNever(p) == {}

\* The flow abortController.abort() ends; its promise is rejected and the flow
\* returns before anything else happens.  An aborted fetch is not answered.
Aborted(p) == {f \in Flow : page[p].controller = f /\ Waiting(f)}

\* Nobody is left to answer the ceremony of these flows.
Forget(ended) ==
  IF ceremony # None /\ ceremony.flow \in ended THEN [ceremony EXCEPT !.flow = None]
  ELSE ceremony

\* ValidateRequestAsync, and the account of PasskeyCreationOptions: whether the
\* options are sent follows from the cookies the fetch is sent with.
Granted(p) ==
  /\ page[p].token = session
  /\ Operation(p) = "Create" => session # None

NewFlow(p, conditional) ==
  [IdleFlow EXCEPT !.step = "options", !.page = p, !.operation = Operation(p),
     !.conditional = conditional, !.token = page[p].token, !.granted = Granted(p),
     !.entity = IF Operation(p) = "Create" THEN session ELSE None]

\* How the ceremony cookie, sent with the form of flow f, fits it.
Fit(f) ==
  IF ceremony = None \/ ceremony.operation # flow[f].operation THEN "none"
  ELSE IF ceremony.flow = f THEN "own"
  ELSE "other"

\* The form is posted with credential c, or with an error (None).
PostOf(f, c) ==
  [IdleFlow EXCEPT !.step = "posted", !.page = flow[f].page,
     !.operation = flow[f].operation, !.token = flow[f].token, !.as = session,
     !.credential = c,
     !.sent = IF c = None THEN "none" ELSE Fit(f),
     !.disturbed = c # None /\ flow[f].disturbed]

\* form.submit(): the tab is leaving, and no longer waits for an earlier post.
Submit(f, post) ==
  /\ flow' = [g \in Flow |->
       IF g = f THEN post
       ELSE IF flow[g].step \in Posted /\ flow[g].page = post.page
            THEN [flow[g] EXCEPT !.page = None]
            ELSE flow[g]]
  /\ page' = [page EXCEPT ![post.page].state = "leaving", ![post.page].controller = None]

\* Mutant of Fails: the errors of autofill are posted like any other.
FailsLoudly(f) ==
  /\ Submit(f, PostOf(f, None))
  /\ ceremony' = Forget({f})

\* Mutant of Fails: the errors of the button are only logged, too.
FailsSilently(f) ==
  /\ flow' = [flow EXCEPT ![f] = IdleFlow]
  /\ page' = [page EXCEPT ![flow[f].page].controller = None]
  /\ ceremony' = Forget({f})

\* The catch block: an error of a flow nobody asked for is only logged.
Fails(f) ==
  /\ IF flow[f].conditional
     THEN /\ flow' = [flow EXCEPT ![f] = IdleFlow]
          /\ page' = [page EXCEPT ![flow[f].page].controller = None]
     ELSE Submit(f, PostOf(f, None))
  /\ ceremony' = Forget({f})

\* Flows of other tabs whose ceremony is replaced or taken away by tab p.
Disturb(flows, p) ==
  [g \in Flow |->
     IF flows[g].step \in {"body", "prompt"} /\ flows[g].page # p
     THEN [flows[g] EXCEPT !.disturbed = TRUE]
     ELSE flows[g]]

\* Tab p is unloaded: its flows end, and nobody waits for the answers to its posts.
Unload(flows, p) ==
  [g \in Flow |->
     IF flows[g].page # p THEN flows[g]
     ELSE IF flows[g].step \in Awaiting THEN IdleFlow
     ELSE [flows[g] EXCEPT !.page = None]]

WaitingOn(p) == {f \in Flow : Waiting(f) /\ flow[f].page = p}

--------------------------------------------------------------------------------
(***************************************************************************)
(* Pages                                                                   *)
(***************************************************************************)

\* connectedCallback.  The Passkeys page is for users who are signed in.
OpenPage(p) ==
  /\ page[p].state = "closed"
  /\ p \in PasskeysPage => session # None
  /\ page' = [page EXCEPT ![p] =
       [ClosedPage EXCEPT !.state = "open", !.token = session,
          !.autofill = supported /\ Operation(p) = "Request"]]
  /\ UNCHANGED <<supported, session, ceremony, device, flow>>

\* disconnectedCallback: the user leaves or closes the page.
LeavePage(p) ==
  /\ page[p].state # "closed"
  /\ page' = [page EXCEPT ![p] = ClosedPage]
  /\ flow' = Unload(flow, p)
  /\ ceremony' = Forget(WaitingOn(p))
  /\ UNCHANGED <<supported, session, device>>

\* The login page's Cancel button, and OnPost's answer to it.
Cancel(p) ==
  /\ p \in LoginPage
  /\ page[p].state # "closed"
  /\ page' = [page EXCEPT ![p] =
       [ClosedPage EXCEPT !.cancelled = TRUE, !.denied = page[p].token = session]]
  /\ flow' = Unload(flow, p)
  /\ ceremony' = Forget(WaitingOn(p))
  /\ UNCHANGED <<supported, session, device>>

\* The user signs in or out in another way or tab.  This, too, may end a ceremony.
SessionChanges ==
  /\ session' \in (Account \union {None}) \ {session}
  /\ \/ UNCHANGED <<ceremony, flow>>
     \/ ceremony' = None /\ flow' = Disturb(flow, None)
  /\ UNCHANGED <<supported, device, page>>

--------------------------------------------------------------------------------
(***************************************************************************)
(* obtainAndSubmitCredential                                               *)
(***************************************************************************)

\* From its first line to the fetch: the previous flow ends, and the new one begins,
\* in its place or in another.
StartFlow(p, f, conditional, presses) ==
  /\ flow[f].step = "free" \/ f \in Aborted(p)
  /\ flow' = [g \in Flow |->
       IF g = f THEN NewFlow(p, conditional)
       ELSE IF g \in Aborted(p) THEN IdleFlow
       ELSE flow[g]]
  /\ ceremony' = Forget(Aborted(p))
  /\ page' = [page EXCEPT ![p].controller = f, ![p].presses = presses,
                          ![p].autofill = @ /\ ~conditional]

\* The submit listener, called for the element's own button.
PressButton(p, f) ==
  /\ supported
  /\ page[p].state # "closed"
  /\ page[p].presses < MaxPresses
  /\ StartFlow(p, f, FALSE, page[p].presses + 1)
  /\ UNCHANGED <<supported, session, device>>

\* In a browser without passkeys obtainCredential throws at once.
PressButtonUnsupported(p, f) ==
  /\ ~supported
  /\ page[p].state # "closed"
  /\ page[p].presses < MaxPresses
  /\ flow[f].step = "free"
  /\ flow' = [g \in Flow |->
       IF g = f
       THEN [IdleFlow EXCEPT !.step = "posted", !.page = p, !.operation = Operation(p),
                             !.token = page[p].token, !.as = session]
       ELSE IF flow[g].step \in Posted /\ flow[g].page = p
            THEN [flow[g] EXCEPT !.page = None]
            ELSE flow[g]]
  /\ page' = [page EXCEPT ![p].state = "leaving", ![p].presses = @ + 1]
  /\ UNCHANGED <<supported, session, ceremony, device>>

\* tryAutofillPasskey: the browser says that it can offer passkeys while the user
\* types, and a flow begins that nobody has asked for,
AutofillAvailable(p, f) ==
  /\ page[p].autofill
  /\ StartFlow(p, f, TRUE, page[p].presses)
  /\ UNCHANGED <<supported, session, device>>

\* or that it cannot.
AutofillUnavailable(p) ==
  /\ page[p].autofill
  /\ page' = [page EXCEPT ![p].autofill = FALSE]
  /\ UNCHANGED <<supported, session, ceremony, device, flow>>

\* fetchWithErrorHandling: the answer begins and its cookie is stored.
OptionsArrive(f) ==
  /\ flow[f].step = "options"
  /\ flow[f].granted
  /\ ceremony' = [operation |-> flow[f].operation, flow |-> f]
  /\ flow' = Disturb([flow EXCEPT ![f].step = "body"], flow[f].page)
  /\ UNCHANGED <<supported, session, device, page>>

\* json(), parse...OptionsFromJSON; navigator.credentials is called.
BodyArrives(f) ==
  /\ flow[f].step = "body"
  /\ flow' = [flow EXCEPT ![f].step = "prompt"]
  /\ UNCHANGED <<supported, session, ceremony, device, page>>

\* The server refuses or cannot be reached, its answer is not understood, the user
\* dismisses the authenticator or its time is up.
FlowFails(f) ==
  /\ Waiting(f)
  /\ Fails(f)
  /\ UNCHANGED <<supported, session, device>>

\* The authenticator answers: a new passkey for the account of the options, or one
\* it has.  Its JSON is made and the form is posted, or that fails.
CredentialGiven(f) ==
  /\ flow[f].step = "prompt"
  /\ \E c \in Credential :
       /\ \/ /\ flow[f].operation = "Create"
             /\ device[c] = None
             /\ device' = [device EXCEPT ![c] = flow[f].entity]
          \/ /\ flow[f].operation = "Request"
             /\ device[c] # None
             /\ UNCHANGED device
       /\ \E serialises \in SerialisationResults :
            IF serialises
            THEN Submit(f, PostOf(f, c)) /\ UNCHANGED ceremony
            ELSE Fails(f)
  /\ UNCHANGED <<supported, session>>

================================================================================
