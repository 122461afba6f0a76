---------------------------- MODULE PasskeyPagesProofs ----------------------------
(***************************************************************************)
(* The properties of PasskeyPages for every number of tabs, flows,         *)
(* accounts and passkeys.  The argument: a flow that waits is the one its  *)
(* tab's abortController can end, so a tab has at most one (OnPage); it    *)
(* has the ceremony cookie unless it is marked as disturbed (Answers); and *)
(* the account of its options is that of its antiforgery token, which the  *)
(* server compares with the session before it stores anything (Owned).     *)
(***************************************************************************)
EXTENDS PasskeyPages, CredentialJsonProofs, TLAPS

\* A flow's tab is there; it can abort the flow, and was pressed if it should have
\* been.
OnPage(f, q) ==
  /\ q.step = "free" => q.page = None
  /\ q.page # None => page[q.page].state # "closed"
  /\ q.step \in Awaiting =>
       /\ q.page # None /\ q.operation # "none"
       /\ page[q.page].controller = f
       /\ ~q.conditional => page[q.page].presses > 0
  /\ q.step \in Posted /\ q.credential = None /\ q.page # None =>
       page[q.page].presses > 0

\* The ceremony of the flow is the one in the cookie.
Answers(f, q) ==
  /\ q.step \in {"body", "prompt"} /\ ~q.disturbed =>
       ceremony = [operation |-> q.operation, flow |-> f]
  /\ q.step \in Posted /\ q.credential # None /\ ~q.disturbed => q.sent = "own"

\* A new passkey is for the account of the antiforgery token, and whatever is stored
\* for the account that is next stored with it.
Owned(q) ==
  /\ q.step \in Awaiting /\ q.operation = "Create" /\ q.granted =>
       q.entity = q.token /\ q.entity # None
  /\ q.step \in {"body", "prompt"} => q.granted
  /\ q.step \in Posted /\ q.operation = "Create" /\ q.credential # None =>
       q.token # None /\ device[q.credential] = q.token
  /\ q.step = "store" =>
       q.credential # None /\ q.entity # None /\ device[q.credential] = q.entity

Sound(f, q) == q \in FlowRecord /\ OnPage(f, q) /\ Answers(f, q) /\ Owned(q)

\* A rename stores a passkey for the account that had it.
RenamesOwn ==
  \A r \in Request :
    rename[r].step = "update" =>
      /\ rename[r].credential # None
      /\ rename[r].user # None
      /\ device[rename[r].credential] = rename[r].user

\* Only a tab that is there waits for autofill.
AutofillNeedsPage == \A p \in Page : page[p].autofill => page[p].state # "closed"

PasskeyInv ==
  /\ TypeOK
  /\ AutofillNeedsPage
  /\ \A f \in Flow : Sound(f, flow[f])
  /\ PasskeyIsForItsOwner
  /\ RenamesOwn

\* The authenticator only adds passkeys.
DeviceGrows ==
  /\ device' \in [Credential -> Account \union {None}]
  /\ \A c \in Credential : device[c] # None => device'[c] = device[c]

\* What a step may do to a flow it is not about: end it, forget the tab of its post,
\* or take its ceremony away.
Bystander(g) ==
  /\ \/ flow'[g] = flow[g]
     \/ flow'[g] = IdleFlow
     \/ flow[g].step \in Posted /\ flow'[g] = [flow[g] EXCEPT !.page = None]
     \/ flow[g].step \in {"body", "prompt"} /\ flow'[g] = [flow[g] EXCEPT !.disturbed = TRUE]
  /\ flow'[g].page # None =>
       /\ page'[flow[g].page].state # "closed"
       /\ (page[flow[g].page].presses > 0 => page'[flow[g].page].presses > 0)
       /\ Waiting(g) => page'[flow[g].page].controller = g
  /\ flow'[g] = flow[g] /\ ceremony = [operation |-> flow[g].operation, flow |-> g] =>
       \/ ceremony' = ceremony
       \/ flow[g].step \notin {"body", "prompt"}
       \/ flow[g].disturbed

--------------------------------------------------------------------------------
(***************************************************************************)
(* Records                                                                 *)
(***************************************************************************)

LEMMA IdleFlowIsSound ==
  ASSUME NEW f \in Flow
  PROVE  Sound(f, IdleFlow) /\ Sound(f, IdleFlow)'
  BY DEF IdleFlow, FlowRecord, Sound, OnPage, Answers, Owned, Awaiting, Posted

LEMMA ClosedPages ==
  ASSUME NEW t \in Account \union {None}, NEW autofill \in BOOLEAN,
         NEW cancelled \in BOOLEAN, NEW denied \in BOOLEAN
  PROVE  /\ ClosedPage \in PageRecord
         /\ [ClosedPage EXCEPT !.denied = denied] \in PageRecord
         /\ [ClosedPage EXCEPT !.cancelled = cancelled, !.denied = denied] \in PageRecord
         /\ [ClosedPage EXCEPT !.state = "open", !.token = t, !.autofill = autofill]
              \in PageRecord
<1>1. PICK q : q = ClosedPage
  OBVIOUS
<1>2. q \in PageRecord
  BY <1>1, MaxPressesIsNat DEF ClosedPage, PageRecord
<1>3. [q EXCEPT !.denied = denied] \in PageRecord
  BY <1>2 DEF PageRecord
<1>4. [q EXCEPT !.cancelled = cancelled, !.denied = denied] \in PageRecord
  BY <1>2 DEF PageRecord
<1>5. [q EXCEPT !.state = "open", !.token = t, !.autofill = autofill] \in PageRecord
  BY <1>2 DEF PageRecord
<1> QED
  BY <1>1, <1>2, <1>3, <1>4, <1>5

\* The facts of the invariant about one flow.
LEMMA FlowFacts ==
  ASSUME PasskeyInv, NEW f \in Flow
  PROVE  /\ flow[f] \in FlowRecord
         /\ Sound(f, flow[f])
         /\ flow[f].page \in Page \union {None}
         /\ Waiting(f) => flow[f].page \in Page /\ page[flow[f].page].controller = f
  BY DEF PasskeyInv, TypeOK, ElementTypeOK, Sound, OnPage, Waiting, FlowRecord

LEMMA StateFacts ==
  ASSUME PasskeyInv
  PROVE  /\ supported \in BOOLEAN
         /\ session \in Account \union {None}
         /\ ceremony \in Ceremony \union {None}
         /\ device \in [Credential -> Account \union {None}]
         /\ page \in [Page -> PageRecord]
         /\ flow \in [Flow -> FlowRecord]
         /\ row \in [Credential -> Account \union {None}]
         /\ rename \in [Request -> RenameRecord]
         /\ \A p \in Page : page[p] \in PageRecord /\ page[p].presses \in Int
         /\ None \notin Page /\ None \notin Flow /\ None \notin Credential
  BY MaxPressesIsNat, NoneIsNoPasskeyId
     DEF PasskeyInv, TypeOK, ElementTypeOK, PageRecord, Page

--------------------------------------------------------------------------------
(***************************************************************************)
(* Flows a step is not about                                               *)
(***************************************************************************)

LEMMA BystandersStaySound ==
  ASSUME PasskeyInv, NEW g \in Flow, DeviceGrows, Bystander(g)
  PROVE  Sound(g, flow[g])'
<1>0. /\ flow[g] \in FlowRecord
      /\ Sound(g, flow[g])
      /\ Waiting(g) => flow[g].page \in Page /\ page[flow[g].page].controller = g
      /\ flow[g].page # None => flow[g].page \in Page
      /\ \A p \in Page : page[p].presses \in Int
      /\ device \in [Credential -> Account \union {None}]
  BY FlowFacts, StateFacts
<1>q. PICK q : q = flow'[g]
  OBVIOUS
<1>1. CASE q = IdleFlow
  BY <1>q, <1>1, IdleFlowIsSound DEF Sound, OnPage, Answers, Owned
<1>2. CASE q # IdleFlow
  <2>1. /\ q \in FlowRecord
        /\ q.step = flow[g].step
        /\ q.operation = flow[g].operation
        /\ q.conditional = flow[g].conditional
        /\ q.token = flow[g].token
        /\ q.granted = flow[g].granted
        /\ q.entity = flow[g].entity
        /\ q.credential = flow[g].credential
        /\ q.sent = flow[g].sent
        /\ q.page # None => q.page = flow[g].page
        /\ q.step \in Awaiting => q.page = flow[g].page
        /\ ~q.disturbed => ~flow[g].disturbed
        /\ q.step \in {"body", "prompt"} /\ ~q.disturbed => q = flow[g]
    BY <1>0, <1>q, <1>2 DEF Bystander, FlowRecord, Awaiting, Posted
  <2>2. /\ q.page # None =>
             /\ page'[flow[g].page].state # "closed"
             /\ (page[flow[g].page].presses > 0 => page'[flow[g].page].presses > 0)
             /\ Waiting(g) => page'[flow[g].page].controller = g
        /\ q = flow[g] /\ ceremony = [operation |-> flow[g].operation, flow |-> g] =>
             ceremony' = ceremony \/ flow[g].step \notin {"body", "prompt"} \/ flow[g].disturbed
    BY <1>q DEF Bystander
  <2>3. OnPage(g, q)'
    <3>1. CASE q.page = None
      BY <1>0, <2>1, <3>1 DEF OnPage, Sound
    <3>2. CASE q.page # None
      BY <1>0, <2>1, <2>2, <3>2 DEF OnPage, Sound, Waiting
    <3> QED
      BY <3>1, <3>2
  <2>4. Answers(g, q)'
    BY <1>0, <2>1, <2>2 DEF Answers, Sound
  <2>5. Owned(q)'
    <3>1. q.credential # None => q.credential \in Credential
      BY <2>1 DEF FlowRecord
    <3> QED
      BY <1>0, <2>1, <3>1 DEF Owned, Sound, DeviceGrows, Posted
  <2> QED
    BY <1>q, <2>1, <2>3, <2>4, <2>5 DEF Sound, OnPage, Answers, Owned
<1> QED
  BY <1>1, <1>2

\* Ceremonies of other flows are not forgotten.
LEMMA ForgetKeepsOthers ==
  ASSUME PasskeyInv, NEW ended \in SUBSET Flow
  PROVE  /\ Forget(ended) \in Ceremony \union {None}
         /\ \A g \in Flow \ ended :
              ceremony = [operation |-> flow[g].operation, flow |-> g] =>
                Forget(ended) = ceremony
<1>1. ceremony \in Ceremony \union {None}
  BY StateFacts
<1>2. CASE ceremony # None /\ ceremony.flow \in ended
  <2>1. PICK c : c = [ceremony EXCEPT !.flow = None]
    OBVIOUS
  <2>2. c \in Ceremony
    BY <1>1, <1>2, <2>1 DEF Ceremony
  <2> QED
    BY <1>2, <2>1, <2>2 DEF Forget
<1>3. CASE ~(ceremony # None /\ ceremony.flow \in ended)
  BY <1>1, <1>3 DEF Forget
<1> QED
  BY <1>2, <1>3

\* What remains to be shown of a step of the browser.
LEMMA BrowserSteps ==
  ASSUME PasskeyInv, UNCHANGED <<supported, row, rename>>,
         session' \in Account \union {None}, ceremony' \in Ceremony \union {None},
         DeviceGrows, page' \in [Page -> PageRecord], AutofillNeedsPage',
         flow' = [g \in Flow |-> flow'[g]],
         \A g \in Flow : Sound(g, flow[g])'
  PROVE  PasskeyInv'
<1>1. \A g \in Flow : flow'[g] \in FlowRecord
  BY DEF Sound
<1>2. TypeOK'
  BY <1>1, StateFacts DEF TypeOK, ElementTypeOK, DeviceGrows
<1>3. PasskeyIsForItsOwner'
  BY StateFacts DEF PasskeyInv, PasskeyIsForItsOwner, DeviceGrows
<1>4. RenamesOwn'
  <2>1. \A r \in Request : rename[r].credential \in Credential \union {None}
    BY StateFacts DEF RenameRecord
  <2> QED
    BY <2>1 DEF PasskeyInv, RenamesOwn, DeviceGrows
<1> QED
  BY <1>2, <1>3, <1>4 DEF PasskeyInv

LEMMA SameDevice ==
  ASSUME PasskeyInv, UNCHANGED device
  PROVE  DeviceGrows
  BY StateFacts DEF DeviceGrows

--------------------------------------------------------------------------------
(***************************************************************************)
(* One lemma for each operation on flows                                   *)
(***************************************************************************)

\* A tab is unloaded and shows something else, or nothing.
LEMMA UnloadedTabs ==
  ASSUME PasskeyInv, NEW p \in Page, NEW q, page' = [page EXCEPT ![p] = q],
         NEW f \in Flow \union {None},
         flow' = IF f = None THEN Unload(flow, p)
                 ELSE [Unload(flow, p) EXCEPT ![f] = IdleFlow],
         ceremony' = Forget(WaitingOn(p) \union ({f} \ {None}))
  PROVE  /\ ceremony' \in Ceremony \union {None}
         /\ \A g \in Flow : Bystander(g) \/ (f = g /\ flow'[g] = IdleFlow)
<1>1. WaitingOn(p) \union ({f} \ {None}) \in SUBSET Flow
  BY DEF WaitingOn
<1>2. ceremony' \in Ceremony \union {None}
  BY <1>1, ForgetKeepsOthers
<1>3. ASSUME NEW g \in Flow, ~(f = g /\ flow'[g] = IdleFlow)
      PROVE  Bystander(g)
  <2>0. /\ flow[g] \in FlowRecord
        /\ OnPage(g, flow[g])
        /\ flow[g].page \in Page \union {None}
        /\ Waiting(g) => flow[g].page \in Page /\ page[flow[g].page].controller = g
        /\ page \in [Page -> PageRecord]
        /\ None \notin Page /\ None \notin Flow
    BY FlowFacts, StateFacts DEF Sound
  <2>1. flow'[g] = IF flow[g].page # p THEN flow[g]
                   ELSE IF flow[g].step \in Awaiting THEN IdleFlow
                   ELSE [flow[g] EXCEPT !.page = None]
    BY <1>3, <2>0 DEF Unload
  <2>2. CASE flow[g].page # p
    <3>1. ceremony = [operation |-> flow[g].operation, flow |-> g] =>
            ceremony' = ceremony \/ flow[g].step \notin {"body", "prompt"}
      <4>1. g \notin WaitingOn(p)
        BY <2>2 DEF WaitingOn
      <4>2. CASE f # g
        BY <1>1, <4>1, <4>2, ForgetKeepsOthers
      <4>3. CASE f = g
        BY <1>3, <2>0, <4>3 DEF Unload
      <4> QED
        BY <4>2, <4>3
    <3>2. flow[g].page # None => page'[flow[g].page] = page[flow[g].page]
      BY <2>0, <2>2
    <3> QED
      BY <2>0, <2>1, <2>2, <3>1, <3>2 DEF Bystander, OnPage
  <2>3. CASE flow[g].page = p
    <3>1. CASE flow[g].step \in Awaiting
      BY <2>0, <2>1, <2>3, <3>1 DEF Bystander, Awaiting, IdleFlow
    <3>2. CASE flow[g].step \in Posted
      <4>1. PICK r : r = [flow[g] EXCEPT !.page = None]
        OBVIOUS
      <4>2. r.page = None /\ flow'[g] = r /\ flow[g].page # None
        BY <2>0, <2>1, <2>3, <3>2, <4>1 DEF FlowRecord, Awaiting, Posted
      <4> QED
        BY <2>0, <2>3, <3>2, <4>1, <4>2 DEF Bystander
    <3>3. flow[g].step # "free"
      BY <2>0, <2>3 DEF OnPage
    <3> QED
      BY <2>0, <3>1, <3>2, <3>3 DEF FlowRecord
  <2> QED
    BY <2>2, <2>3
<1> QED
  BY <1>2, <1>3

\* A flow begins in tab p and ends the one before it.
LEMMA StartedFlows ==
  ASSUME PasskeyInv, NEW p \in Page, NEW f \in Flow, NEW conditional \in BOOLEAN,
         NEW presses \in 0..MaxPresses, page[p].state # "closed",
         page[p].presses > 0 => presses > 0, ~conditional => presses > 0,
         StartFlow(p, f, conditional, presses),
         UNCHANGED <<supported, session, device, row, rename>>
  PROVE  PasskeyInv'
<1>0. /\ session \in Account \union {None}
      /\ page \in [Page -> PageRecord]
      /\ page[p] \in PageRecord
      /\ AutofillNeedsPage
      /\ DeviceGrows
      /\ None \notin Page
  BY StateFacts, SameDevice DEF PasskeyInv
<1>1. PICK r : r = [page[p] EXCEPT !.controller = f, !.presses = presses,
                                   !.autofill = page[p].autofill /\ ~conditional]
  OBVIOUS
<1>2. /\ r \in PageRecord
      /\ r.state # "closed"
      /\ r.controller = f
      /\ r.presses = presses
  BY <1>0, <1>1 DEF PageRecord
<1>3. page' = [page EXCEPT ![p] = r]
  BY <1>0, <1>1 DEF StartFlow
<1>4. PICK q : q = NewFlow(p, conditional)
  OBVIOUS
<1>5. /\ q \in FlowRecord
      /\ q.step = "options"
      /\ q.page = p
      /\ q.conditional = conditional
      /\ q.operation # "none"
      /\ q.operation = "Create" /\ q.granted => q.entity = q.token /\ q.entity # None
  <2>1. PICK op : op = Operation(p)
    OBVIOUS
  <2>2. PICK granted : granted = Granted(p)
    OBVIOUS
  <2>3. PICK entity : entity = IF op = "Create" THEN session ELSE None
    OBVIOUS
  <2>4. op \in {"Create", "Request"} /\ granted \in BOOLEAN /\ entity \in Account \union {None}
    BY <1>0, <2>1, <2>2, <2>3 DEF Operation, Granted
  <2>5. /\ page[p].token \in Account \union {None}
        /\ op = "Create" /\ granted => entity = page[p].token /\ entity # None
    BY <1>0, <2>1, <2>2, <2>3 DEF Granted, PageRecord
  <2>6. q = [IdleFlow EXCEPT !.step = "options", !.page = p, !.operation = op,
               !.conditional = conditional, !.token = page[p].token, !.granted = granted,
               !.entity = entity]
    BY <1>4, <2>1, <2>2, <2>3 DEF NewFlow
  <2>7. q = [step |-> "options", page |-> p, operation |-> op,
             conditional |-> conditional, token |-> page[p].token, granted |-> granted,
             entity |-> entity, credential |-> None, sent |-> "none", as |-> None,
             disturbed |-> FALSE]
    BY <2>6 DEF IdleFlow
  <2> QED
    BY <2>4, <2>5, <2>7 DEF FlowRecord, Awaiting
<1>6. flow' = [g \in Flow |-> IF g = f THEN q
                              ELSE IF g \in Aborted(p) THEN IdleFlow ELSE flow[g]]
  BY <1>4 DEF StartFlow
<1>7. Sound(f, q)'
  BY <1>0, <1>2, <1>3, <1>5 DEF Sound, OnPage, Answers, Owned, Awaiting, Posted
<1>8. Aborted(p) \in SUBSET Flow /\ ceremony' = Forget(Aborted(p))
  BY DEF Aborted, StartFlow
<1>9. ASSUME NEW g \in Flow, g # f
      PROVE  Bystander(g)
  <2>0. /\ flow[g] \in FlowRecord
        /\ OnPage(g, flow[g])
        /\ flow[g].page \in Page \union {None}
        /\ Waiting(g) => flow[g].page \in Page /\ page[flow[g].page].controller = g
    BY FlowFacts DEF Sound
  <2>1. CASE g \in Aborted(p)
    <3>1. flow'[g] = IdleFlow
      BY <1>6, <1>9, <2>1
    <3>2. flow'[g].page = None /\ flow'[g] # flow[g]
      BY <2>1, <3>1 DEF Aborted, Waiting, Awaiting, IdleFlow
    <3> QED
      BY <3>1, <3>2 DEF Bystander
  <2>2. CASE g \notin Aborted(p)
    <3>1. flow'[g] = flow[g]
      BY <1>6, <1>9, <2>2
    <3>2. Waiting(g) => flow[g].page # p
      BY <2>0, <2>2 DEF Aborted
    <3>3. ceremony = [operation |-> flow[g].operation, flow |-> g] => ceremony' = ceremony
      BY <1>8, <2>2, ForgetKeepsOthers
    <3>4. CASE flow[g].page = p
      BY <1>0, <1>2, <1>3, <3>1, <3>2, <3>3, <3>4 DEF Bystander
    <3>5. CASE flow[g].page # p
      BY <1>0, <1>3, <2>0, <3>1, <3>3, <3>5 DEF Bystander, OnPage
    <3> QED
      BY <3>4, <3>5
  <2> QED
    BY <2>1, <2>2
<1>10. \A g \in Flow : Sound(g, flow[g])'
  BY <1>0, <1>6, <1>7, <1>9, BystandersStaySound DEF Sound, OnPage, Answers, Owned
<1>11. ceremony' \in Ceremony \union {None}
  BY <1>8, ForgetKeepsOthers
<1>12. page' \in [Page -> PageRecord] /\ AutofillNeedsPage'
  BY <1>0, <1>2, <1>3 DEF AutofillNeedsPage
<1>13. flow' = [g \in Flow |-> flow'[g]]
  BY <1>6
<1> QED
  BY <1>0, <1>10, <1>11, <1>12, <1>13, BrowserSteps

\* A form is posted in the place of flow f.
LEMMA SubmittedForms ==
  ASSUME PasskeyInv, NEW f \in Flow, NEW q \in FlowRecord, Submit(f, q),
         q.page \in Page, page[q.page].state # "closed", q.step = "posted",
         page[q.page].controller = f,
         q.credential = None => page'[q.page].presses > 0,
         q.credential # None /\ ~q.disturbed => q.sent = "own",
         q.operation = "Create" /\ q.credential # None =>
           q.token # None /\ device'[q.credential] = q.token,
         ceremony' \in {ceremony, Forget({f})}, DeviceGrows,
         UNCHANGED <<supported, session, row, rename>>
  PROVE  PasskeyInv'
<1>0. /\ session \in Account \union {None}
      /\ ceremony \in Ceremony \union {None}
      /\ page \in [Page -> PageRecord]
      /\ page[q.page] \in PageRecord
      /\ AutofillNeedsPage
      /\ None \notin Page /\ None \notin Flow
  BY StateFacts DEF PasskeyInv
<1>1. PICK r : r = [page[q.page] EXCEPT !.state = "leaving", !.controller = None]
  OBVIOUS
<1>2. /\ r \in PageRecord
      /\ r.state # "closed"
      /\ r.presses = page[q.page].presses
  BY <1>0, <1>1 DEF PageRecord
<1>3. page' = [page EXCEPT ![q.page] = r]
  BY <1>0, <1>1 DEF Submit
<1>4. flow' = [g \in Flow |->
        IF g = f THEN q
        ELSE IF flow[g].step \in Posted /\ flow[g].page = q.page
             THEN [flow[g] EXCEPT !.page = None]
             ELSE flow[g]]
  BY DEF Submit
<1>5. Sound(f, q)'
  BY <1>0, <1>2, <1>3 DEF Sound, OnPage, Answers, Owned, Awaiting, Posted
<1>6. ASSUME NEW g \in Flow, g # f
      PROVE  Bystander(g)
  <2>0. /\ flow[g] \in FlowRecord
        /\ OnPage(g, flow[g])
        /\ flow[g].page \in Page \union {None}
        /\ Waiting(g) => flow[g].page \in Page /\ page[flow[g].page].controller = g
    BY FlowFacts DEF Sound
  <2>1. ceremony = [operation |-> flow[g].operation, flow |-> g] => ceremony' = ceremony
    BY <1>6, ForgetKeepsOthers
  <2>2. Waiting(g) => flow[g].page # q.page
    BY <1>0, <1>6, <2>0
  <2>3. CASE flow[g].page # q.page
    BY <1>0, <1>3, <1>4, <1>6, <2>0, <2>1, <2>3 DEF Bystander, OnPage
  <2>4. CASE flow[g].page = q.page /\ flow[g].step \in Posted
    <3>1. PICK x : x = [flow[g] EXCEPT !.page = None]
      OBVIOUS
    <3>2. x.page = None /\ flow'[g] = x /\ flow[g].page # None
      BY <1>0, <1>4, <1>6, <2>0, <2>4, <3>1 DEF FlowRecord
    <3> QED
      BY <2>0, <2>4, <3>1, <3>2 DEF Bystander
  <2>5. flow[g].page = q.page => flow[g].step \in Posted
    BY <1>0, <2>0, <2>2 DEF OnPage, FlowRecord, Waiting
  <2> QED
    BY <2>3, <2>4, <2>5
<1>7. \A g \in Flow : Sound(g, flow[g])'
  BY <1>4, <1>5, <1>6, BystandersStaySound DEF Sound, OnPage, Answers, Owned
<1>8. ceremony' \in Ceremony \union {None}
  BY <1>0, ForgetKeepsOthers
<1>9. page' \in [Page -> PageRecord] /\ AutofillNeedsPage'
  BY <1>0, <1>2, <1>3 DEF AutofillNeedsPage
<1>10. flow' = [g \in Flow |-> flow'[g]]
  BY <1>4
<1> QED
  BY <1>0, <1>7, <1>8, <1>9, <1>10, BrowserSteps

LEMMA PostedRecords ==
  ASSUME PasskeyInv, NEW f \in Flow, Waiting(f), NEW c \in Credential \union {None},
         NEW q, q = PostOf(f, c)
  PROVE  /\ q \in FlowRecord
         /\ q.step = "posted"
         /\ q.page = flow[f].page
         /\ q.operation = flow[f].operation
         /\ q.token = flow[f].token
         /\ q.credential = c
         /\ c # None => q.sent = Fit(f)
         /\ c # None /\ ~q.disturbed => ~flow[f].disturbed
<1>0. flow[f] \in FlowRecord /\ session \in Account \union {None}
  BY FlowFacts, StateFacts
<1>1. PICK sent : sent = IF c = None THEN "none" ELSE Fit(f)
  OBVIOUS
<1>2. PICK disturbed : disturbed = (c # None /\ flow[f].disturbed)
  OBVIOUS
<1>3. sent \in {"own", "other", "none"} /\ disturbed \in BOOLEAN
  BY <1>1, <1>2 DEF Fit
<1>4. c # None => sent = Fit(f) /\ (disturbed <=> flow[f].disturbed)
  BY <1>1, <1>2
<1>5. q = [IdleFlow EXCEPT !.step = "posted", !.page = flow[f].page,
             !.operation = flow[f].operation, !.token = flow[f].token, !.as = session,
             !.credential = c, !.sent = sent, !.disturbed = disturbed]
  BY <1>1, <1>2 DEF PostOf
<1>6. q = [step |-> "posted", page |-> flow[f].page, operation |-> flow[f].operation,
           conditional |-> FALSE, token |-> flow[f].token, granted |-> FALSE,
           entity |-> None, credential |-> c, sent |-> sent, as |-> session,
           disturbed |-> disturbed]
  BY <1>5 DEF IdleFlow
<1> QED
  BY <1>0, <1>3, <1>4, <1>6 DEF FlowRecord, Posted

\* The facts of the invariant about a flow that waits, and its tab.
LEMMA WaitingFacts ==
  ASSUME PasskeyInv, NEW f \in Flow, Waiting(f)
  PROVE  /\ flow[f].page \in Page
         /\ page[flow[f].page].controller = f
         /\ page[flow[f].page].state # "closed"
         /\ ~flow[f].conditional => page[flow[f].page].presses > 0
  BY FlowFacts, StateFacts DEF Sound, OnPage, Waiting

\* A flow fails, and its error is posted or only logged.
LEMMA FailedFlows ==
  ASSUME PasskeyInv, NEW f \in Flow, Waiting(f), Fails(f), DeviceGrows,
         UNCHANGED <<supported, session, row, rename>>
  PROVE  PasskeyInv'
<1> DEFINE p == flow[f].page
<1>0. /\ session \in Account \union {None}
      /\ page \in [Page -> PageRecord]
      /\ p \in Page
      /\ page[p] \in PageRecord
      /\ page[p].controller = f
      /\ page[p].state # "closed"
      /\ ~flow[f].conditional => page[p].presses > 0
      /\ AutofillNeedsPage
      /\ None \notin Page /\ None \notin Flow
      /\ flow \in [Flow -> FlowRecord]
  BY StateFacts, WaitingFacts DEF PasskeyInv
<1>1. CASE ~flow[f].conditional
  <2>1. PICK q : q = PostOf(f, None)
    OBVIOUS
  <2>2. /\ q \in FlowRecord
        /\ q.step = "posted"
        /\ q.page = p
        /\ q.credential = None
    BY <2>1, PostedRecords
  <2>3. Submit(f, q) /\ ceremony' = Forget({f})
    BY <1>1, <2>1 DEF Fails
  <2>4. page'[p].presses = page[p].presses
    BY <1>0, <2>2, <2>3 DEF Submit, PageRecord
  <2> HIDE DEF p
  <2>5. page[q.page].state # "closed" /\ page[q.page].controller = f
        /\ page'[q.page].presses > 0 /\ q.page \in Page
    BY <1>0, <1>1, <2>2, <2>4
  <2> QED
    BY <2>2, <2>3, <2>5, SubmittedForms
<1>2. CASE flow[f].conditional
  <2>1. PICK r : r = [page[p] EXCEPT !.controller = None]
    OBVIOUS
  <2>2. r \in PageRecord /\ r.state = page[p].state /\ r.presses = page[p].presses
    BY <1>0, <2>1 DEF PageRecord
  <2>3. page' = [page EXCEPT ![p] = r] /\ flow' = [flow EXCEPT ![f] = IdleFlow]
        /\ ceremony' = Forget({f})
    BY <1>0, <1>2, <2>1 DEF Fails
  <2>4. ASSUME NEW g \in Flow
        PROVE  Bystander(g)
    <3>0. /\ OnPage(g, flow[g])
          /\ flow[g].page \in Page \union {None}
          /\ Waiting(g) => flow[g].page \in Page /\ page[flow[g].page].controller = g
      BY FlowFacts DEF Sound
    <3>1. CASE g = f
      <4>1. flow'[g] = IdleFlow /\ flow[g] # IdleFlow
        BY <1>0, <2>3, <3>1 DEF Waiting, Awaiting, IdleFlow
      <4> QED
        BY <4>1 DEF Bystander, IdleFlow
    <3>2. CASE g # f
      <4>1. flow'[g] = flow[g] /\ (Waiting(g) => flow[g].page # p)
        BY <1>0, <2>3, <3>0, <3>2
      <4>2. ceremony = [operation |-> flow[g].operation, flow |-> g] => ceremony' = ceremony
        BY <2>3, <3>2, ForgetKeepsOthers
      <4>3. flow[g].page # None => page[flow[g].page].state # "closed"
        BY <3>0 DEF OnPage
      <4> HIDE DEF p
      <4>4. CASE flow[g].page = p
        BY <1>0, <2>2, <2>3, <3>0, <4>1, <4>2, <4>3, <4>4 DEF Bystander
      <4>5. CASE flow[g].page # p
        BY <1>0, <2>3, <3>0, <4>1, <4>2, <4>3, <4>5 DEF Bystander
      <4> QED
        BY <4>4, <4>5
    <3> QED
      BY <3>1, <3>2
  <2>5. \A g \in Flow : Sound(g, flow[g])'
    BY <2>4, BystandersStaySound
  <2>6. ceremony' \in Ceremony \union {None}
    BY <2>3, ForgetKeepsOthers
  <2>7. page' \in [Page -> PageRecord] /\ AutofillNeedsPage'
    <3>1. r.autofill = page[p].autofill
      BY <1>0, <2>1 DEF PageRecord
    <3> HIDE DEF p
    <3> QED
      BY <1>0, <2>2, <2>3, <3>1 DEF AutofillNeedsPage
  <2>8. flow' = [g \in Flow |-> flow'[g]]
    BY <1>0, <2>3
  <2> QED
    BY <1>0, <2>5, <2>6, <2>7, <2>8, BrowserSteps
<1> QED
  BY <1>1, <1>2

\* A post is answered; the browser may take the answer over.
LEMMA AnsweredPosts ==
  ASSUME PasskeyInv, NEW f \in Flow, NEW denied \in BOOLEAN, NEW cleared \in BOOLEAN,
         NEW user \in Account \union {None},
         AnswerPost(f, denied, cleared, user), UNCHANGED device
  PROVE  /\ session' \in Account \union {None}
         /\ ceremony' \in Ceremony \union {None}
         /\ page' \in [Page -> PageRecord]
         /\ AutofillNeedsPage'
         /\ flow' = [g \in Flow |-> flow'[g]]
         /\ \A g \in Flow : Sound(g, flow[g])'
<1> DEFINE p == flow[f].page
<1>0. /\ session \in Account \union {None}
      /\ page \in [Page -> PageRecord]
      /\ flow \in [Flow -> FlowRecord]
      /\ p \in Page \union {None}
      /\ AutofillNeedsPage
      /\ None \notin Page /\ None \notin Flow
      /\ DeviceGrows
  BY StateFacts, FlowFacts, SameDevice DEF PasskeyInv
<1>1. CASE p = None
  <2>1. /\ flow' = [flow EXCEPT ![f] = IdleFlow]
        /\ ceremony' = Forget({f})
        /\ UNCHANGED <<session, page>>
    BY <1>1 DEF AnswerPost
  <2>2. ASSUME NEW g \in Flow, g # f
        PROVE  Bystander(g)
    <3>1. /\ OnPage(g, flow[g])
          /\ Waiting(g) => page[flow[g].page].controller = g
      BY FlowFacts DEF Sound
    <3>2. ceremony = [operation |-> flow[g].operation, flow |-> g] => ceremony' = ceremony
      BY <2>1, <2>2, ForgetKeepsOthers
    <3> QED
      BY <1>0, <2>1, <2>2, <3>1, <3>2 DEF Bystander, OnPage
  <2>3. flow'[f] = IdleFlow
    BY <1>0, <2>1
  <2>4. \A g \in Flow : Sound(g, flow[g])'
    BY <1>0, <2>2, <2>3, BystandersStaySound, IdleFlowIsSound DEF Sound, OnPage, Answers, Owned
  <2> QED
    BY <1>0, <2>1, <2>4, ForgetKeepsOthers DEF AutofillNeedsPage
<1>2. CASE p # None
  <2>1. PICK r : r = [ClosedPage EXCEPT !.denied = denied]
    OBVIOUS
  <2>2. r \in PageRecord /\ ~r.autofill
    <3>1. r \in PageRecord
      BY <2>1, ClosedPages, StateFacts
    <3> QED
      BY <2>1, <3>1 DEF ClosedPage
  <2>3. page' = [page EXCEPT ![p] = r] /\ session' = user
    BY <1>2, <2>1 DEF AnswerPost
  <2>4. page' \in [Page -> PageRecord] /\ AutofillNeedsPage'
    <3> HIDE DEF p
    <3> QED
      BY <1>0, <2>2, <2>3 DEF AutofillNeedsPage
  <2>5. CASE ~cleared
    <3>1. /\ flow' = [Unload(flow, p) EXCEPT ![f] = IdleFlow]
          /\ ceremony' = Forget(WaitingOn(p) \union {f})
      BY <1>2, <2>5 DEF AnswerPost
    <3>2. {f} = {f} \ {None} /\ p \in Page
      BY <1>0, <1>2
    <3> HIDE DEF p
    <3>3. /\ ceremony' \in Ceremony \union {None}
          /\ \A g \in Flow : Bystander(g) \/ (f = g /\ flow'[g] = IdleFlow)
      BY <1>0, <2>3, <3>1, <3>2, UnloadedTabs
    <3>4. \A g \in Flow : Sound(g, flow[g])'
      BY <1>0, <3>3, BystandersStaySound, IdleFlowIsSound DEF Sound, OnPage, Answers, Owned
    <3>5. flow' = [g \in Flow |-> flow'[g]]
      BY <3>1 DEF Unload
    <3> QED
      BY <2>3, <2>4, <3>3, <3>4, <3>5
  <2>6. CASE cleared
    <3>1. /\ flow' = [Disturb(Unload(flow, p), p) EXCEPT ![f] = IdleFlow]
          /\ ceremony' = None
      BY <1>2, <2>6 DEF AnswerPost
    <3> HIDE DEF p
    <3>2. ASSUME NEW g \in Flow, g # f
          PROVE  Bystander(g)
      <4>0. /\ flow[g] \in FlowRecord
            /\ OnPage(g, flow[g])
            /\ flow[g].page \in Page \union {None}
            /\ Waiting(g) => page[flow[g].page].controller = g
        BY FlowFacts DEF Sound
      <4>1. Unload(flow, p)[g] = IF flow[g].page # p THEN flow[g]
                                 ELSE IF flow[g].step \in Awaiting THEN IdleFlow
                                 ELSE [flow[g] EXCEPT !.page = None]
        BY DEF Unload
      <4>2. flow'[g] = IF /\ Unload(flow, p)[g].step \in {"body", "prompt"}
                          /\ Unload(flow, p)[g].page # p
                       THEN [Unload(flow, p)[g] EXCEPT !.disturbed = TRUE]
                       ELSE Unload(flow, p)[g]
        BY <3>1, <3>2 DEF Disturb, Unload
      <4>3. CASE flow[g].page # p /\ flow[g].step \in {"body", "prompt"}
        <5>1. PICK x : x = [flow[g] EXCEPT !.disturbed = TRUE]
          OBVIOUS
        <5>2. flow'[g] = x /\ x.page = flow[g].page /\ x.disturbed
          BY <4>0, <4>1, <4>2, <4>3, <5>1 DEF FlowRecord
        <5>3. flow'[g] = flow[g] => flow[g].disturbed
          BY <5>2
        <5>4. flow[g].page # None => page'[flow[g].page] = page[flow[g].page]
          BY <1>0, <2>3, <4>0, <4>3
        <5> QED
          BY <4>0, <4>3, <5>1, <5>2, <5>3, <5>4 DEF Bystander, OnPage
      <4>4. CASE flow[g].page # p /\ flow[g].step \notin {"body", "prompt"}
        <5>1. flow'[g] = flow[g]
          BY <4>1, <4>2, <4>4
        <5>2. flow[g].page # None => page'[flow[g].page] = page[flow[g].page]
          BY <1>0, <2>3, <4>0, <4>4
        <5> QED
          BY <4>0, <4>4, <5>1, <5>2 DEF Bystander, OnPage
      <4>5. CASE flow[g].page = p /\ flow[g].step \in Awaiting
        <5>1. flow'[g] = IdleFlow
          BY <4>1, <4>2, <4>5 DEF IdleFlow
        <5> QED
          BY <4>5, <5>1 DEF Bystander, Awaiting, IdleFlow
      <4>6. CASE flow[g].page = p /\ flow[g].step \in Posted
        <5>1. PICK x : x = [flow[g] EXCEPT !.page = None]
          OBVIOUS
        <5>2. flow'[g] = x /\ x.page = None /\ flow[g].page # None
          BY <1>2, <4>0, <4>1, <4>2, <4>6, <5>1 DEF FlowRecord, Awaiting, Posted, p
        <5> QED
          BY <4>6, <5>1, <5>2 DEF Bystander
      <4>7. flow[g].step = "free" => flow[g].page # p
        BY <1>2, <4>0 DEF OnPage, p
      <4> QED
        BY <4>0, <4>3, <4>4, <4>5, <4>6, <4>7 DEF FlowRecord
    <3>3. flow'[f] = IdleFlow
      BY <3>1 DEF Disturb
    <3>4. \A g \in Flow : Sound(g, flow[g])'
      BY <1>0, <3>2, <3>3, BystandersStaySound, IdleFlowIsSound DEF Sound, OnPage, Answers, Owned
    <3>5. flow' = [g \in Flow |-> flow'[g]]
      BY <3>1 DEF Disturb
    <3> QED
      BY <2>3, <2>4, <3>1, <3>4, <3>5
  <2> QED
    BY <2>5, <2>6
<1> QED
  BY <1>1, <1>2

--------------------------------------------------------------------------------
(***************************************************************************)
(* The steps of the browser                                                *)
(***************************************************************************)

\* A tab opens, or gives autofill up: no flow notices.
LEMMA TabsKeepInv ==
  ASSUME PasskeyInv, NEW p \in Page, OpenPage(p) \/ AutofillUnavailable(p),
         UNCHANGED <<row, rename>>
  PROVE  PasskeyInv'
<1>0. /\ session \in Account \union {None}
      /\ supported \in BOOLEAN
      /\ ceremony \in Ceremony \union {None}
      /\ page \in [Page -> PageRecord]
      /\ page[p] \in PageRecord
      /\ flow \in [Flow -> FlowRecord]
      /\ AutofillNeedsPage
      /\ DeviceGrows
      /\ None \notin Page
  BY StateFacts, SameDevice DEF PasskeyInv, OpenPage, AutofillUnavailable
<1>1. UNCHANGED <<supported, session, ceremony, device, flow>>
  BY DEF OpenPage, AutofillUnavailable
<1>2. PICK r \in PageRecord :
        /\ page' = [page EXCEPT ![p] = r]
        /\ r.state # "closed"
        /\ page[p].state # "closed" =>
             r.controller = page[p].controller /\ r.presses = page[p].presses
  <2>1. CASE OpenPage(p)
    <3>1. PICK autofill \in BOOLEAN : autofill = (supported /\ Operation(p) = "Request")
      BY <1>0
    <3>2. PICK r : r = [ClosedPage EXCEPT !.state = "open", !.token = session,
                                          !.autofill = autofill]
      OBVIOUS
    <3>3. r \in PageRecord
      BY <1>0, <3>2, ClosedPages
    <3>4. r.state = "open"
      BY <3>2 DEF ClosedPage
    <3>5. page' = [page EXCEPT ![p] = r] /\ page[p].state = "closed"
      BY <2>1, <3>1, <3>2 DEF OpenPage
    <3> QED
      BY <3>3, <3>4, <3>5
  <2>2. CASE AutofillUnavailable(p)
    <3>1. PICK r : r = [page[p] EXCEPT !.autofill = FALSE]
      OBVIOUS
    <3>2. /\ r \in PageRecord /\ r.state = page[p].state
          /\ r.controller = page[p].controller /\ r.presses = page[p].presses
      BY <1>0, <3>1 DEF PageRecord
    <3>3. page' = [page EXCEPT ![p] = r] /\ page[p].state # "closed"
      BY <1>0, <2>2, <3>1 DEF AutofillUnavailable, AutofillNeedsPage
    <3> QED
      BY <3>2, <3>3
  <2> QED
    BY <2>1, <2>2
<1>3. ASSUME NEW g \in Flow
      PROVE  Bystander(g)
  <2>1. /\ OnPage(g, flow[g])
        /\ flow[g].page \in Page \union {None}
        /\ Waiting(g) => page[flow[g].page].controller = g
    BY FlowFacts DEF Sound
  <2>2. CASE flow[g].page = p
    BY <1>0, <1>1, <1>2, <2>1, <2>2 DEF Bystander, OnPage
  <2>3. CASE flow[g].page # p
    BY <1>0, <1>1, <1>2, <2>1, <2>3 DEF Bystander, OnPage
  <2> QED
    BY <2>2, <2>3
<1>4. page' \in [Page -> PageRecord] /\ AutofillNeedsPage'
  BY <1>0, <1>2 DEF AutofillNeedsPage
<1>5. \A g \in Flow : Sound(g, flow[g])'
  BY <1>0, <1>3, BystandersStaySound
<1> QED
  BY <1>0, <1>1, <1>4, <1>5, BrowserSteps

\* A tab is left, or its Cancel button pressed.
LEMMA LeavingKeepsInv ==
  ASSUME PasskeyInv, NEW p \in Page, LeavePage(p) \/ Cancel(p), UNCHANGED <<row, rename>>
  PROVE  PasskeyInv'
<1>0. /\ session \in Account \union {None}
      /\ page \in [Page -> PageRecord]
      /\ AutofillNeedsPage
      /\ UNCHANGED <<supported, session, device>>
      /\ flow' = Unload(flow, p)
      /\ ceremony' = Forget(WaitingOn(p))
      /\ DeviceGrows
      /\ None \notin Flow
  BY StateFacts, SameDevice DEF PasskeyInv, LeavePage, Cancel
<1>1. PICK r \in PageRecord : page' = [page EXCEPT ![p] = r] /\ ~r.autofill
  <2>1. CASE LeavePage(p)
    BY <2>1, ClosedPages DEF LeavePage, ClosedPage
  <2>2. CASE Cancel(p)
    <3>1. PICK denied \in BOOLEAN : denied = (page[p].token = session)
      OBVIOUS
    <3>2. PICK r : r = [ClosedPage EXCEPT !.cancelled = TRUE, !.denied = denied]
      OBVIOUS
    <3>3. r \in PageRecord
      BY <3>2, ClosedPages, StateFacts
    <3>4. ~r.autofill
      BY <3>2 DEF ClosedPage
    <3> QED
      BY <2>2, <3>1, <3>2, <3>3, <3>4 DEF Cancel
  <2> QED
    BY <2>1, <2>2
<1>2. /\ ceremony' \in Ceremony \union {None}
      /\ \A g \in Flow : Bystander(g)
  <2>1. PICK f \in Flow \union {None} : f = None
    OBVIOUS
  <2>2. /\ flow' = IF f = None THEN Unload(flow, p)
                   ELSE [Unload(flow, p) EXCEPT ![f] = IdleFlow]
        /\ ceremony' = Forget(WaitingOn(p) \union ({f} \ {None}))
    BY <1>0, <2>1
  <2> QED
    BY <1>0, <1>1, <2>1, <2>2, UnloadedTabs
<1>3. page' \in [Page -> PageRecord] /\ AutofillNeedsPage'
  BY <1>0, <1>1 DEF AutofillNeedsPage
<1>4. \A g \in Flow : Sound(g, flow[g])'
  BY <1>0, <1>2, BystandersStaySound
<1>5. flow' = [g \in Flow |-> flow'[g]]
  BY <1>0 DEF Unload
<1> QED
  BY <1>0, <1>2, <1>3, <1>4, <1>5, BrowserSteps

LEMMA SessionChangesKeepInv ==
  ASSUME PasskeyInv, SessionChanges, UNCHANGED <<row, rename>>
  PROVE  PasskeyInv'
<1>0. /\ session' \in Account \union {None}
      /\ ceremony \in Ceremony \union {None}
      /\ page \in [Page -> PageRecord]
      /\ flow \in [Flow -> FlowRecord]
      /\ AutofillNeedsPage
      /\ DeviceGrows
      /\ None \notin Page
      /\ UNCHANGED <<supported, device, page>>
  BY StateFacts, SameDevice DEF PasskeyInv, SessionChanges
<1>1. ASSUME NEW g \in Flow
      PROVE  Bystander(g)
  <2>0. /\ flow[g] \in FlowRecord
        /\ OnPage(g, flow[g])
        /\ Waiting(g) => flow[g].page \in Page /\ page[flow[g].page].controller = g
    BY FlowFacts DEF Sound
  <2>1. CASE UNCHANGED <<ceremony, flow>>
    BY <1>0, <2>0, <2>1 DEF Bystander, OnPage
  <2>2. CASE ceremony' = None /\ flow' = Disturb(flow, None)
    <3>1. CASE flow[g].step \in {"body", "prompt"}
      <4>1. PICK x : x = [flow[g] EXCEPT !.disturbed = TRUE]
        OBVIOUS
      <4>2. flow'[g] = x /\ x.disturbed /\ x.page = flow[g].page
        BY <1>0, <2>0, <2>2, <3>1, <4>1 DEF Disturb, Waiting, Awaiting, FlowRecord
      <4>3. flow'[g] = flow[g] => flow[g].disturbed
        BY <4>2
      <4> QED
        BY <1>0, <2>0, <3>1, <4>1, <4>2, <4>3 DEF Bystander, OnPage
    <3>2. CASE flow[g].step \notin {"body", "prompt"}
      <4>1. flow'[g] = flow[g]
        BY <2>2, <3>2 DEF Disturb
      <4> QED
        BY <1>0, <2>0, <3>2, <4>1 DEF Bystander, OnPage
    <3> QED
      BY <3>1, <3>2
  <2> QED
    BY <2>1, <2>2 DEF SessionChanges
<1>2. ceremony' \in Ceremony \union {None} /\ flow' = [g \in Flow |-> flow'[g]]
  BY <1>0 DEF SessionChanges, Disturb
<1>3. \A g \in Flow : Sound(g, flow[g])'
  BY <1>0, <1>1, BystandersStaySound
<1>4. AutofillNeedsPage'
  BY <1>0 DEF AutofillNeedsPage
<1> QED
  BY <1>0, <1>2, <1>3, <1>4, BrowserSteps

LEMMA NewFlowsKeepInv ==
  ASSUME PasskeyInv, NEW p \in Page, NEW f \in Flow,
         PressButton(p, f) \/ AutofillAvailable(p, f), UNCHANGED <<row, rename>>
  PROVE  PasskeyInv'
<1>0. page[p].presses \in 0..MaxPresses /\ MaxPresses \in Nat /\ AutofillNeedsPage
  BY StateFacts, MaxPressesIsNat DEF PasskeyInv, PageRecord
<1>1. CASE PressButton(p, f)
  <2>1. page[p].presses + 1 \in 0..MaxPresses /\ page[p].presses + 1 > 0
    BY <1>0, <1>1 DEF PressButton
  <2> QED
    BY <1>1, <2>1, StartedFlows DEF PressButton
<1>2. CASE AutofillAvailable(p, f)
  BY <1>0, <1>2, StartedFlows DEF AutofillAvailable, AutofillNeedsPage
<1> QED
  BY <1>1, <1>2

\* Without passkeys in the browser the press posts an error at once.
LEMMA UnsupportedKeepsInv ==
  ASSUME PasskeyInv, NEW p \in Page, NEW f \in Flow, PressButtonUnsupported(p, f),
         UNCHANGED <<row, rename>>
  PROVE  PasskeyInv'
<1>0. /\ session \in Account \union {None}
      /\ ceremony \in Ceremony \union {None}
      /\ page \in [Page -> PageRecord]
      /\ page[p] \in PageRecord
      /\ page[p].presses \in 0..MaxPresses
      /\ MaxPresses \in Nat
      /\ AutofillNeedsPage
      /\ DeviceGrows
      /\ None \notin Page
  BY StateFacts, SameDevice, MaxPressesIsNat DEF PasskeyInv, PageRecord, PressButtonUnsupported
<1>1. PICK r : r = [page[p] EXCEPT !.state = "leaving", !.presses = page[p].presses + 1]
  OBVIOUS
<1>2. /\ r \in PageRecord
      /\ r.state # "closed"
      /\ r.controller = page[p].controller
      /\ r.presses > 0
  BY <1>0, <1>1 DEF PressButtonUnsupported, PageRecord
<1>3. page' = [page EXCEPT ![p] = r]
  BY <1>0, <1>1 DEF PressButtonUnsupported
<1>4. PICK q : q = [IdleFlow EXCEPT !.step = "posted", !.page = p,
                      !.operation = Operation(p), !.token = page[p].token, !.as = session]
  OBVIOUS
<1>5. /\ q \in FlowRecord
      /\ q.step = "posted"
      /\ q.page = p
      /\ q.credential = None
  <2>1. PICK op \in {"Create", "Request"} : op = Operation(p)
    BY DEF Operation
  <2>2. q = [step |-> "posted", page |-> p, operation |-> op, conditional |-> FALSE,
             token |-> page[p].token, granted |-> FALSE, entity |-> None,
             credential |-> None, sent |-> "none", as |-> session, disturbed |-> FALSE]
    BY <1>4, <2>1 DEF IdleFlow
  <2>3. page[p].token \in Account \union {None}
    BY <1>0 DEF PageRecord
  <2> QED
    BY <1>0, <2>1, <2>2, <2>3 DEF FlowRecord, Posted
<1>6. flow' = [g \in Flow |-> IF g = f THEN q
                              ELSE IF flow[g].step \in Posted /\ flow[g].page = p
                              THEN [flow[g] EXCEPT !.page = None] ELSE flow[g]]
  BY <1>4 DEF PressButtonUnsupported
<1>7. Sound(f, q)'
  BY <1>0, <1>2, <1>3, <1>5 DEF Sound, OnPage, Answers, Owned, Awaiting, Posted
<1>8. ASSUME NEW g \in Flow, g # f
      PROVE  Bystander(g)
  <2>0. /\ flow[g] \in FlowRecord
        /\ OnPage(g, flow[g])
        /\ flow[g].page \in Page \union {None}
        /\ Waiting(g) => page[flow[g].page].controller = g
        /\ ceremony' = ceremony
    BY FlowFacts DEF Sound, PressButtonUnsupported
  <2>1. CASE flow[g].page # p
    BY <1>0, <1>3, <1>6, <1>8, <2>0, <2>1 DEF Bystander, OnPage
  <2>2. CASE flow[g].page = p /\ flow[g].step \in Posted
    <3>1. PICK x : x = [flow[g] EXCEPT !.page = None]
      OBVIOUS
    <3>2. x.page = None /\ flow'[g] = x /\ flow[g].page # None
      BY <1>0, <1>6, <1>8, <2>0, <2>2, <3>1 DEF FlowRecord
    <3> QED
      BY <2>0, <2>2, <3>1, <3>2 DEF Bystander
  <2>3. CASE flow[g].page = p /\ flow[g].step \notin Posted
    <3>1. flow'[g] = flow[g]
      BY <1>6, <1>8, <2>3
    <3> QED
      BY <1>0, <1>2, <1>3, <2>0, <2>3, <3>1 DEF Bystander, OnPage
  <2> QED
    BY <2>1, <2>2, <2>3
<1>9. \A g \in Flow : Sound(g, flow[g])'
  BY <1>0, <1>6, <1>7, <1>8, BystandersStaySound DEF Sound, OnPage, Answers, Owned
<1>10. page' \in [Page -> PageRecord] /\ AutofillNeedsPage'
  BY <1>0, <1>2, <1>3 DEF AutofillNeedsPage
<1>11. flow' = [g \in Flow |-> flow'[g]]
  BY <1>6
<1> QED
  BY <1>0, <1>9, <1>10, <1>11, BrowserSteps DEF PressButtonUnsupported

\* The options of a flow come, and the ceremonies of other tabs are over.
LEMMA OptionsKeepInv ==
  ASSUME PasskeyInv, NEW f \in Flow, OptionsArrive(f), UNCHANGED <<row, rename>>
  PROVE  PasskeyInv'
<1> DEFINE p == flow[f].page
<1>0. /\ session \in Account \union {None}
      /\ page \in [Page -> PageRecord]
      /\ flow \in [Flow -> FlowRecord]
      /\ flow[f] \in FlowRecord
      /\ Sound(f, flow[f])
      /\ Waiting(f)
      /\ p \in Page /\ page[p].controller = f
      /\ AutofillNeedsPage
      /\ DeviceGrows
      /\ None \notin Page
      /\ UNCHANGED <<supported, session, device, page>>
      /\ flow[f].step = "options" /\ flow[f].granted
  BY StateFacts, FlowFacts, SameDevice DEF PasskeyInv, OptionsArrive, Waiting, Awaiting
<1>1. PICK q : q = [flow[f] EXCEPT !.step = "body"]
  OBVIOUS
<1>2. /\ q \in FlowRecord
      /\ q.step = "body"
      /\ q.page = p
      /\ q.conditional = flow[f].conditional
      /\ q.operation = flow[f].operation
      /\ q.granted
      /\ q.token = flow[f].token
      /\ q.entity = flow[f].entity
  BY <1>0, <1>1 DEF FlowRecord, Awaiting
<1>3. flow' = [g \in Flow |->
        IF [flow EXCEPT ![f] = q][g].step \in {"body", "prompt"} /\ [flow EXCEPT ![f] = q][g].page # p
        THEN [[flow EXCEPT ![f] = q][g] EXCEPT !.disturbed = TRUE]
        ELSE [flow EXCEPT ![f] = q][g]]
  BY <1>0, <1>1 DEF OptionsArrive, Disturb
<1>4. flow'[f] = q
  BY <1>0, <1>2, <1>3
<1>5. ceremony' = [operation |-> q.operation, flow |-> f]
  BY <1>2 DEF OptionsArrive
<1>6. Sound(f, q)'
  <2>1. OnPage(f, q)'
    BY <1>0, <1>2 DEF Sound, OnPage, Awaiting, Posted
  <2>2. Answers(f, q)'
    BY <1>2, <1>5 DEF Answers, Posted
  <2>3. Owned(q)'
    BY <1>0, <1>2 DEF Sound, Owned, Awaiting, Posted
  <2> QED
    BY <1>2, <2>1, <2>2, <2>3 DEF Sound, OnPage, Answers, Owned
<1>7. ASSUME NEW g \in Flow, g # f
      PROVE  Bystander(g)
  <2>0. /\ flow[g] \in FlowRecord
        /\ OnPage(g, flow[g])
        /\ Waiting(g) => flow[g].page \in Page /\ page[flow[g].page].controller = g
    BY FlowFacts DEF Sound
  <2>1. Waiting(g) => flow[g].page # p
    BY <1>0, <1>7, <2>0
  <2>2. CASE flow[g].step \in {"body", "prompt"}
    <3>1. PICK x : x = [flow[g] EXCEPT !.disturbed = TRUE]
      OBVIOUS
    <3>2. flow'[g] = x /\ x.disturbed /\ x.page = flow[g].page
      BY <1>0, <1>3, <1>7, <2>0, <2>1, <2>2, <3>1 DEF Waiting, Awaiting, FlowRecord
    <3>3. flow'[g] = flow[g] => flow[g].disturbed
      BY <3>2
    <3> QED
      BY <1>0, <2>0, <2>2, <3>1, <3>2, <3>3 DEF Bystander, OnPage
  <2>3. CASE flow[g].step \notin {"body", "prompt"}
    <3>1. flow'[g] = flow[g]
      BY <1>0, <1>3, <1>7, <2>3
    <3> QED
      BY <1>0, <2>0, <2>3, <3>1 DEF Bystander, OnPage
  <2> QED
    BY <2>2, <2>3
<1>8. \A g \in Flow : Sound(g, flow[g])'
  BY <1>0, <1>4, <1>6, <1>7, BystandersStaySound DEF Sound, OnPage, Answers, Owned
<1>9. ceremony' \in Ceremony
  <2>1. q.operation \in {"Create", "Request"}
    BY <1>0, <1>2 DEF FlowRecord, Sound, OnPage, Waiting
  <2> QED
    BY <1>5, <2>1 DEF Ceremony
<1>10. flow' = [g \in Flow |-> flow'[g]]
  BY <1>3
<1>11. AutofillNeedsPage'
  BY <1>0 DEF AutofillNeedsPage
<1> QED
  BY <1>0, <1>8, <1>9, <1>10, <1>11, BrowserSteps

LEMMA BodiesKeepInv ==
  ASSUME PasskeyInv, NEW f \in Flow, BodyArrives(f), UNCHANGED <<row, rename>>
  PROVE  PasskeyInv'
<1>0. /\ session \in Account \union {None}
      /\ ceremony \in Ceremony \union {None}
      /\ page \in [Page -> PageRecord]
      /\ flow \in [Flow -> FlowRecord]
      /\ Sound(f, flow[f])
      /\ AutofillNeedsPage
      /\ DeviceGrows
      /\ UNCHANGED <<supported, session, ceremony, device, page>>
      /\ flow[f].step = "body"
  BY StateFacts, FlowFacts, SameDevice DEF PasskeyInv, BodyArrives
<1>1. PICK q : q = [flow[f] EXCEPT !.step = "prompt"]
  OBVIOUS
<1>2. /\ q \in FlowRecord
      /\ q.step = "prompt"
      /\ q.page = flow[f].page
      /\ q.conditional = flow[f].conditional
      /\ q.operation = flow[f].operation
      /\ q.granted = flow[f].granted
      /\ q.token = flow[f].token
      /\ q.entity = flow[f].entity
      /\ q.disturbed = flow[f].disturbed
  BY <1>0, <1>1 DEF FlowRecord, Awaiting, Sound
<1>3. flow' = [flow EXCEPT ![f] = q]
  BY <1>1 DEF BodyArrives
<1>4. Sound(f, q)'
  <2>1. OnPage(f, q)'
    BY <1>0, <1>2 DEF Sound, OnPage, Awaiting, Posted
  <2>2. Answers(f, q)'
    BY <1>0, <1>2 DEF Sound, Answers, Posted
  <2>3. Owned(q)'
    BY <1>0, <1>2 DEF Sound, Owned, Awaiting, Posted
  <2> QED
    BY <1>2, <2>1, <2>2, <2>3 DEF Sound, OnPage, Answers, Owned
<1>5. ASSUME NEW g \in Flow, g # f
      PROVE  Bystander(g)
  BY <1>0, <1>3, <1>5, FlowFacts DEF Bystander, Sound, OnPage, Waiting
<1>6. \A g \in Flow : Sound(g, flow[g])'
  BY <1>0, <1>3, <1>4, <1>5, BystandersStaySound DEF Sound, OnPage, Answers, Owned
<1>7. flow' = [g \in Flow |-> flow'[g]] /\ AutofillNeedsPage'
  BY <1>0, <1>3 DEF AutofillNeedsPage
<1> QED
  BY <1>0, <1>6, <1>7, BrowserSteps

\* The authenticator has a passkey for the account of the options, or one it had.
LEMMA CredentialsKeepInv ==
  ASSUME PasskeyInv, NEW f \in Flow, CredentialGiven(f), UNCHANGED <<row, rename>>
  PROVE  PasskeyInv'
<1>0. /\ flow[f].step = "prompt"
      /\ Waiting(f)
      /\ flow[f] \in FlowRecord
      /\ Sound(f, flow[f])
      /\ device \in [Credential -> Account \union {None}]
      /\ None \notin Credential
      /\ UNCHANGED <<supported, session>>
  BY StateFacts, FlowFacts DEF CredentialGiven, Waiting, Awaiting
<1>1. PICK c \in Credential, serialises \in SerialisationResults :
        /\ \/ /\ flow[f].operation = "Create"
              /\ device[c] = None
              /\ device' = [device EXCEPT ![c] = flow[f].entity]
           \/ /\ flow[f].operation = "Request"
              /\ UNCHANGED device
        /\ IF serialises THEN Submit(f, PostOf(f, c)) /\ UNCHANGED ceremony ELSE Fails(f)
  BY DEF CredentialGiven
<1>2. flow[f].granted
  BY <1>0 DEF Sound, Owned
<1>3. DeviceGrows
  BY <1>0, <1>1 DEF DeviceGrows, FlowRecord
<1>4. CASE serialises
  <2>1. PICK q : q = PostOf(f, c)
    OBVIOUS
  <2>2. /\ q \in FlowRecord
        /\ q.step = "posted"
        /\ q.page = flow[f].page
        /\ q.operation = flow[f].operation
        /\ q.token = flow[f].token
        /\ q.credential = c
        /\ c # None => q.sent = Fit(f)
        /\ c # None /\ ~q.disturbed => ~flow[f].disturbed
    BY <1>0, <2>1, PostedRecords
  <2>3. Submit(f, q) /\ UNCHANGED ceremony
    BY <1>1, <1>4, <2>1
  <2>4. ~q.disturbed => q.sent = "own"
    <3> SUFFICES ASSUME ~q.disturbed PROVE Fit(f) = "own"
      BY <1>0, <2>2
    <3>1. ceremony = [operation |-> flow[f].operation, flow |-> f]
      BY <1>0, <2>2 DEF Sound, Answers
    <3>2. ceremony # None
      <4>1. flow[f].operation # "none"
        BY <1>0 DEF Sound, OnPage, Waiting
      <4>2. ceremony \in Ceremony
        BY <1>0, <3>1, <4>1 DEF Ceremony, FlowRecord
      <4> QED
        BY <4>2, NoneIsNoCeremony
    <3> QED
      BY <3>1, <3>2 DEF Fit
  <2>5. q.operation = "Create" => q.token # None /\ device'[c] = q.token
    BY <1>0, <1>1, <1>2, <2>2 DEF Sound, Owned, Awaiting
  <2> QED
    BY <1>0, <1>3, <2>2, <2>3, <2>4, <2>5, WaitingFacts, SubmittedForms
<1>5. CASE ~serialises
  BY <1>0, <1>1, <1>3, <1>5, FailedFlows
<1> QED
  BY <1>4, <1>5

LEMMA BrowserKeepsInv == PasskeyInv /\ Browse => PasskeyInv'
<1> SUFFICES ASSUME PasskeyInv, Browse PROVE PasskeyInv'
  OBVIOUS
<1>0. UNCHANGED <<row, rename>>
  BY DEF Browse
<1>1. CASE SessionChanges
  BY <1>0, <1>1, SessionChangesKeepInv
<1>2. ASSUME NEW p \in Page, UserActs(p) \/ Settle(p)
      PROVE  PasskeyInv'
  BY <1>0, <1>2, TabsKeepInv, LeavingKeepsInv, NewFlowsKeepInv, UnsupportedKeepsInv
     DEF UserActs, Settle
<1>3. ASSUME NEW f \in Flow, ElementStep(f)
      PROVE  PasskeyInv'
  <2>1. CASE FlowFails(f)
    BY <1>0, <2>1, FailedFlows, SameDevice DEF FlowFails
  <2> QED
    BY <1>0, <1>3, <2>1, OptionsKeepInv, BodiesKeepInv, CredentialsKeepInv DEF ElementStep
<1> QED
  BY <1>1, <1>2, <1>3 DEF Browse

--------------------------------------------------------------------------------
(***************************************************************************)
(* The steps of the server                                                 *)
(***************************************************************************)

\* Storing a passkey for the account it was created for.
LEMMA StoredForOwner ==
  ASSUME PasskeyInv, NEW c \in Credential, NEW a \in Account, device[c] = a
  PROVE  /\ Stored(c, a) \in [Credential -> Account \union {None}]
         /\ \A d \in Credential : Stored(c, a)[d] # None => Stored(c, a)[d] = device[d]
  BY StateFacts DEF PasskeyInv, PasskeyIsForItsOwner, Stored

\* The rows change and the browser does not.
LEMMA RowSteps ==
  ASSUME PasskeyInv, UNCHANGED elementVars,
         row' \in [Credential -> Account \union {None}],
         \A d \in Credential : row'[d] # None => row'[d] = device[d],
         rename' \in [Request -> RenameRecord], RenamesOwn'
  PROVE  PasskeyInv'
<1>1. UNCHANGED <<supported, session, ceremony, device, page, flow>>
  BY DEF elementVars
<1>2. TypeOK' /\ AutofillNeedsPage'
  BY <1>1, StateFacts DEF TypeOK, ElementTypeOK, PasskeyInv, AutofillNeedsPage
<1>3. \A g \in Flow : Sound(g, flow[g])'
  BY <1>1 DEF PasskeyInv, Sound, OnPage, Answers, Owned
<1>4. PasskeyIsForItsOwner'
  BY <1>1 DEF PasskeyIsForItsOwner
<1> QED
  BY <1>2, <1>3, <1>4 DEF PasskeyInv

LEMMA AcceptingKeepsInv ==
  ASSUME PasskeyInv, NEW f \in Flow, AcceptCredential(f)
  PROVE  PasskeyInv'
<1> DEFINE c == flow[f].credential
<1>0. /\ session \in Account \union {None}
      /\ ceremony \in Ceremony \union {None}
      /\ page \in [Page -> PageRecord]
      /\ flow \in [Flow -> FlowRecord]
      /\ row \in [Credential -> Account \union {None}]
      /\ flow[f] \in FlowRecord
      /\ Sound(f, flow[f])
      /\ AutofillNeedsPage
      /\ DeviceGrows
      /\ UNCHANGED <<supported, session, ceremony, device, page, row, rename>>
      /\ flow[f].step = "posted" /\ c # None /\ TokenIsValid(f) /\ c \in Credential
  BY StateFacts, FlowFacts, SameDevice DEF PasskeyInv, AcceptCredential, FlowRecord
<1>1. PICK a \in Account :
        /\ device[c] = a
        /\ flow' = [flow EXCEPT ![f].step = "store", ![f].entity = a]
  <2>1. CASE flow[f].operation = "Request"
    BY <1>0, <2>1 DEF AcceptCredential, PasskeyInv, PasskeyIsForItsOwner
  <2>2. CASE flow[f].operation = "Create"
    <3>1. flow[f].as # None /\ flow[f].as \in Account /\ flow[f].token = flow[f].as
      BY <1>0, <2>2 DEF AcceptCredential, FlowRecord, TokenIsValid
    <3>2. device[c] = flow[f].token
      BY <1>0, <2>2 DEF Sound, Owned, Posted
    <3> QED
      BY <2>2, <3>1, <3>2 DEF AcceptCredential
  <2> QED
    BY <2>1, <2>2 DEF AcceptCredential
<1>2. PICK q : q = [flow[f] EXCEPT !.step = "store", !.entity = a]
  OBVIOUS
<1>3. /\ q \in FlowRecord
      /\ q.step = "store"
      /\ q.entity = a
      /\ q.page = flow[f].page
      /\ q.operation = flow[f].operation
      /\ q.token = flow[f].token
      /\ q.credential = c
      /\ q.sent = flow[f].sent
      /\ q.disturbed = flow[f].disturbed
  BY <1>0, <1>2 DEF FlowRecord, Posted
<1>4. flow' = [flow EXCEPT ![f] = q]
  BY <1>0, <1>1, <1>2
<1>5. Sound(f, q)'
  <2>1. OnPage(f, q)'
    BY <1>0, <1>3 DEF Sound, OnPage, Awaiting, Posted
  <2>2. Answers(f, q)'
    BY <1>0, <1>3 DEF Sound, Answers, Posted
  <2>3. a # None
    BY NoneIsNoPasskeyId
  <2>4. Owned(q)'
    BY <1>0, <1>1, <1>3, <2>3 DEF Sound, Owned, Awaiting, Posted
  <2> QED
    BY <1>3, <2>1, <2>2, <2>4 DEF Sound, OnPage, Answers, Owned
<1>6. ASSUME NEW g \in Flow, g # f
      PROVE  Bystander(g)
  BY <1>0, <1>4, <1>6, FlowFacts DEF Bystander, Sound, OnPage, Waiting
<1>7. \A g \in Flow : Sound(g, flow[g])'
  BY <1>0, <1>4, <1>5, <1>6, BystandersStaySound DEF Sound, OnPage, Answers, Owned
<1>8. flow' = [g \in Flow |-> flow'[g]] /\ AutofillNeedsPage'
  BY <1>0, <1>4 DEF AutofillNeedsPage
<1> QED
  BY <1>0, <1>7, <1>8, BrowserSteps

LEMMA HandlersKeepInv ==
  ASSUME PasskeyInv, NEW f \in Flow, Handle(f)
  PROVE  PasskeyInv'
<1>0. /\ session \in Account \union {None}
      /\ row \in [Credential -> Account \union {None}]
      /\ flow[f] \in FlowRecord
      /\ Sound(f, flow[f])
  BY StateFacts, FlowFacts
<1>1. CASE RefuseToken(f) \/ AnswerError(f) \/ NoCeremony(f) \/ RejectCredential(f)
  <2>1. PICK denied \in BOOLEAN, cleared \in BOOLEAN :
          AnswerPost(f, denied, cleared, session)
    BY <1>1 DEF RefuseToken, AnswerError, NoCeremony, RejectCredential
  <2>2. UNCHANGED <<supported, device, row, rename>>
    BY <1>1 DEF RefuseToken, AnswerError, NoCeremony, RejectCredential
  <2> QED
    BY <1>0, <2>1, <2>2, AnsweredPosts, SameDevice, BrowserSteps
<1>2. CASE StorePasskey(f)
  <2>1. PICK c : c = flow[f].credential
    OBVIOUS
  <2>2. PICK a : a = flow[f].entity
    OBVIOUS
  <2>3. c \in Credential /\ a \in Account /\ device[c] = a
    BY <1>0, <1>2, <2>1, <2>2 DEF StorePasskey, Sound, Owned, FlowRecord
  <2>4. UNCHANGED <<supported, device, rename>>
    BY <1>2 DEF StorePasskey
  <2>5. PICK user \in Account \union {None} : AnswerPost(f, FALSE, TRUE, user)
    BY <1>0, <1>2, <2>2, <2>3 DEF StorePasskey
  <2>6. row' \in {row, Stored(c, a)}
    BY <1>2, <2>1, <2>2 DEF StorePasskey
  <2>7. /\ row' \in [Credential -> Account \union {None}]
        /\ \A d \in Credential : row'[d] # None => row'[d] = device[d]
    BY <1>0, <2>3, <2>6, StoredForOwner DEF PasskeyInv, PasskeyIsForItsOwner
  <2>8. /\ session' \in Account \union {None}
        /\ ceremony' \in Ceremony \union {None}
        /\ page' \in [Page -> PageRecord]
        /\ AutofillNeedsPage'
        /\ flow' = [g \in Flow |-> flow'[g]]
        /\ \A g \in Flow : Sound(g, flow[g])'
    BY <2>4, <2>5, AnsweredPosts
  <2>9. TypeOK'
    <3>1. \A g \in Flow : flow'[g] \in FlowRecord
      BY <2>8 DEF Sound
    <3> QED
      BY <2>4, <2>7, <2>8, <3>1, StateFacts DEF TypeOK, ElementTypeOK
  <2>10. PasskeyIsForItsOwner' /\ RenamesOwn'
    BY <2>4, <2>7 DEF PasskeyIsForItsOwner, RenamesOwn, PasskeyInv
  <2> QED
    BY <2>8, <2>9, <2>10 DEF PasskeyInv
<1> QED
  BY <1>1, <1>2, AcceptingKeepsInv DEF Handle

LEMMA RowsKeepInv ==
  ASSUME PasskeyInv,
         \/ \E c \in Credential : DeletePasskey(c)
         \/ \E r \in Request : Rename(r)
  PROVE  PasskeyInv'
<1>0. /\ session \in Account \union {None}
      /\ row \in [Credential -> Account \union {None}]
      /\ rename \in [Request -> RenameRecord]
      /\ PasskeyIsForItsOwner
      /\ RenamesOwn
      /\ None \notin Credential
      /\ IdleRename \in RenameRecord /\ IdleRename.step = "idle"
  BY StateFacts DEF PasskeyInv, IdleRename, RenameRecord
<1>1. ASSUME NEW c \in Credential, DeletePasskey(c)
      PROVE  PasskeyInv'
  <2>1. UNCHANGED elementVars /\ UNCHANGED rename /\ row' = [row EXCEPT ![c] = None]
    BY <1>1 DEF DeletePasskey
  <2>2. RenamesOwn'
    BY <1>0, <2>1 DEF RenamesOwn, elementVars
  <2> QED
    BY <1>0, <2>1, <2>2, RowSteps DEF PasskeyIsForItsOwner
<1>2. ASSUME NEW r \in Request, NEW c \in Credential, RenameRead(r, c)
      PROVE  PasskeyInv'
  <2>1. PICK q : q = [step |-> "update", user |-> session, credential |-> c]
    OBVIOUS
  <2>2. /\ q \in RenameRecord
        /\ q.credential = c /\ q.user = session
        /\ session # None /\ row[c] = session
    BY <1>0, <1>2, <2>1 DEF RenameRead, RenameRecord
  <2>3. UNCHANGED elementVars /\ UNCHANGED row /\ rename' = [rename EXCEPT ![r] = q]
    BY <1>2, <2>1 DEF RenameRead
  <2>4. RenamesOwn'
    BY <1>0, <2>2, <2>3 DEF RenamesOwn, PasskeyIsForItsOwner, elementVars
  <2> QED
    BY <1>0, <2>2, <2>3, <2>4, RowSteps DEF PasskeyIsForItsOwner
<1>3. ASSUME NEW r \in Request, RenameUpdate(r)
      PROVE  PasskeyInv'
  <2>1. PICK c : c = rename[r].credential
    OBVIOUS
  <2>2. PICK a : a = rename[r].user
    OBVIOUS
  <2>3. rename[r].step = "update" =>
          c \in Credential /\ a \in Account /\ device[c] = a
    BY <1>0, <2>1, <2>2 DEF RenamesOwn, RenameRecord
  <2>4. /\ UNCHANGED elementVars
        /\ row' = row \/ (rename[r].step = "update" /\ row' = Stored(c, a))
    BY <1>3, <2>1, <2>2 DEF RenameUpdate
  <2>5. PICK q \in RenameRecord : q.step # "update" /\ rename' = [rename EXCEPT ![r] = q]
    BY <1>0, <1>3 DEF RenameUpdate
  <2>6. RenamesOwn'
    BY <1>0, <2>4, <2>5 DEF RenamesOwn, elementVars
  <2>7. /\ row' \in [Credential -> Account \union {None}]
        /\ \A d \in Credential : row'[d] # None => row'[d] = device[d]
    BY <1>0, <2>3, <2>4, StoredForOwner DEF PasskeyIsForItsOwner
  <2> QED
    BY <1>0, <2>4, <2>5, <2>6, <2>7, RowSteps
<1> QED
  BY <1>1, <1>2, <1>3 DEF Rename

LEMMA PasskeyInit == Init => PasskeyInv
<1> SUFFICES ASSUME Init PROVE PasskeyInv
  OBVIOUS
<1>1. ClosedPage \in PageRecord /\ ~ClosedPage.autofill
  <2>1. ClosedPage \in PageRecord
    BY ClosedPages
  <2> QED
    BY <2>1 DEF ClosedPage
<1>2. IdleRename \in RenameRecord /\ IdleRename.step = "idle"
  BY DEF IdleRename, RenameRecord
<1>3. \A f \in Flow : flow[f] = IdleFlow /\ Sound(f, flow[f]) /\ flow[f] \in FlowRecord
  BY IdleFlowIsSound DEF Init, Sound
<1>4. TypeOK /\ AutofillNeedsPage
  BY <1>1, <1>2, <1>3 DEF Init, TypeOK, ElementTypeOK, AutofillNeedsPage
<1> QED
  BY <1>2, <1>3, <1>4 DEF Init, PasskeyInv, PasskeyIsForItsOwner, RenamesOwn

LEMMA PasskeyNext == PasskeyInv /\ [Next]_vars => PasskeyInv'
<1> SUFFICES ASSUME PasskeyInv, [Next]_vars PROVE PasskeyInv'
  OBVIOUS
<1>1. CASE UNCHANGED vars
  BY <1>1, StateFacts, RowSteps DEF vars, PasskeyInv, PasskeyIsForItsOwner, RenamesOwn, elementVars
<1> QED
  BY <1>1, BrowserKeepsInv, HandlersKeepInv, RowsKeepInv DEF Next

LEMMA PasskeyInvariant == Spec => []PasskeyInv
  BY PasskeyInit, PasskeyNext, PTL DEF Spec

--------------------------------------------------------------------------------
(***************************************************************************)
(* The theorems                                                            *)
(***************************************************************************)

\* The states of all flows, tabs and passkeys keep their types, whatever options,
\* answers and posts cross (passkey-submit.js, Passkeys.cshtml.cs).
THEOREM PasskeyTypes == Spec => []TypeOK
<1>1. PasskeyInv => TypeOK
  BY DEF PasskeyInv
<1> QED
  BY <1>1, PasskeyInvariant, PTL

\* For any number of tabs and flows, the requests of one element never get in each
\* other's way: a credential it posts answers the ceremony in the cookie, unless
\* another tab or sign-in has replaced that (passkey-submit.js:90).
THEOREM CredentialsMeetCeremonies == Spec => []CredentialMeetsCeremony
<1>1. PasskeyInv => CredentialMeetsCeremony
  BY DEF PasskeyInv, CredentialMeetsCeremony, Sound, Answers, Posted
<1> QED
  BY <1>1, PasskeyInvariant, PTL

\* For any number of accounts, tabs and renames, a passkey is only ever stored for
\* the account its authenticator made it for, although OnPostAddPasskeyAsync does not
\* compare the account of the ceremony with that of the session
\* (Passkeys.cshtml.cs:125-132): the antiforgery token of the page does it.
THEOREM PasskeysAreForTheirOwners == Spec => []PasskeyIsForItsOwner
<1>1. PasskeyInv => PasskeyIsForItsOwner
  BY DEF PasskeyInv
<1> QED
  BY <1>1, PasskeyInvariant, PTL

\* What a record of the page says of a denial when only other fields change.
LEMMA SameDenial ==
  ASSUME PasskeyInv, NEW p \in Page, NEW g \in Page, NEW r,
         r.denied = page[g].denied, page' = [page EXCEPT ![g] = r]
  PROVE  page'[p].denied = page[p].denied
  BY StateFacts

\* Steps that begin, post or end flows deny nothing.
LEMMA FlowsDenyNothing ==
  ASSUME PasskeyInv, NEW p \in Page, NEW f \in Flow,
         \/ \E q \in Page : PressButton(q, f) \/ PressButtonUnsupported(q, f)
                             \/ AutofillAvailable(q, f)
         \/ ElementStep(f)
  PROVE  page'[p].denied = page[p].denied
<1>1. ASSUME NEW q \in Page, NEW conditional, NEW presses, StartFlow(q, f, conditional, presses)
      PROVE  page'[p].denied = page[p].denied
  <2>1. PICK r : r = [page[q] EXCEPT !.controller = f, !.presses = presses,
                                     !.autofill = page[q].autofill /\ ~conditional]
    OBVIOUS
  <2>2. r.denied = page[q].denied
    BY <2>1, StateFacts DEF PageRecord
  <2>3. page' = [page EXCEPT ![q] = r]
    BY <1>1, <2>1, StateFacts DEF StartFlow
  <2> QED
    BY <2>2, <2>3, SameDenial
<1>2. ASSUME NEW q \in Page, PressButtonUnsupported(q, f)
      PROVE  page'[p].denied = page[p].denied
  <2>1. PICK r : r = [page[q] EXCEPT !.state = "leaving", !.presses = page[q].presses + 1]
    OBVIOUS
  <2>2. r.denied = page[q].denied
    BY <2>1, StateFacts DEF PageRecord
  <2>3. page' = [page EXCEPT ![q] = r]
    BY <1>2, <2>1, StateFacts DEF PressButtonUnsupported
  <2> QED
    BY <2>2, <2>3, SameDenial
<1>3. ASSUME NEW post, post.page \in Page, Submit(f, post)
      PROVE  page'[p].denied = page[p].denied
  <2>1. PICK r : r = [page[post.page] EXCEPT !.state = "leaving", !.controller = None]
    OBVIOUS
  <2>2. r.denied = page[post.page].denied
    BY <1>3, <2>1, StateFacts DEF PageRecord
  <2>3. page' = [page EXCEPT ![post.page] = r]
    BY <1>3, <2>1, StateFacts DEF Submit
  <2> QED
    BY <1>3, <2>2, <2>3, SameDenial
<1>4. ASSUME Waiting(f), Fails(f)
      PROVE  page'[p].denied = page[p].denied
  <2>0. flow[f].page \in Page
    BY <1>4, WaitingFacts
  <2>1. CASE ~flow[f].conditional
    <3>1. PICK q : q = PostOf(f, None)
      OBVIOUS
    <3>2. q.page \in Page
      BY <1>4, <2>0, <3>1, PostedRecords
    <3> QED
      BY <1>3, <1>4, <2>1, <3>1, <3>2 DEF Fails
  <2>2. CASE flow[f].conditional
    <3>1. PICK r : r = [page[flow[f].page] EXCEPT !.controller = None]
      OBVIOUS
    <3>2. r.denied = page[flow[f].page].denied
      BY <2>0, <3>1, StateFacts DEF PageRecord
    <3>3. page' = [page EXCEPT ![flow[f].page] = r]
      BY <1>4, <2>0, <2>2, <3>1, StateFacts DEF Fails
    <3> QED
      BY <2>0, <3>2, <3>3, SameDenial
  <2> QED
    BY <2>1, <2>2
<1>5. CASE CredentialGiven(f)
  <2>1. PICK c \in Credential, serialises \in SerialisationResults :
          IF serialises THEN Submit(f, PostOf(f, c)) ELSE Fails(f)
    BY <1>5 DEF CredentialGiven
  <2>2. Waiting(f) /\ flow[f].page \in Page
    BY <1>5, WaitingFacts DEF CredentialGiven, Waiting, Awaiting
  <2>3. CASE serialises
    <3>1. PICK q : q = PostOf(f, c)
      OBVIOUS
    <3>2. q.page \in Page
      BY <2>2, <3>1, PostedRecords
    <3> QED
      BY <1>3, <2>1, <2>3, <3>1, <3>2
  <2> QED
    BY <1>4, <2>1, <2>2, <2>3
<1>6. CASE OptionsArrive(f) \/ BodyArrives(f)
  BY <1>6 DEF OptionsArrive, BodyArrives
<1> QED
  BY <1>1, <1>2, <1>4, <1>5, <1>6 DEF PressButton, AutofillAvailable, ElementStep, FlowFails

\* Of the server's answers only that to an error of the login page denies, and only
\* a flow or press that the user asked for posts one.
LEMMA AnswersDenyPressedPages ==
  ASSUME PasskeyInv, NEW p \in Page, NEW f \in Flow, Handle(f),
         page'[p].denied, ~page[p].denied
  PROVE  page[p].presses > 0
<1>0. /\ page \in [Page -> PageRecord]
      /\ flow[f].page \in Page \union {None}
      /\ OnPage(f, flow[f])
  BY StateFacts, FlowFacts DEF Sound
<1>1. ASSUME NEW denied, NEW cleared, NEW user, AnswerPost(f, denied, cleared, user)
      PROVE  flow[f].page = p /\ denied = TRUE
  <2>1. flow[f].page # None
    BY <1>1 DEF AnswerPost
  <2>2. PICK r : r = [ClosedPage EXCEPT !.denied = denied]
    OBVIOUS
  <2>3. r.denied = denied
    BY <2>2 DEF ClosedPage
  <2>4. page' = [page EXCEPT ![flow[f].page] = r]
    BY <1>1, <2>1, <2>2 DEF AnswerPost
  <2> QED
    BY <1>0, <2>1, <2>3, <2>4
<1>2. CASE AnswerError(f)
  <2>1. PICK denied : denied = (flow[f].operation = "Request")
    OBVIOUS
  <2>2. AnswerPost(f, denied, FALSE, session) /\ flow[f].step = "posted"
        /\ flow[f].credential = None
    BY <1>2, <2>1 DEF AnswerError
  <2>3. flow[f].page = p
    BY <1>1, <2>2
  <2> QED
    BY <1>0, <2>2, <2>3, StateFacts DEF OnPage, Posted
<1>3. CASE AcceptCredential(f)
  BY <1>3 DEF AcceptCredential
<1>4. CASE RefuseToken(f) \/ NoCeremony(f) \/ RejectCredential(f) \/ StorePasskey(f)
  BY <1>1, <1>4 DEF RefuseToken, NoCeremony, RejectCredential, StorePasskey
<1> QED
  BY <1>2, <1>3, <1>4 DEF Handle

\* For any number of tabs and flows, an authorization is only denied after the user
\* has pressed something on that login page: the errors of autofill, which nobody
\* asked for, never get there (passkey-submit.js:137, Login/Index.cshtml.cs:77).
THEOREM DenialsNeedUsers == Spec => DenialNeedsUser
<1> DEFINE Wanted == \A p \in Page :
             page'[p].denied /\ ~page[p].denied => page'[p].cancelled \/ page[p].presses > 0
<1>1. ASSUME PasskeyInv, [Next]_vars
      PROVE  [Wanted]_vars
  <2> SUFFICES ASSUME NEW p \in Page, page'[p].denied, ~page[p].denied, Next
               PROVE  page'[p].cancelled \/ page[p].presses > 0
    BY <1>1
  <2>0. page \in [Page -> PageRecord]
    BY <1>1, StateFacts
  <2>1. ASSUME NEW f \in Flow, Handle(f)
        PROVE  page[p].presses > 0
    BY <1>1, <2>1, AnswersDenyPressedPages
  <2>2. ASSUME NEW q \in Page, UserActs(q) \/ Settle(q)
        PROVE  page'[p].cancelled
    <3>1. CASE OpenPage(q)
      <4>1. PICK autofill : autofill = (supported /\ Operation(q) = "Request")
        OBVIOUS
      <4>2. PICK r : r = [ClosedPage EXCEPT !.state = "open", !.token = session,
                                            !.autofill = autofill]
        OBVIOUS
      <4>3. ~r.denied
        BY <4>2 DEF ClosedPage
      <4>4. page' = [page EXCEPT ![q] = r]
        BY <3>1, <4>1, <4>2 DEF OpenPage
      <4> QED
        BY <2>0, <4>3, <4>4
    <3>2. CASE LeavePage(q)
      <4>1. ~ClosedPage.denied
        BY DEF ClosedPage
      <4> QED
        BY <2>0, <3>2, <4>1 DEF LeavePage
    <3>3. CASE Cancel(q)
      <4>1. PICK denied : denied = (page[q].token = session)
        OBVIOUS
      <4>2. PICK r : r = [ClosedPage EXCEPT !.cancelled = TRUE, !.denied = denied]
        OBVIOUS
      <4>3. r.cancelled
        BY <4>2 DEF ClosedPage
      <4>4. page' = [page EXCEPT ![q] = r]
        BY <3>3, <4>1, <4>2 DEF Cancel
      <4> QED
        BY <2>0, <4>3, <4>4
    <3>4. CASE AutofillUnavailable(q)
      <4>1. PICK r : r = [page[q] EXCEPT !.autofill = FALSE]
        OBVIOUS
      <4>2. r.denied = page[q].denied
        BY <2>0, <4>1 DEF PageRecord
      <4>3. page' = [page EXCEPT ![q] = r]
        BY <3>4, <4>1 DEF AutofillUnavailable
      <4> QED
        BY <1>1, <4>2, <4>3, SameDenial
    <3> QED
      BY <1>1, <2>2, <3>1, <3>2, <3>3, <3>4, FlowsDenyNothing DEF UserActs, Settle
  <2>3. ASSUME NEW f \in Flow, ElementStep(f)
        PROVE  FALSE
    BY <1>1, <2>3, FlowsDenyNothing
  <2>4. ~SessionChanges
    BY DEF SessionChanges
  <2>5. ASSUME NEW r \in Request, Rename(r)
        PROVE  FALSE
    BY <2>5 DEF Rename, RenameRead, RenameUpdate, elementVars
  <2>6. ASSUME NEW c \in Credential, DeletePasskey(c)
        PROVE  FALSE
    BY <2>6 DEF DeletePasskey, elementVars
  <2> QED
    BY <2>1, <2>2, <2>3, <2>4, <2>5, <2>6 DEF Next, Browse
<1> QED
  BY <1>1, PasskeyInvariant, PTL DEF Spec, DenialNeedsUser

\* What is posted of a credential is its native JSON, in whatever its binary fields
\* are held (passkey-submit.js:105-125): ManualJsonsAreNative, which is about every
\* credential, at any time.
THEOREM PostedJsonsAreNative == Spec => []PostedJsonIsNative
<1>1. PostedJsonIsNative
  BY ManualJsonsAreNative DEF PostedJsonIsNative
<1> QED
  BY <1>1, PTL

================================================================================
