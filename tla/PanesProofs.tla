----------------------------- MODULE PanesProofs -----------------------------
(***************************************************************************)
(* Theorems about Composer, SendView, Screen and ThreadMarks, as the run   *)
(* of MCPanes has them.                                                    *)
(* Composer: what may still come back to the box, the mail of sends, edits *)
(* and the editor, was written for the chat it is named for (MailIsHome),  *)
(* and the sends waited for for the chat on screen; with it the words in   *)
(* the box, the edit, what the edit displaced and every draft are of their *)
(* own chats, but for what a late result carried into another (HomeInv).   *)
(* SendView: what the rows on screen still wait for is told by the         *)
(* commands under way, the events in the feed and those lost (SendInv).    *)
(* Screen: a jump's answer that is current is of the chat on screen        *)
(* (JumpsAre), and a forward that is armed is not counted among those sent *)
(* yet (Budget).  ThreadMarks: the lines on screen are laid one below      *)
(* another (Laid), those a drag keeps too (CacheLaid), and while the page  *)
(* of a chat is on its way as many messages are unread from the boundary   *)
(* on as are counted (ReadInv).                                            *)
(***************************************************************************)
EXTENDS MCPanes, FiniteSetTheorems, SequenceTheorems, TLAPS

(* A draft as chat c may have it.                                          *)
Home(d, c) == Belongs(d.text.of, c) /\ Belongs(d.reply, c)

MailIsHome == \A m \in mail : Home(m.draft, m.on) /\ (m.kind = "edit" => m.draft.text.of = m.on)

HomeInv ==
    /\ TypeOK
    /\ Home(InBox, chat)
    /\ Belongs(editing.chat, chat) /\ Home(editing.draft, chat)
    /\ \A c \in Chats : Home(drafts[c], c)
    /\ \A d \in inFlight : Home(d, chat)
    /\ MailIsHome

-----------------------------------------------------------------------------
(***************************************************************************)
(* Types.                                                                  *)
(***************************************************************************)
LEMMA Drafts ==
    /\ NoText \in Text /\ NoDraft \in Draft
    /\ \A c \in Chats : Says(c) \in Text /\ [NoDraft EXCEPT !.text = Says(c)] \in Draft
    /\ TypeOK => InBox \in Draft
  BY BoundsAssumption DEF NoText, Text, NoDraft, Draft, Says, TypeOK, InBox

LEMMA InitTypeOK == Init => TypeOK
<1> SUFFICES ASSUME Init PROVE TypeOK
  OBVIOUS
<1>1. NotEditing \in [chat : Chats \cup {NoChat}, draft : Draft]
  BY Drafts DEF NotEditing
<1>2. sent \in Seq(Text) /\ Len(sent) = 0
  BY DEF Init
<1>3. drafts \in [Chats -> Draft]
  BY Drafts DEF Init
<1>4. box \in Text
  BY Drafts DEF Init
<1>5. typed \in 0 .. MaxTexts /\ presses \in 0 .. MaxPresses /\ Len(sent) <= HistoryMax
  BY <1>2, BoundsAssumption DEF Init
<1>6. browse \in 0 .. Len(sent)
  BY <1>2 DEF Init
<1> QED
  BY <1>1, <1>2, <1>3, <1>4, <1>5, <1>6 DEF Init, TypeOK


Kind == {"sending", "refused", "dispatched", "awaited", "edit", "editor", "edited"}
Letter == [kind : Kind, on : Chats, draft : Draft]

(* What the actions read out of the state, and what they put into it.      *)
LEMMA Fields ==
  ASSUME TypeOK
  PROVE  /\ chat \in Chats /\ box \in Text /\ reply \in Chats \cup {NoChat}
         /\ InBox \in Draft /\ editing.draft \in Draft
         /\ drafts \in [Chats -> Draft] /\ sent \in Seq(Text) /\ mail \subseteq Letter
         /\ \A i \in 1 .. Len(sent) : [sent[i] EXCEPT !.of = chat] \in Text
         /\ \A kind \in Kind, d \in Draft : Mail(kind, d) \in Letter
         /\ \A m \in mail, kind \in Kind : [m EXCEPT !.kind = kind] \in Letter
<1>1. chat \in Chats /\ box \in Text /\ reply \in Chats \cup {NoChat} /\ mail \subseteq Letter
      /\ drafts \in [Chats -> Draft] /\ sent \in Seq(Text)
  BY DEF TypeOK, Letter, Kind
<1>2. InBox \in Draft
  BY Drafts
<1>3. editing.draft \in Draft
  BY DEF TypeOK
<1>4. \A i \in 1 .. Len(sent) : [sent[i] EXCEPT !.of = chat] \in Text
  <2> SUFFICES ASSUME NEW i \in 1 .. Len(sent) PROVE [sent[i] EXCEPT !.of = chat] \in Text
    OBVIOUS
  <2>1. sent[i] \in Text
    BY <1>1
  <2> QED  BY <1>1, <2>1 DEF Text
<1>5. \A kind \in Kind, d \in Draft : Mail(kind, d) \in Letter
  BY <1>1 DEF Mail, Letter
<1>6. \A m \in mail, kind \in Kind : [m EXCEPT !.kind = kind] \in Letter
  BY <1>1 DEF Letter
<1> QED
  BY <1>1, <1>2, <1>3, <1>4, <1>5, <1>6

(* The conjuncts a step of the composer can disturb.                       *)
LEMMA TypedAgain ==
  ASSUME TypeOK,
         chat' \in Chats, box' \in Text, reply' \in Chats \cup {NoChat},
         editing' \in [chat : Chats \cup {NoChat}, draft : Draft],
         drafts' \in [Chats -> Draft], inFlight' \subseteq Draft,
         sent' \in Seq(Text), Len(sent') <= HistoryMax, browse' \in 0 .. Len(sent'),
         paused' \in BOOLEAN, typed' \in 0 .. MaxTexts, presses' \in 0 .. MaxPresses,
         mail' \subseteq Letter, strays' \subseteq Chats \X Chats
  PROVE  TypeOK'
  BY DEF TypeOK, Letter, Kind

LEMMA NextTypeOK ==
  ASSUME TypeOK, [Next]_composerVars
  PROVE  TypeOK'
<1> USE DEF composerVars, pane
<1>a. /\ editing \in [chat : Chats \cup {NoChat}, draft : Draft]
      /\ inFlight \subseteq Draft /\ Len(sent) <= HistoryMax /\ browse \in 0 .. Len(sent)
      /\ paused \in BOOLEAN /\ typed \in 0 .. MaxTexts /\ presses \in 0 .. MaxPresses
      /\ strays \subseteq Chats \X Chats
  BY DEF TypeOK
<1>b. Press => presses' \in 0 .. MaxPresses
  BY <1>a, BoundsAssumption DEF Press
<1>c. typed < MaxTexts /\ typed' = typed + 1 => typed' \in 0 .. MaxTexts
  BY <1>a, BoundsAssumption
<1>d. \A d \in Draft : d.text \in Text /\ d.reply \in Chats \cup {NoChat}
  BY DEF Draft
<1>e. \A d \in Draft : Put(d) => box' \in Text /\ reply' \in Chats \cup {NoChat}
  BY <1>d DEF Put
<1>1. CASE Type
  <2>1. box' \in Text
    BY <1>1, <1>a, Fields, BoundsAssumption DEF Type, Text
  <2> QED  BY <1>1, <2>1, <1>a, <1>c, Fields, TypedAgain DEF Type
<1>2. CASE Erase
  BY <1>2, <1>a, <1>b, Fields, Drafts, TypedAgain DEF Erase
<1>3. CASE HandleSend
  <2>1. sent' \in Seq(Text) /\ Len(sent') <= HistoryMax
    <3>1. box \in Text /\ sent \in Seq(Text) /\ Len(sent) \in Nat
      BY Fields
    <3>2. Append(sent, box) \in Seq(Text) /\ Len(Append(sent, box)) = Len(sent) + 1
      BY <3>1
    <3>3. sent' = IF Len(Append(sent, box)) > HistoryMax
                  THEN Tail(Append(sent, box)) ELSE Append(sent, box)
      BY <1>3 DEF HandleSend
    <3>4. Tail(Append(sent, box)) \in Seq(Text) /\ Len(Tail(Append(sent, box))) = Len(sent)
      BY <3>1, <3>2
    <3> QED  BY <1>a, <3>1, <3>2, <3>3, <3>4, BoundsAssumption
  <2>2. mail' \subseteq Letter
    BY <1>3, Fields DEF HandleSend, Post, Kind
  <2>3. box' \in Text /\ reply' \in Chats \cup {NoChat}
    BY <1>3, <1>e, Drafts DEF HandleSend
  <2>4. browse' \in 0 .. Len(sent')
    BY <1>3, <2>1 DEF HandleSend
  <2> QED  BY <1>3, <2>1, <2>2, <2>3, <2>4, <1>a, <1>b, Fields, TypedAgain DEF HandleSend
<1>4. CASE RequestReply
  BY <1>4, <1>a, <1>b, Fields, TypedAgain DEF RequestReply
<1>5. CASE ArmEdit
  <2>1. mail' \subseteq Letter
    BY <1>5, Fields, Drafts DEF ArmEdit, Post, Kind
  <2> QED  BY <1>5, <2>1, <1>a, <1>b, Fields, TypedAgain DEF ArmEdit
<1>6. CASE EndEdit
  <2>1. editing' \in [chat : Chats \cup {NoChat}, draft : Draft]
    BY <1>6, Drafts DEF EndEdit, LeaveEdit, NotEditing
  <2>2. browse' \in 0 .. Len(sent')
    BY <1>6, Fields DEF EndEdit, LeaveEdit
  <2> QED  BY <1>6, <2>1, <2>2, <1>a, <1>b, <1>e, Fields, TypedAgain DEF EndEdit, LeaveEdit
<1>7. CASE RequestEditor
  <2>1. [NoDraft EXCEPT !.text = box] \in Draft
    BY Fields, Drafts DEF Draft
  <2>2. mail' \subseteq Letter
    BY <1>7, <2>1, Fields DEF RequestEditor, Post, Kind
  <2> QED  BY <1>7, <2>2, <1>a, <1>b, Fields, TypedAgain DEF RequestEditor
<1>8. CASE HistoryPrev
  <2>1. browse' \in 1 .. Len(sent)
    BY <1>8, <1>a, Fields DEF HistoryPrev
  <2>2. box' \in Text
    BY <1>8, <2>1, Fields DEF HistoryPrev
  <2>3. browse' \in 0 .. Len(sent')
    BY <1>8, <2>1, Fields DEF HistoryPrev
  <2> QED  BY <1>8, <2>2, <2>3, <1>a, <1>b, Fields, TypedAgain DEF HistoryPrev
<1>9. CASE HistoryNext
  <2>1. browse' \in 0 .. Len(sent) /\ (browse' # 0 => browse' \in 1 .. Len(sent))
    BY <1>9, <1>a, Fields DEF HistoryNext
  <2>2. box' \in Text
    BY <1>9, <2>1, Fields, Drafts DEF HistoryNext
  <2>3. browse' \in 0 .. Len(sent')
    BY <1>9, <2>1, Fields DEF HistoryNext
  <2> QED  BY <1>9, <2>2, <2>3, <1>a, <1>b, Fields, TypedAgain DEF HistoryNext
<1>10. ASSUME NEW c \in Chats, SwitchChat(c) PROVE TypeOK'
  <2>1. editing' \in [chat : Chats \cup {NoChat}, draft : Draft] /\ drafts' \in [Chats -> Draft]
    BY <1>10, <1>a, Fields, Drafts DEF SwitchChat, NotEditing
  <2>2. browse' \in 0 .. Len(sent')
    BY <1>10, <1>a, Fields DEF SwitchChat
  <2>3. box' \in Text /\ reply' \in Chats \cup {NoChat}
    BY <1>10, <1>e, Fields DEF SwitchChat
  <2> QED  BY <1>10, <2>1, <2>2, <2>3, <1>a, <1>b, Fields, TypedAgain DEF SwitchChat
<1>11. ASSUME NEW c \in Chats, ApplyServerDraft(c) PROVE TypeOK'
  <2>1. box' \in Text /\ drafts' \in [Chats -> Draft]
    BY <1>11, Fields, Drafts DEF ApplyServerDraft
  <2> QED  BY <1>11, <2>1, <1>a, <1>b, Fields, TypedAgain DEF ApplyServerDraft
<1>12. ASSUME NEW m \in mail,
              SendReturns(m) \/ HandleRefused(m) \/ HandleDispatched(m) \/ StartEdit(m)
              \/ OpenEditor(m) \/ EditorCloses(m) \/ ApplyEditorResult(m) \/ Swallow(m)
              \/ \E failed \in BOOLEAN : ApplyOutgoingState(m, failed)
       PROVE TypeOK'
  <2>a. m.on \in Chats /\ m.draft \in Draft
    BY Fields DEF Letter
  <2>c. Lands(m) => strays' \subseteq Chats \X Chats
    <3>1. {m.draft.text.of, m.draft.reply} \ {NoChat, chat} \subseteq Chats /\ chat \in Chats
      BY <2>a, <1>d, Fields DEF Text
    <3>2. (({m.draft.text.of, m.draft.reply} \ {NoChat, chat}) \X {chat}) \subseteq Chats \X Chats
      BY <3>1
    <3> QED  BY <3>2, <1>a DEF Lands
  <2>b. RestoreDraft(m.draft) =>
          box' \in Text /\ reply' \in Chats \cup {NoChat} /\ browse' \in 0 .. Len(sent)
    BY <2>a, <1>a, <1>d, Fields DEF RestoreDraft
  <2>1. CASE SendReturns(m)
    <3>1. mail' \subseteq Letter
      BY <2>1, Fields DEF SendReturns, Kind
    <3> QED  BY <2>1, <3>1, <1>a, Fields, TypedAgain DEF SendReturns
  <2>2. CASE HandleRefused(m)
    <3>1. mail' \subseteq Letter
      BY <2>2, Fields DEF HandleRefused
    <3> QED  BY <2>2, <3>1, <2>b, <2>c, <1>a, Fields, TypedAgain DEF HandleRefused
  <2>3. CASE HandleDispatched(m)
    <3>1. mail' \subseteq Letter
      BY <2>3, Fields DEF HandleDispatched, Kind
    <3>2. inFlight' \subseteq Draft
      BY <2>3, <2>a, <1>a DEF HandleDispatched
    <3> QED  BY <2>3, <3>1, <3>2, <2>c, <1>a, Fields, TypedAgain DEF HandleDispatched
  <2>4. CASE StartEdit(m)
    <3>1. mail' \subseteq Letter
      BY <2>4, Fields DEF StartEdit
    <3>2. editing' \in [chat : Chats \cup {NoChat}, draft : Draft]
      BY <2>4, <2>a, Fields DEF StartEdit
    <3>3. browse' \in 0 .. Len(sent') /\ box' \in Text /\ reply' \in Chats \cup {NoChat}
      BY <2>4, <2>a, <1>e, Fields DEF StartEdit
    <3> QED  BY <2>4, <3>1, <3>2, <3>3, <2>c, <1>a, Fields, TypedAgain DEF StartEdit
  <2>5. CASE OpenEditor(m)
    <3>1. mail' \subseteq Letter
      BY <2>5, Fields DEF OpenEditor
    <3> QED  BY <2>5, <3>1, <1>a, Fields, TypedAgain DEF OpenEditor
  <2>6. CASE EditorCloses(m)
    <3>a. m \in [kind : Kind, on : Chats, draft : Draft] /\ "edited" \in Kind
      BY Fields DEF Letter, Kind
    <3>1. ASSUME NEW d \in Draft PROVE [m EXCEPT !.kind = "edited", !.draft = d] \in Letter
      BY <3>a DEF Letter
    <3>2. ASSUME NEW t \in Text
          PROVE  [m EXCEPT !.kind = "edited", !.draft.text = t] \in Letter
      <4>1. [m.draft EXCEPT !.text = t] \in Draft
        BY <2>a DEF Draft
      <4>2. [m EXCEPT !.kind = "edited", !.draft.text = t]
              = [m EXCEPT !.kind = "edited", !.draft = [m.draft EXCEPT !.text = t]]
        BY <3>a
      <4> QED  BY <3>1, <4>1, <4>2
    <3>3. typed' \in 0 .. MaxTexts
      BY <2>6, <1>a, <1>c DEF EditorCloses
    <3>4. typed < MaxTexts => \A home \in Chats \cup {NoChat} :
                               [of |-> home, n |-> typed + 1] \in Text
      BY <1>a, BoundsAssumption DEF Text
    <3>5. (IF m.draft.text = NoText THEN m.on ELSE m.draft.text.of) \in Chats \cup {NoChat}
      BY <2>a, <1>d DEF Text
    <3>6. mail \subseteq Letter
      BY Fields
    <3>7. ASSUME NEW x, mail' = (mail \ {m}) \cup {x}, x \in Letter PROVE mail' \subseteq Letter
      BY <3>6, <3>7
    <3>8. mail' = mail \ {m} => mail' \subseteq Letter
      BY <3>6
    <3>9. mail' = (mail \ {m}) \cup {[m EXCEPT !.kind = "edited", !.draft = NoDraft]}
            => mail' \subseteq Letter
      BY <3>1, <3>7, Drafts
    <3>10. ASSUME typed < MaxTexts, NEW home \in Chats \cup {NoChat},
                  mail' = (mail \ {m}) \cup
                     {[m EXCEPT !.kind = "edited", !.draft.text = [of |-> home, n |-> typed + 1]]}
           PROVE  mail' \subseteq Letter
      BY <3>2, <3>4, <3>7, <3>10
    <3>11. mail' \subseteq Letter
      BY <2>6, <3>5, <3>8, <3>9, <3>10 DEF EditorCloses
    <3> QED  BY <2>6, <3>3, <3>11, <1>a, Fields, TypedAgain DEF EditorCloses
  <2>7. CASE ApplyEditorResult(m)
    <3>1. mail' \subseteq Letter /\ box' \in Text /\ browse' \in 0 .. Len(sent')
      BY <2>7, <2>a, <1>d, Fields DEF ApplyEditorResult
    <3> QED  BY <2>7, <3>1, <2>c, <1>a, Fields, TypedAgain DEF ApplyEditorResult
  <2>8. ASSUME NEW failed \in BOOLEAN, ApplyOutgoingState(m, failed) PROVE TypeOK'
    <3>1. mail' \subseteq Letter /\ inFlight' \subseteq Draft
      BY <2>8, <1>a, Fields DEF ApplyOutgoingState
    <3>2. box' \in Text /\ reply' \in Chats \cup {NoChat} /\ browse' \in 0 .. Len(sent)
      BY <2>8, <2>b, <1>a, Fields DEF ApplyOutgoingState
    <3> QED  BY <2>8, <3>1, <3>2, <1>a, Fields, TypedAgain DEF ApplyOutgoingState
  <2>9. CASE Swallow(m)
    BY <2>9, <1>a, Fields, TypedAgain DEF Swallow
  <2> QED
    BY <1>12, <2>1, <2>2, <2>3, <2>4, <2>5, <2>6, <2>7, <2>8, <2>9
<1>13. CASE UNCHANGED composerVars
  BY <1>13, <1>a, Fields, TypedAgain
<1> QED
  BY <1>1, <1>2, <1>3, <1>4, <1>5, <1>6, <1>7, <1>8, <1>9, <1>10, <1>11, <1>12, <1>13 DEF Next

-----------------------------------------------------------------------------
(***************************************************************************)
(* Words stay home.                                                        *)
(***************************************************************************)
LEMMA InitHomeInv == Init => HomeInv
<1> SUFFICES ASSUME Init PROVE HomeInv
  OBVIOUS
<1>1. \A c : Home(NoDraft, c) /\ Belongs(NoChat, c)
  BY DEF Home, Belongs, NoDraft, NoText
<1>2. InBox = NoDraft /\ editing = NotEditing
  BY DEF Init, InBox, NoDraft
<1>3. editing.chat = NoChat /\ editing.draft = NoDraft
  BY <1>2 DEF NotEditing
<1>4. \A c \in Chats : drafts[c] = NoDraft
  BY DEF Init
<1>5. MailIsHome /\ inFlight = {}
  BY DEF Init, MailIsHome
<1> QED
  BY <1>1, <1>2, <1>3, <1>4, <1>5, InitTypeOK DEF HomeInv

(* What a step may put anywhere: words that belong there afterwards.       *)
After(d, c) == \A w \in {d.text.of, d.reply} : w \in {NoChat, c} \/ <<w, c>> \in strays'

LEMMA HomeStays ==
  ASSUME strays \subseteq strays'
  PROVE  /\ \A d, c : Home(d, c) => After(d, c)
         /\ \A w, c : Belongs(w, c) => w \in {NoChat, c} \/ <<w, c>> \in strays'
  BY DEF Home, After, Belongs

(* A step that leaves chat and drafts alone keeps the words at home if     *)
(* what it puts in the box, waits for and adds to the mail is.             *)
LEMMA SameVisit ==
  ASSUME HomeInv, TypeOK', UNCHANGED <<chat, drafts>>, strays \subseteq strays',
         editing'.chat \in {NoChat, chat} \/ <<editing'.chat, chat>> \in strays',
         After(editing'.draft, chat), After(InBox', chat),
         \A d \in inFlight' \ inFlight : After(d, chat),
         \A m \in mail' \ mail :
            After(m.draft, m.on) /\ (m.kind = "edit" => m.draft.text.of = m.on)
  PROVE  HomeInv'
<1>1. \A c \in Chats : After(drafts[c], c)
  BY HomeStays DEF HomeInv
<1>2. \A d \in inFlight' : After(d, chat)
  BY HomeStays DEF HomeInv
<1>3. \A m \in mail' : After(m.draft, m.on) /\ (m.kind = "edit" => m.draft.text.of = m.on)
  BY HomeStays DEF HomeInv, MailIsHome
<1> QED
  BY <1>1, <1>2, <1>3 DEF HomeInv, MailIsHome, Home, Belongs, After, InBox

(* The answer of an earlier visit makes strays of what it carries.         *)
LEMMA Landed ==
  ASSUME HomeInv, NEW m \in mail, Lands(m)
  PROVE  strays \subseteq strays' /\ After(m.draft, chat)
<1>1. Home(m.draft, m.on)
  BY DEF HomeInv, MailIsHome
<1>2. CASE m.on = chat
  BY <1>1, <1>2, HomeStays DEF Lands
<1>3. CASE m.on # chat
  <2>1. strays' = strays \cup (({m.draft.text.of, m.draft.reply} \ {NoChat, chat}) \X {chat})
    BY <1>3 DEF Lands
  <2>2. ASSUME NEW w \in {m.draft.text.of, m.draft.reply}, w \notin {NoChat, chat}
        PROVE  <<w, chat>> \in strays'
    BY <2>1, <2>2
  <2> QED  BY <2>1, <2>2 DEF After
<1> QED  BY <1>2, <1>3

LEMMA NextHomeInv ==
  ASSUME HomeInv, [Next]_composerVars
  PROVE  HomeInv'
<1> USE DEF composerVars, pane
<1>a. TypeOK /\ TypeOK'
  BY NextTypeOK DEF HomeInv
<1>b. Belongs(box.of, chat) /\ Belongs(reply, chat) /\ Home(InBox, chat)
  BY DEF HomeInv, Home, InBox
<1>c. /\ \A c : Home(NoDraft, c)
      /\ \A c \in Chats : Home([NoDraft EXCEPT !.text = Says(c)], c)
      /\ Home([NoDraft EXCEPT !.text = box], chat)
  BY <1>b DEF Home, Belongs, NoDraft, NoText, Says
<1>d. \A d : Put(d) => (\A c : After(d, c) => After(InBox', c))
  BY DEF Put, InBox, After
<1>e. /\ Belongs(editing.chat, chat) /\ Home(editing.draft, chat)
      /\ \A c \in Chats : Home(drafts[c], c)
      /\ \A d \in inFlight : Home(d, chat)
      /\ \A m \in mail : Home(m.draft, m.on) /\ (m.kind = "edit" => m.draft.text.of = m.on)
  BY DEF HomeInv, MailIsHome
<1>f. NotEditing.chat = NoChat /\ NotEditing.draft = NoDraft
  BY DEF NotEditing
<1>g. \A kind, d : Mail(kind, d).on = chat /\ Mail(kind, d).draft = d /\ Mail(kind, d).kind = kind
  BY DEF Mail
<1>h. /\ UNCHANGED strays => strays \subseteq strays'
      /\ UNCHANGED strays => \A d, c : Home(d, c) => After(d, c)
      /\ UNCHANGED <<strays, chat, editing>> =>
           /\ editing'.chat \in {NoChat, chat} \/ <<editing'.chat, chat>> \in strays'
           /\ After(editing'.draft, chat)
      /\ UNCHANGED <<strays, box, reply>> => After(InBox', chat)
  BY <1>b, <1>e DEF Home, After, Belongs, InBox
<1>1. CASE Type
  <2>1. After(InBox', chat)
    BY <1>1, <1>b DEF Type, After, Belongs, InBox
  <2> QED  BY <1>1, <2>1, <1>a, <1>h, SameVisit DEF Type
<1>2. CASE Erase
  <2>1. After(InBox', chat)
    BY <1>2, <1>b DEF Erase, After, Belongs, InBox, NoText
  <2> QED  BY <1>2, <2>1, <1>a, <1>h, SameVisit DEF Erase
<1>3. CASE HandleSend
  <2>1. After(InBox', chat) /\ After(InBox, chat)
    BY <1>3, <1>b, <1>c, <1>d, <1>h DEF HandleSend
  <2>2. mail' \ mail \subseteq {Mail("sending", InBox)}
    BY <1>3 DEF HandleSend, Post
  <2> QED  BY <1>3, <2>1, <2>2, <1>a, <1>g, <1>h, SameVisit DEF HandleSend
<1>4. CASE RequestReply
  <2>1. After(InBox', chat)
    BY <1>4, <1>b DEF RequestReply, After, Belongs, InBox
  <2> QED  BY <1>4, <2>1, <1>a, <1>h, SameVisit DEF RequestReply
<1>5. CASE ArmEdit
  <2> DEFINE d == [NoDraft EXCEPT !.text = Says(chat)]
  <2>1. After(d, chat) /\ d.text.of = chat
    <3>1. Home(d, chat)
      BY <1>a, <1>c, Fields
    <3>2. UNCHANGED strays
      BY <1>5 DEF ArmEdit
    <3> QED  BY <3>1, <3>2, <1>h DEF NoDraft, Says
  <2>2. mail' \ mail \subseteq {Mail("edit", d)}
    BY <1>5 DEF ArmEdit, Post
  <2> HIDE DEF d
  <2> QED  BY <1>5, <2>1, <2>2, <1>a, <1>g, <1>h, SameVisit DEF ArmEdit
<1>6. CASE EndEdit
  <2>1. After(InBox', chat)
    BY <1>6, <1>d, <1>e, <1>h DEF EndEdit, LeaveEdit
  <2>2. editing'.chat = NoChat /\ After(editing'.draft, chat)
    BY <1>6, <1>c, <1>f, <1>h DEF EndEdit, LeaveEdit
  <2> QED  BY <1>6, <2>1, <2>2, <1>a, <1>h, SameVisit DEF EndEdit
<1>7. CASE RequestEditor
  <2> DEFINE d == [NoDraft EXCEPT !.text = box]
  <2>1. After(d, chat)
    <3>1. UNCHANGED strays
      BY <1>7 DEF RequestEditor
    <3> QED  BY <3>1, <1>c, <1>h
  <2>2. mail' \ mail \subseteq {Mail("editor", d)}
    BY <1>7 DEF RequestEditor, Post
  <2> HIDE DEF d
  <2> QED  BY <1>7, <2>1, <2>2, <1>a, <1>g, <1>h, SameVisit DEF RequestEditor
<1>8. CASE HistoryPrev \/ HistoryNext
  <2>1. Len(sent) \in Nat /\ browse \in 0 .. Len(sent) /\ \A i \in 1 .. Len(sent) : sent[i] \in Text
    BY <1>a, Fields DEF TypeOK
  <2>2. browse' # 0 => browse' \in 1 .. Len(sent)
    BY <1>8, <2>1 DEF HistoryPrev, HistoryNext
  <2>3. \A i \in 1 .. Len(sent) : [sent[i] EXCEPT !.of = chat].of = chat
    BY <2>1 DEF Text
  <2>4. NoText.of = NoChat
    BY DEF NoText
  <2>5. box'.of \in {NoChat, chat}
    <3>1. CASE HistoryPrev
      <4>1. browse' # 0
        BY <3>1, <2>1 DEF HistoryPrev
      <4> QED  BY <3>1, <4>1, <2>2, <2>3 DEF HistoryPrev
    <3>2. CASE HistoryNext
      BY <3>2, <2>2, <2>3, <2>4 DEF HistoryNext
    <3> QED  BY <1>8, <3>1, <3>2
  <2>6. After(InBox', chat)
    BY <1>8, <2>5, <1>b DEF HistoryPrev, HistoryNext, After, Belongs, InBox
  <2> QED  BY <1>8, <2>6, <1>a, <1>h, SameVisit DEF HistoryPrev, HistoryNext
<1>9. ASSUME NEW c \in Chats, SwitchChat(c) PROVE HomeInv'
  <2>0. UNCHANGED <<strays, mail>> /\ inFlight' = {} /\ chat' = c
    BY <1>9 DEF SwitchChat
  <2>1. CASE c = chat
    BY <1>9, <2>0, <2>1, <1>a, <1>h, SameVisit DEF SwitchChat
  <2>2. CASE c # chat
    <3>1. \A x \in mail' : After(x.draft, x.on) /\ (x.kind = "edit" => x.draft.text.of = x.on)
      BY <2>0, <1>e, <1>h
    <3>2. After(InBox', chat')
      BY <1>9, <2>0, <2>2, <1>d, <1>e, <1>h DEF SwitchChat
    <3>3. \A b \in Chats : After(drafts'[b], b)
      <4>1. Home(IF editing = NotEditing THEN InBox ELSE editing.draft, chat)
        BY <1>b, <1>e
      <4>2. \A b \in Chats : Home(drafts'[b], b)
        BY <1>9, <2>2, <4>1, <1>a, <1>e, Fields DEF SwitchChat
      <4> QED  BY <4>2, <2>0, <1>h
    <3>4. editing'.chat = NoChat /\ After(editing'.draft, chat')
      BY <1>9, <2>0, <2>2, <1>c, <1>f, <1>h DEF SwitchChat
    <3> QED
      BY <2>0, <3>1, <3>2, <3>3, <3>4, <1>a DEF HomeInv, MailIsHome, Home, Belongs, After, InBox
  <2> QED  BY <2>1, <2>2
<1>10. ASSUME NEW c \in Chats, ApplyServerDraft(c) PROVE HomeInv'
  <2>0. UNCHANGED <<strays, chat, editing, mail, inFlight, reply>>
    BY <1>10 DEF ApplyServerDraft
  <2>1. CASE c = chat
    <3>1. After(InBox', chat)
      BY <1>10, <2>0, <2>1, <1>b DEF ApplyServerDraft, Says, After, Belongs, InBox
    <3> QED  BY <1>10, <2>0, <2>1, <3>1, <1>a, <1>h, SameVisit DEF ApplyServerDraft
  <2>2. CASE c # chat
    <3>1. \A b \in Chats : Home(drafts'[b], b)
      BY <1>10, <2>2, <1>a, <1>c, <1>e, Fields DEF ApplyServerDraft
    <3>2. UNCHANGED box
      BY <1>10, <2>2 DEF ApplyServerDraft
    <3>3. \A b \in Chats : After(drafts'[b], b)
      BY <3>1, <2>0, <1>h
    <3>4. After(InBox', chat) /\ After(editing.draft, chat) /\ \A d \in inFlight : After(d, chat)
      BY <2>0, <3>2, <1>e, <1>h
    <3>5. \A x \in mail : After(x.draft, x.on)
      BY <2>0, <1>e, <1>h
    <3> QED
      BY <2>0, <3>3, <3>4, <3>5, <1>a, <1>e DEF HomeInv, MailIsHome, Home, Belongs, After, InBox
  <2> QED  BY <2>1, <2>2
<1>11. ASSUME NEW m \in mail,
              SendReturns(m) \/ HandleRefused(m) \/ HandleDispatched(m) \/ StartEdit(m)
              \/ OpenEditor(m) \/ EditorCloses(m) \/ ApplyEditorResult(m) \/ Swallow(m)
              \/ \E failed \in BOOLEAN : ApplyOutgoingState(m, failed)
       PROVE HomeInv'
  <2>a. /\ Home(m.draft, m.on) /\ m \in Letter /\ m.draft \in Draft /\ m.on \in Chats
        /\ m.kind = "edit" => m.draft.text.of = m.on
    BY <1>a, <1>e, Fields DEF Letter
  <2>b. ASSUME RestoreDraft(m.draft), strays \subseteq strays', After(m.draft, chat)
        PROVE  After(InBox', chat)
    BY <2>b, <1>b, HomeStays DEF RestoreDraft, After, InBox
  <2>c. ASSUME strays \subseteq strays', UNCHANGED <<box, reply>> PROVE After(InBox', chat)
    BY <2>c, <1>b, HomeStays DEF InBox
  <2>d. ASSUME strays \subseteq strays', UNCHANGED editing
        PROVE  /\ editing'.chat \in {NoChat, chat} \/ <<editing'.chat, chat>> \in strays'
               /\ After(editing'.draft, chat)
    BY <2>d, <1>e, HomeStays
  <2>e. \A kind : /\ [m EXCEPT !.kind = kind].on = m.on /\ [m EXCEPT !.kind = kind].draft = m.draft
                  /\ [m EXCEPT !.kind = kind].kind = kind
    BY <2>a DEF Letter
  <2>1. CASE SendReturns(m)
    <3>1. UNCHANGED strays /\ After(m.draft, m.on)
      BY <2>1, <2>a, <1>h DEF SendReturns
    <3>2. \A x \in mail' \ mail : After(x.draft, x.on) /\ x.kind # "edit"
      BY <2>1, <2>e, <3>1 DEF SendReturns
    <3> QED  BY <2>1, <3>1, <3>2, <1>a, <1>h, SameVisit DEF SendReturns
  <2>2. CASE HandleRefused(m)
    <3>1. strays \subseteq strays' /\ After(m.draft, chat)
      BY <2>2, Landed DEF HandleRefused
    <3> QED  BY <2>2, <2>b, <2>d, <3>1, <1>a, SameVisit DEF HandleRefused
  <2>3. CASE HandleDispatched(m)
    <3>1. strays \subseteq strays' /\ After(m.draft, chat)
      BY <2>3, Landed DEF HandleDispatched
    <3>2. \A x \in mail' \ mail : After(x.draft, x.on) /\ x.kind # "edit"
      <4>1. mail' \ mail \subseteq {[m EXCEPT !.kind = "awaited"]}
        BY <2>3 DEF HandleDispatched
      <4>2. After(m.draft, m.on)
        BY <2>a, <3>1, HomeStays
      <4> QED  BY <2>e, <4>1, <4>2
    <3>3. UNCHANGED <<chat, drafts, box, reply, editing>> /\ inFlight' \ inFlight \subseteq {m.draft}
      BY <2>3 DEF HandleDispatched
    <3> QED  BY <2>c, <2>d, <3>1, <3>2, <3>3, <1>a, SameVisit
  <2>4. CASE StartEdit(m)
    <3>1. strays \subseteq strays' /\ After(m.draft, chat) /\ m.draft.text.of = m.on
      BY <2>4, <2>a, Landed DEF StartEdit
    <3>2. After(InBox', chat)
      BY <2>4, <3>1, <1>d DEF StartEdit
    <3>3. editing'.chat = m.on /\ editing'.draft = InBox
      BY <2>4 DEF StartEdit
    <3>4. m.on \in {NoChat, chat} \/ <<m.on, chat>> \in strays'
      BY <3>1 DEF After
    <3>5. After(InBox, chat)
      BY <3>1, <1>b, HomeStays
    <3> QED  BY <2>4, <3>1, <3>2, <3>3, <3>4, <3>5, <1>a, SameVisit DEF StartEdit
  <2>5. CASE OpenEditor(m)
    BY <2>5, <1>a, <1>h, SameVisit DEF OpenEditor
  <2>6. CASE EditorCloses(m)
    <3>0. UNCHANGED <<pane, strays>>
      BY <2>6 DEF EditorCloses
    <3>1. ASSUME NEW d \in Draft
          PROVE  /\ [m EXCEPT !.kind = "edited", !.draft = d].on = m.on
                 /\ [m EXCEPT !.kind = "edited", !.draft = d].draft = d
                 /\ [m EXCEPT !.kind = "edited", !.draft = d].kind = "edited"
      BY <2>a DEF Letter
    <3>2. ASSUME NEW home, Belongs(home, m.on), NEW n
          PROVE  LET x == [m EXCEPT !.kind = "edited", !.draft.text = [of |-> home, n |-> n]]
                 IN  x.on = m.on /\ Home(x.draft, m.on) /\ x.kind = "edited"
      BY <2>a, <3>2 DEF Letter, Draft, Home
    <3>3. Belongs(IF m.draft.text = NoText THEN m.on ELSE m.draft.text.of, m.on)
      BY <2>a DEF Home, Belongs
    <3>4. ASSUME NEW x \in mail', x \notin mail
          PROVE  After(x.draft, x.on) /\ x.kind # "edit"
      <4>1. CASE x = [m EXCEPT !.kind = "edited", !.draft = NoDraft]
        BY <4>1, <3>0, <3>1, <1>c, <1>h, Drafts
      <4>2. CASE x # [m EXCEPT !.kind = "edited", !.draft = NoDraft]
        <5>1. PICK home : /\ Belongs(home, m.on)
                          /\ x = [m EXCEPT !.kind = "edited", !.draft.text = [of |-> home, n |-> typed + 1]]
          BY <2>6, <3>3, <3>4, <4>2 DEF EditorCloses
        <5>2. Home(x.draft, x.on) /\ x.kind = "edited"
          BY <5>1, <3>2
        <5> QED  BY <5>2, <3>0, <1>h
      <4> QED  BY <4>1, <4>2
    <3> QED  BY <3>0, <3>4, <1>a, <1>h, SameVisit
  <2>7. CASE ApplyEditorResult(m)
    <3>1. strays \subseteq strays' /\ After(m.draft, chat)
      BY <2>7, Landed DEF ApplyEditorResult
    <3>2. After(InBox', chat)
      BY <2>7, <3>1, <1>b, HomeStays DEF ApplyEditorResult, After, InBox
    <3> QED  BY <2>7, <3>1, <3>2, <2>d, <1>a, SameVisit DEF ApplyEditorResult
  <2>8. ASSUME NEW failed \in BOOLEAN, ApplyOutgoingState(m, failed) PROVE HomeInv'
    <3>1. UNCHANGED strays /\ (m.draft \in inFlight => After(m.draft, chat))
      BY <2>8, <1>e, <1>h DEF ApplyOutgoingState
    <3>2. After(InBox', chat)
      BY <2>8, <3>1, <2>b, <2>c, <1>h DEF ApplyOutgoingState
    <3> QED  BY <2>8, <3>1, <3>2, <1>a, <1>h, SameVisit DEF ApplyOutgoingState
  <2>9. CASE Swallow(m)
    BY <2>9, <1>a, <1>h, SameVisit DEF Swallow
  <2> QED
    BY <1>11, <2>1, <2>2, <2>3, <2>4, <2>5, <2>6, <2>7, <2>8, <2>9
<1>12. CASE UNCHANGED composerVars
  BY <1>12, <1>a, <1>h, SameVisit
<1> QED
  BY <1>1, <1>2, <1>3, <1>4, <1>5, <1>6, <1>7, <1>8, <1>9, <1>10, <1>11, <1>12 DEF Next

(* The words in the box, the message they answer or rewrite, every stashed *)
(* draft and every send waited for are of the chat they are shown under,   *)
(* wherever the user goes with whatever under way, unless the result of a  *)
(* send, an edit or the editor came after its visit and brought them       *)
(* (switchChat, restoreDraft, startEdit and applyEditorResult).            *)
THEOREM WordsStay == Spec => []WordsAtHome
<1>1. HomeInv => WordsAtHome
  BY DEF HomeInv, WordsAtHome, Home, InBox
<1> QED
  BY InitHomeInv, NextHomeInv, <1>1, PTL DEF Spec

-----------------------------------------------------------------------------
(***************************************************************************)
(* What is taken out of the box comes back.                                *)
(***************************************************************************)
LEMMA AlwaysTyped == Spec => []TypeOK
  BY InitTypeOK, NextTypeOK, PTL DEF Spec

LEMMA EditStep ==
  TypeOK /\ [Next]_composerVars => [EditGivesBack]_composerVars
<1> SUFFICES ASSUME TypeOK, Next, editing # NotEditing, editing' = NotEditing
             PROVE  editing.draft = IF chat' = chat THEN InBox' ELSE drafts'[chat]
  BY DEF EditGivesBack
<1>1. \A m \in mail : m.on # NoChat
  BY Fields, NoChatAssumption DEF Letter
<1>2. \A m \in mail : ~StartEdit(m)
  BY <1>1 DEF StartEdit, NotEditing
<1>3. EndEdit \/ \E c \in Chats : SwitchChat(c)
  BY <1>2 DEF Next, Type, Erase, HandleSend, RequestReply, ArmEdit, RequestEditor,
     HistoryPrev, HistoryNext, ApplyServerDraft, SendReturns, HandleRefused,
     HandleDispatched, OpenEditor, EditorCloses, ApplyEditorResult, Swallow,
     ApplyOutgoingState, pane
<1>4. CASE EndEdit
  <2>1. InBox' = [text |-> editing.draft.text, reply |-> editing.draft.reply] /\ chat' = chat
    BY <1>4 DEF EndEdit, LeaveEdit, Put, InBox
  <2> QED  BY <2>1, Fields DEF Draft
<1>5. ASSUME NEW c \in Chats, SwitchChat(c)
      PROVE  editing.draft = IF chat' = chat THEN InBox' ELSE drafts'[chat]
  BY <1>5, Fields DEF SwitchChat
<1> QED  BY <1>3, <1>4, <1>5

(* However edit mode ends, and whatever came in between, the draft it      *)
(* displaced is back with its reply pointer: in the box, or stashed with   *)
(* the chat that was left (cancelEdit, submitEdit, switchChat).            *)
THEOREM EditsGiveBack == Spec => [][EditGivesBack]_composerVars
  BY EditStep, AlwaysTyped, PTL DEF Spec

LEMMA DraftStep ==
  TypeOK /\ [Next]_composerVars => [DraftWaits]_composerVars
<1> SUFFICES ASSUME TypeOK, Next, NEW c \in Chats, c # chat, drafts[c].text # NoText
             PROVE  drafts[c] = IF chat' = c THEN InBox' ELSE drafts'[c]
  BY DEF DraftWaits
<1>1. \/ UNCHANGED <<chat, drafts>>
      \/ \E b \in Chats : SwitchChat(b) \/ ApplyServerDraft(b)
  BY DEF Next, Type, Erase, HandleSend, RequestReply, ArmEdit, RequestEditor, EndEdit,
     HistoryPrev, HistoryNext, SendReturns, HandleRefused, StartEdit,
     HandleDispatched, OpenEditor, EditorCloses, ApplyEditorResult, Swallow,
     ApplyOutgoingState, pane
<1>2. ASSUME NEW b \in Chats, SwitchChat(b)
      PROVE  drafts[c] = IF chat' = c THEN InBox' ELSE drafts'[c]
  <2>1. CASE chat' = c
    <3>1. InBox' = [text |-> drafts[c].text, reply |-> drafts[c].reply]
      BY <1>2, <2>1 DEF SwitchChat, Put, InBox
    <3> QED  BY <2>1, <3>1, Fields DEF Draft
  <2>2. CASE chat' # c
    BY <1>2, <2>2, Fields DEF SwitchChat
  <2> QED  BY <2>1, <2>2
<1>3. ASSUME NEW b \in Chats, ApplyServerDraft(b)
      PROVE  drafts[c] = IF chat' = c THEN InBox' ELSE drafts'[c]
  BY <1>3, Fields DEF ApplyServerDraft
<1> QED  BY <1>1, <1>2, <1>3

(* The draft of a chat that is not on screen is touched by nothing but its *)
(* own opening, which puts it into the box with its reply pointer; what    *)
(* the server holds does not replace it (applyServerDraft).                *)
THEOREM DraftsWait == Spec => [][DraftWaits]_composerVars
  BY DraftStep, AlwaysTyped, PTL DEF Spec

LEMMA AnswerStep ==
  TypeOK /\ [Next]_composerVars => [OnlyTheUserTakesWords]_composerVars
<1> SUFFICES ASSUME TypeOK, Next, NEW m \in mail, box # NoText,
                    m.kind \in {"refused", "awaited"}, m \notin mail'
             PROVE  box' = box
  BY DEF OnlyTheUserTakesWords
<1>0. PICK x \in mail :
         \/ SendReturns(x) \/ HandleRefused(x) \/ HandleDispatched(x) \/ StartEdit(x)
         \/ OpenEditor(x) \/ EditorCloses(x) \/ ApplyEditorResult(x) \/ Swallow(x)
         \/ \E failed \in BOOLEAN : ApplyOutgoingState(x, failed)
  BY DEF Next, Type, Erase, HandleSend, RequestReply, ArmEdit, RequestEditor, EndEdit,
     HistoryPrev, HistoryNext, SwitchChat, ApplyServerDraft, Post, pane
<1>1. HandleRefused(m) \/ Swallow(m) \/ \E failed \in BOOLEAN : ApplyOutgoingState(m, failed)
  <2>1. x = m
    BY <1>0 DEF SendReturns, HandleRefused, StartEdit, HandleDispatched, OpenEditor, EditorCloses,
       ApplyEditorResult, Swallow, ApplyOutgoingState
  <2> QED
    BY <1>0, <2>1 DEF SendReturns, StartEdit, HandleDispatched, OpenEditor, EditorCloses,
       ApplyEditorResult
<1>2. Swallow(m) => box' = box
  BY DEF Swallow, pane
<1>3. HandleRefused(m) => box' = box
  BY DEF HandleRefused, RestoreDraft
<1>4. (\E failed \in BOOLEAN : ApplyOutgoingState(m, failed)) => box' = box
  BY DEF ApplyOutgoingState, RestoreDraft
<1> QED  BY <1>1, <1>2, <1>3, <1>4

(* A refused or failed send gives its text back to an empty box only       *)
(* (restoreDraft): the answer takes no words away.                         *)
THEOREM AnswersTakeNothing == Spec => [][OnlyTheUserTakesWords]_composerVars
  BY AnswerStep, AlwaysTyped, PTL DEF Spec

-----------------------------------------------------------------------------
(***************************************************************************)
(* The screen.  A jump's result that is current is of the chat on screen   *)
(* (JumpsAre), and a forward that is armed has not been counted yet        *)
(* (Budget).                                                               *)
(***************************************************************************)
open == v3
pendingForward == v6
answers == v10
armed == v11
forwards == v12

Answer == [kind : Screen!Routed \cup Screen!Unrouted, chat : Chats \cup {NoChat}, fresh : BOOLEAN]
Addressed == {"selected", "picked", "username", "jump"}

Letters(B) ==
    /\ B \subseteq Answer /\ IsFiniteSet(B)
    /\ \A m \in B : m.kind \in Addressed => m.chat \in Chats

JumpsAre(B, c) == \A m \in B : m.kind \in Screen!Jumps /\ m.fresh => m.chat = c

Budget ==
    /\ IsFiniteSet(forwards)
    /\ Cardinality(forwards) + (IF pendingForward = Screen!Nothing THEN 0 ELSE 1) <= armed
    /\ pendingForward # Screen!Nothing => pendingForward.from \in Chats

ScreenInv ==
    /\ Screen!TypeOK
    /\ Screen!ComposerFollowsThread /\ Screen!ScrollIsForThisChat
    /\ Screen!ForwardedOnce /\ Screen!ReactionHasItsPicker
    /\ Letters(answers) /\ JumpsAre(answers, open) /\ Budget

LEMMA ScreenCounts ==
  ASSUME NEW S
  PROVE  Screen!Cardinality(S) = Cardinality(S)
BY DEF Screen!Cardinality, Cardinality

LEMMA LettersOutdate ==
  ASSUME NEW B, Letters(B), NEW kinds
  PROVE  LET O == Screen!Outdated(kinds, B)
         IN  /\ Letters(O) /\ Cardinality(O) <= Cardinality(B)
             /\ \A m \in B : m.kind \notin kinds => m \in O
             /\ \A x \in O : \E m \in B : /\ x.kind = m.kind /\ x.chat = m.chat
                                          /\ x.fresh \/ m.kind \notin kinds => x = m
                                          /\ x.fresh => m.kind \notin kinds
<1> DEFINE O == Screen!Outdated(kinds, B)
           f == [m \in B |-> IF m.kind \in kinds THEN [m EXCEPT !.fresh = FALSE] ELSE m]
<1>1. f \in Surjection(B, O)
  BY DEF Surjection, Screen!Outdated
<1>2. IsFiniteSet(O) /\ Cardinality(O) <= Cardinality(B)
  BY <1>1, FS_Surjection DEF Letters
<1>3. \A m \in B : m.kind \notin kinds => m \in O
  BY DEF Screen!Outdated
<1>4. ASSUME NEW x \in O
      PROVE  \E m \in B : /\ x.kind = m.kind /\ x.chat = m.chat /\ x \in Answer
                          /\ x.fresh \/ m.kind \notin kinds => x = m
                          /\ x.fresh => m.kind \notin kinds
  BY DEF Screen!Outdated, Letters, Answer
<1>5. Letters(O)
  BY <1>2, <1>4 DEF Letters
<1> HIDE DEF O
<1>6. /\ Letters(O) /\ Cardinality(O) <= Cardinality(B)
      /\ \A m \in B : m.kind \notin kinds => m \in O
      /\ \A x \in O : \E m \in B : /\ x.kind = m.kind /\ x.chat = m.chat
                                   /\ x.fresh \/ m.kind \notin kinds => x = m
                                   /\ x.fresh => m.kind \notin kinds
  BY <1>2, <1>3, <1>4, <1>5
<1> QED
  BY <1>6 DEF O

LEMMA LettersAdd ==
  ASSUME NEW B, Letters(B), NEW m \in Answer, m.kind \in Addressed => m.chat \in Chats
  PROVE  /\ Letters(B \cup {m})
         /\ Cardinality(B) \in Nat /\ Cardinality(B \cup {m}) \in Nat
         /\ Cardinality(B \cup {m}) <= Cardinality(B) + 1
<1>1. IsFiniteSet(B \cup {m})
  BY FS_AddElement DEF Letters
<1>2. Cardinality(B) \in Nat /\ Cardinality(B \cup {m}) \in Nat
  BY <1>1, FS_CardinalityType DEF Letters
<1>3. Cardinality(B \cup {m}) <= Cardinality(B) + 1
  <2>1. Cardinality(B \cup {m}) = IF m \in B THEN Cardinality(B) ELSE Cardinality(B) + 1
    BY FS_AddElement DEF Letters
  <2> QED  BY <1>2, <2>1
<1> QED
  BY <1>1, <1>2, <1>3 DEF Letters

LEMMA LettersTake ==
  ASSUME NEW B, Letters(B), NEW m \in B
  PROVE  /\ Letters(B \ {m})
         /\ Cardinality(B \ {m}) \in Nat /\ Cardinality(B) = Cardinality(B \ {m}) + 1
<1>1. IsFiniteSet(B \ {m}) /\ Cardinality(B \ {m}) = Cardinality(B) - 1
  BY FS_RemoveElement DEF Letters
<1>2. Cardinality(B \ {m}) \in Nat /\ Cardinality(B) \in Nat
  BY <1>1, FS_CardinalityType DEF Letters
<1> QED
  BY <1>1, <1>2 DEF Letters

LEMMA NewAnswer ==
  /\ \A k \in Screen!Routed \cup Screen!Unrouted, c \in Chats \cup {NoChat} :
        /\ Screen!Mail(k, c) \in Answer
        /\ Screen!Mail(k, c).kind = k /\ Screen!Mail(k, c).chat = c
  /\ Screen!Jumps \subseteq Screen!Routed /\ Screen!Loads = Screen!Unrouted
  /\ Addressed \subseteq Screen!Routed /\ Screen!Jumps \cap Addressed = {}
  /\ Screen!Loads \cap Addressed = {} /\ Screen!Jumps \cap Screen!Loads = {}
BY DEF Screen!Mail, Answer, Screen!Jumps, Screen!Loads, Screen!Routed, Screen!Unrouted, Addressed

(* A gesture that posts.                                                   *)
LEMMA PostKeeps ==
  ASSUME ScreenInv, NEW m \in Answer, Screen!Post(m), m.kind \notin Screen!Jumps,
         m.kind \in Addressed => m.chat \in Chats
  PROVE  /\ Letters(answers)' /\ Cardinality(answers') <= MaxAnswers
         /\ JumpsAre(answers', open) /\ answers' = answers \cup {m}
<1> USE DEF answers, open
<1>1. answers' = answers \cup {m} /\ Cardinality(answers) < MaxAnswers
  BY ScreenCounts DEF Screen!Post
<1>2. Letters(answers') /\ Cardinality(answers') <= MaxAnswers
  <2>1. Letters(answers)
    BY DEF ScreenInv
  <2>2. /\ Letters(answers \cup {m})
        /\ Cardinality(answers) \in Nat /\ Cardinality(answers \cup {m}) \in Nat
        /\ Cardinality(answers \cup {m}) <= Cardinality(answers) + 1
    BY <2>1, LettersAdd
  <2> QED
    BY <1>1, <2>2, ScreenAssumption
<1>3. JumpsAre(answers', open)
  BY <1>1 DEF JumpsAre, ScreenInv
<1> QED
  BY <1>1, <1>2, <1>3

(* The mail after a switch to chat c, which m asked for.                   *)
LEMMA SwitchKeeps ==
  ASSUME ScreenInv, NEW m \in answers, m.kind \notin Screen!Jumps \cup Screen!Loads, NEW c \in Chats,
         Screen!SwitchTo(c, answers \ {m})
  PROVE  /\ Letters(answers)' /\ Cardinality(answers') <= MaxAnswers
         /\ JumpsAre(answers', c)
         /\ m \notin answers'
         /\ \A x \in answers \ {m} : x.kind \notin Screen!Jumps \cup Screen!Loads => x \in answers'
<1> USE DEF answers, open
<1> DEFINE bag == answers \ {m}
           one == Screen!Outdated(Screen!Jumps, bag)
           two == Screen!Outdated(Screen!Loads, one)
<1>1. PICK k \in Screen!Loads : answers' = two \cup {Screen!Mail(k, c)}
  BY DEF Screen!SwitchTo, Screen!OpenChat
<1>2. Letters(bag) /\ Cardinality(bag) \in Nat /\ Cardinality(answers) = Cardinality(bag) + 1
  BY LettersTake DEF ScreenInv
<1>3. /\ Letters(one) /\ Cardinality(one) <= Cardinality(bag)
      /\ \A x \in bag : x.kind \notin Screen!Jumps => x \in one
      /\ \A x \in one : \E y \in bag : x.kind = y.kind /\ (x.kind \notin Screen!Jumps => x = y)
                                       /\ (x.fresh => y.kind \notin Screen!Jumps)
  <2> HIDE DEF bag
  <2> QED  BY <1>2, LettersOutdate
<1>4. /\ Letters(two) /\ Cardinality(two) <= Cardinality(one)
      /\ \A x \in one : x.kind \notin Screen!Loads => x \in two
      /\ \A x \in two : \E y \in one : x.kind = y.kind /\ (x.kind \notin Screen!Loads => x = y)
                                       /\ (x.fresh => x = y)
  <2> HIDE DEF one
  <2> QED  BY <1>3, LettersOutdate
<1> HIDE DEF one, two
<1>5. Screen!Mail(k, c) \in Answer /\ Screen!Mail(k, c).kind = k /\ k \notin Addressed
  BY NewAnswer
<1>6. /\ Letters(answers') /\ Cardinality(answers') \in Nat /\ Cardinality(two) \in Nat
      /\ Cardinality(answers') <= Cardinality(two) + 1
  BY <1>1, <1>4, <1>5, LettersAdd
<1>7. Cardinality(answers') <= MaxAnswers
  <2>1. Cardinality(one) \in Nat /\ Cardinality(answers) <= MaxAnswers
    BY <1>3, FS_CardinalityType, ScreenCounts DEF Letters, ScreenInv, Screen!TypeOK
  <2> QED
    BY <1>2, <1>3, <1>4, <1>6, <2>1, ScreenAssumption
<1>8. JumpsAre(answers', c)
  <2> SUFFICES ASSUME NEW x \in answers', x.kind \in Screen!Jumps, x.fresh PROVE FALSE
    BY DEF JumpsAre
  <2>1. x \in two
    BY <1>1, <1>5, NewAnswer
  <2> QED  BY <2>1, <1>3, <1>4
<1>9. m \notin answers'
  <2>1. m \notin one
    BY <1>3
  <2> QED  BY <1>1, <1>4, <1>5, <2>1
<1>10. \A x \in bag : x.kind \notin Screen!Jumps \cup Screen!Loads => x \in answers'
  BY <1>1, <1>3, <1>4
<1> QED
  BY <1>6, <1>7, <1>8, <1>9, <1>10

(* A generation begins: what was asked before is outdated, n is asked.     *)
LEMMA Reissue ==
  ASSUME NEW B, Letters(B), NEW kinds, NEW n \in Answer, n.kind \notin Addressed
  PROVE  LET O == Screen!Outdated(kinds, B) \cup {n}
         IN  /\ Letters(O) /\ Cardinality(B) \in Nat /\ Cardinality(O) \in Nat
             /\ Cardinality(O) <= Cardinality(B) + 1
             /\ \A y \in B : y.kind \notin kinds => y \in O
             /\ \A x \in O : x = n \/ \E y \in B : /\ x.kind = y.kind
                                                   /\ x.fresh \/ x.kind \notin kinds => x = y
                                                   /\ x.fresh => x.kind \notin kinds
<1> DEFINE out == Screen!Outdated(kinds, B)
<1>1. /\ Letters(out) /\ Cardinality(out) <= Cardinality(B)
      /\ \A y \in B : y.kind \notin kinds => y \in out
      /\ \A x \in out : \E y \in B : /\ x.kind = y.kind
                                     /\ x.fresh \/ x.kind \notin kinds => x = y
                                     /\ x.fresh => x.kind \notin kinds
  BY LettersOutdate
<1> HIDE DEF out
<1>2. /\ Letters(out \cup {n}) /\ Cardinality(out) \in Nat /\ Cardinality(out \cup {n}) \in Nat
      /\ Cardinality(out \cup {n}) <= Cardinality(out) + 1
  BY <1>1, LettersAdd
<1>3. Cardinality(B) \in Nat
  BY FS_CardinalityType DEF Letters
<1>4. Cardinality(out \cup {n}) <= Cardinality(B) + 1
  BY <1>1, <1>2, <1>3
<1>5. /\ Letters(out \cup {n}) /\ Cardinality(B) \in Nat /\ Cardinality(out \cup {n}) \in Nat
      /\ Cardinality(out \cup {n}) <= Cardinality(B) + 1
      /\ \A y \in B : y.kind \notin kinds => y \in out \cup {n}
      /\ \A x \in out \cup {n} :
            x = n \/ \E y \in B : /\ x.kind = y.kind
                                  /\ x.fresh \/ x.kind \notin kinds => x = y
                                  /\ x.fresh => x.kind \notin kinds
  BY <1>1, <1>2, <1>3, <1>4
<1> QED
  BY <1>5 DEF out

(* The mail is well formed for a thread on chat c.                         *)
MailOK(B, c) == Letters(B) /\ Cardinality(B) <= MaxAnswers /\ JumpsAre(B, c)

(* What is neither m nor an answer about a chat's window stays in the mail. *)
Kept(m) == \A x \in answers \ {m} : x.kind \notin Screen!Jumps \cup Screen!Loads => x \in answers'

LEMMA MailIsOK ==
  ScreenInv => MailOK(answers, open) /\ Cardinality(answers) \in Nat
BY FS_CardinalityType, ScreenCounts DEF ScreenInv, MailOK, Letters, Screen!TypeOK, answers

LEMMA TakeKeeps ==
  ASSUME ScreenInv, NEW m \in answers, answers' = answers \ {m}
  PROVE  MailOK(answers', open) /\ Kept(m) /\ m \notin answers'
<1>1. /\ Letters(answers \ {m}) /\ Cardinality(answers \ {m}) \in Nat
      /\ Cardinality(answers) = Cardinality(answers \ {m}) + 1
  BY LettersTake DEF ScreenInv
<1>2. Cardinality(answers \ {m}) <= MaxAnswers
  BY <1>1, MailIsOK, ScreenAssumption DEF MailOK
<1>3. JumpsAre(answers \ {m}, open)
  BY DEF JumpsAre, ScreenInv
<1> QED
  BY <1>1, <1>2, <1>3 DEF MailOK, Kept

LEMMA AnswerKeeps ==
  ASSUME ScreenInv, NEW m \in answers, NEW n \in Answer, n.kind \notin Screen!Jumps,
         n.kind \in Addressed => n.chat \in Chats, answers' = (answers \ {m}) \cup {n}
  PROVE  MailOK(answers', open) /\ Kept(m)
<1>1. /\ Letters(answers \ {m}) /\ Cardinality(answers \ {m}) \in Nat
      /\ Cardinality(answers) = Cardinality(answers \ {m}) + 1
  BY LettersTake DEF ScreenInv
<1>2. /\ Letters((answers \ {m}) \cup {n}) /\ Cardinality((answers \ {m}) \cup {n}) \in Nat
      /\ Cardinality((answers \ {m}) \cup {n}) <= Cardinality(answers \ {m}) + 1
  BY <1>1, LettersAdd
<1>3. Cardinality((answers \ {m}) \cup {n}) <= MaxAnswers
  BY <1>1, <1>2, MailIsOK, ScreenAssumption DEF MailOK
<1>4. JumpsAre((answers \ {m}) \cup {n}, open)
  BY DEF JumpsAre, ScreenInv
<1> QED
  BY <1>2, <1>3, <1>4 DEF MailOK, Kept

(* An answer m is taken and a new generation asks for n, of chat c.        *)
LEMMA ReissueKeeps ==
  ASSUME ScreenInv, NEW m \in answers, NEW c \in Chats \cup {NoChat},
         NEW k \in Screen!Jumps \cup Screen!Loads,
         NEW kinds \in SUBSET (Screen!Jumps \cup Screen!Loads),
         answers' = Screen!Outdated(kinds, answers \ {m}) \cup {Screen!Mail(k, c)},
         Screen!Jumps \subseteq kinds \/ c = open
  PROVE  MailOK(answers', c) /\ Kept(m) /\ (m.kind \notin Screen!Jumps \cup Screen!Loads => m \notin answers')
<1> DEFINE bag == answers \ {m}
           n == Screen!Mail(k, c)
<1>1. Letters(bag) /\ Cardinality(bag) \in Nat /\ Cardinality(answers) = Cardinality(bag) + 1
  BY LettersTake DEF ScreenInv
<1>2. n \in Answer /\ n.kind = k /\ n.chat = c /\ n.kind \notin Addressed
  BY NewAnswer
<1>3. JumpsAre(bag, open)
  BY DEF JumpsAre, ScreenInv
<1>4. bag \subseteq answers /\ m \notin bag /\ \A x \in answers \ {m} : x \in bag
  OBVIOUS
<1>5. answers' = Screen!Outdated(kinds, bag) \cup {n}
  OBVIOUS
<1> HIDE DEF bag, n
<1>6. /\ Letters(answers') /\ Cardinality(answers') \in Nat
      /\ Cardinality(answers') <= Cardinality(bag) + 1
      /\ \A y \in bag : y.kind \notin kinds => y \in answers'
      /\ \A x \in answers' : x = n \/ \E y \in bag : /\ x.kind = y.kind
                                                     /\ x.fresh \/ x.kind \notin kinds => x = y
                                                     /\ x.fresh => x.kind \notin kinds
  <2> DEFINE O == Screen!Outdated(kinds, bag) \cup {n}
  <2>1. /\ Letters(O) /\ Cardinality(O) \in Nat /\ Cardinality(O) <= Cardinality(bag) + 1
        /\ \A y \in bag : y.kind \notin kinds => y \in O
        /\ \A x \in O : x = n \/ \E y \in bag : /\ x.kind = y.kind
                                                /\ x.fresh \/ x.kind \notin kinds => x = y
                                                /\ x.fresh => x.kind \notin kinds
    BY <1>1, <1>2, Reissue
  <2>2. answers' = O
    BY <1>5
  <2> HIDE DEF O
  <2>3. Letters(answers')
    BY <2>1, <2>2
  <2>4. Cardinality(answers') \in Nat /\ Cardinality(answers') <= Cardinality(bag) + 1
    BY <2>1, <2>2
  <2>5. \A y \in bag : y.kind \notin kinds => y \in answers'
    BY <2>1, <2>2
  <2>6. \A x \in answers' : x = n \/ \E y \in bag : /\ x.kind = y.kind
                                                    /\ x.fresh \/ x.kind \notin kinds => x = y
                                                    /\ x.fresh => x.kind \notin kinds
    BY <2>1, <2>2
  <2> QED
    BY <2>3, <2>4, <2>5, <2>6
<1>7. Cardinality(answers') <= MaxAnswers
  BY <1>1, <1>6, MailIsOK, ScreenAssumption DEF MailOK
<1>8. JumpsAre(answers', c)
  BY <1>2, <1>3, <1>6 DEF JumpsAre
<1>9. Kept(m)
  BY <1>4, <1>6 DEF Kept
<1>10. ASSUME m.kind \notin Screen!Jumps \cup Screen!Loads, m \in answers' PROVE FALSE
  BY <1>2, <1>4, <1>6, <1>10
<1> QED
  BY <1>6, <1>7, <1>8, <1>9, <1>10 DEF MailOK

(* What the invariant says beside the mail.                                *)
Shape ==
    /\ v1 \in {"chats", "input", "thread"} /\ v2 \subseteq Screen!Overlays
    /\ {v3, v4} \subseteq Chats \cup {NoChat} /\ v5 \in BOOLEAN
    /\ v6 \in [from : Chats \cup {NoChat}, named : SUBSET Chats]
    /\ {v7, v8, v9} \subseteq Chats \cup {NoChat} /\ v11 \in 0 .. MaxForwards
    /\ v12 \subseteq [from : Chats, to : Chats, named : BOOLEAN]
    /\ v4 = v3 /\ v9 \in {NoChat, v3}

OnTheirWay ==
    /\ Budget /\ \A f \in forwards : f.from # f.to

LEMMA Apart ==
  ScreenInv => Shape /\ OnTheirWay /\ MailOK(answers, open) /\ Screen!ReactionHasItsPicker
<1> SUFFICES ASSUME ScreenInv
             PROVE  Shape /\ OnTheirWay /\ MailOK(answers, open) /\ Screen!ReactionHasItsPicker
  OBVIOUS
<1>1. Shape
  BY DEF ScreenInv, Shape, Screen!TypeOK, Screen!ComposerFollowsThread, Screen!ScrollIsForThisChat
<1>2. OnTheirWay
  BY DEF ScreenInv, OnTheirWay, Screen!ForwardedOnce, forwards
<1> QED
  BY <1>1, <1>2, MailIsOK DEF ScreenInv

LEMMA Together ==
  ASSUME Shape', OnTheirWay', MailOK(answers', open'), Screen!ReactionHasItsPicker'
  PROVE  ScreenInv'
<1>1. Cardinality(forwards') <= armed'
  <2>1. Cardinality(forwards') \in Nat /\ armed' \in Nat
    BY FS_CardinalityType DEF OnTheirWay, Budget, Shape, armed
  <2> QED
    BY <2>1 DEF OnTheirWay, Budget
<1>2. Screen!TypeOK'
  BY ScreenCounts DEF Screen!TypeOK, Shape, MailOK, Letters, Answer, answers
<1>3. Screen!ComposerFollowsThread' /\ Screen!ScrollIsForThisChat'
  BY DEF Screen!ComposerFollowsThread, Screen!ScrollIsForThisChat, Shape
<1>4. Screen!ForwardedOnce'
  BY <1>1, ScreenCounts DEF Screen!ForwardedOnce, OnTheirWay, forwards, armed
<1> QED
  BY <1>2, <1>3, <1>4 DEF ScreenInv, MailOK, OnTheirWay

(* A pick with a forward pending sends it, once, or not back where it is from. *)
LEMMA PickSends ==
  ASSUME Shape, OnTheirWay, NEW c \in Chats, pendingForward # Screen!Nothing,
         Screen!ForwardPicked(c), UNCHANGED v11
  PROVE  /\ OnTheirWay' /\ v6' = Screen!Nothing
         /\ v12' \subseteq [from : Chats, to : Chats, named : BOOLEAN]
<1> DEFINE f == [from |-> v6.from, to |-> c, named |-> c \in v6.named]
<1>1. /\ v6' = Screen!Nothing
      /\ v12' = IF c = v6.from THEN v12 ELSE v12 \cup {f}
  BY DEF Screen!ForwardPicked
<1>2. v6.from \in Chats
  BY DEF OnTheirWay, Budget, pendingForward
<1>3. f \in [from : Chats, to : Chats, named : BOOLEAN] /\ f.from = v6.from /\ f.to = c
  BY <1>2
<1> HIDE DEF f
<1>4. IsFiniteSet(v12) /\ Cardinality(v12) + 1 <= v11 /\ Cardinality(v12) \in Nat /\ v11 \in Nat
  BY FS_CardinalityType DEF OnTheirWay, Budget, Shape, forwards, armed
<1>5. IsFiniteSet(v12') /\ Cardinality(v12') <= v11 /\ Cardinality(v12') \in Nat
  <2>1. CASE c = v6.from
    BY <1>1, <1>4, <2>1
  <2>2. CASE c # v6.from
    <3>1. /\ IsFiniteSet(v12 \cup {f})
          /\ Cardinality(v12 \cup {f}) = IF f \in v12 THEN Cardinality(v12) ELSE Cardinality(v12) + 1
      BY <1>4, FS_AddElement
    <3> QED
      BY <1>1, <1>4, <2>2, <3>1
  <2> QED  BY <2>1, <2>2
<1>6. v12' \subseteq [from : Chats, to : Chats, named : BOOLEAN]
  BY <1>1, <1>3 DEF Shape
<1>7. \A g \in v12' : g.from # g.to
  BY <1>1, <1>3 DEF OnTheirWay, forwards
<1>8. Budget'
  BY <1>1, <1>5, <1>4 DEF Budget, forwards, armed, pendingForward
<1> QED
  BY <1>1, <1>6, <1>7, <1>8 DEF OnTheirWay, forwards

LEMMA ForwardsStay ==
  ASSUME OnTheirWay, UNCHANGED <<v6, v11, v12>>
  PROVE  OnTheirWay'
BY DEF OnTheirWay, Budget, forwards, armed, pendingForward

LEMMA ForwardDropped ==
  ASSUME Shape, OnTheirWay, v6' = Screen!Nothing, UNCHANGED <<v11, v12>>
  PROVE  OnTheirWay'
<1>1. Cardinality(v12) \in Nat /\ v11 \in Nat
  BY FS_CardinalityType DEF OnTheirWay, Budget, Shape, forwards
<1> QED
  BY <1>1 DEF OnTheirWay, Budget, forwards, armed, pendingForward

(* The picker's answer is still to come.                                   *)
LEMMA PickerStays ==
  ASSUME ScreenInv, NEW m \in answers, Kept(m), "emoji" \in v2 => "emoji" \in v2',
         m.kind \notin {"emojiPicked", "emojiClosed"}, UNCHANGED v8
  PROVE  Screen!ReactionHasItsPicker'
BY DEF ScreenInv, Kept, Screen!ReactionHasItsPicker, Screen!Jumps, Screen!Loads, answers

-----------------------------------------------------------------------------
(* Update.                                                                 *)
LEMMA SwitchMoves ==
  ASSUME ScreenInv, NEW m \in answers, m.kind \in {"selected", "picked", "resolved"},
         NEW c \in Chats, Screen!SwitchTo(c, answers \ {m})
  PROVE  /\ MailOK(answers', open') /\ Kept(m) /\ m \notin answers'
         /\ v3' = c /\ v4' = c /\ v9' = NoChat /\ v5' = TRUE
<1>1. m.kind \notin Screen!Jumps \cup Screen!Loads
  BY DEF Screen!Jumps, Screen!Loads
<1>2. /\ Letters(answers)' /\ Cardinality(answers') <= MaxAnswers
      /\ JumpsAre(answers', c) /\ m \notin answers'
      /\ \A x \in answers \ {m} : x.kind \notin Screen!Jumps \cup Screen!Loads => x \in answers'
  BY <1>1, SwitchKeeps
<1>3. v3' = c /\ v4' = c /\ v9' = NoChat /\ v5' = TRUE
  BY DEF Screen!SwitchTo
<1> QED
  BY <1>2, <1>3 DEF MailOK, Kept, open

(* What a handler of one answer m preserves, and when it moves the thread. *)
Handled(m) ==
    /\ Shape' /\ OnTheirWay' /\ MailOK(answers', open') /\ Screen!ReactionHasItsPicker'
    /\ v3' # v3 => /\ m \notin answers' /\ v3' = m.chat
                   /\ m.kind \in {"selected", "picked", "resolved", "jump"}

LEMMA SelectedHandled ==
  ASSUME ScreenInv, NEW m \in answers, Screen!HandleChatSelected(m, answers \ {m})
  PROVE  Handled(m)
<1>1. /\ m.kind = "selected" /\ Screen!SwitchTo(m.chat, answers \ {m})
      /\ v1' = "input" /\ UNCHANGED <<v2, v6, v7, v8, v11, v12>>
  BY DEF Screen!HandleChatSelected, Screen!pending, Screen!counts
<1>2. m.chat \in Chats
  BY <1>1 DEF ScreenInv, Letters, Addressed
<1>3. /\ MailOK(answers', open') /\ Kept(m) /\ m \notin answers'
      /\ v3' = m.chat /\ v4' = m.chat /\ v9' = NoChat /\ v5' = TRUE
  BY <1>1, <1>2, SwitchMoves
<1>4. Shape'
  BY <1>1, <1>2, <1>3, Apart DEF Shape
<1>5. OnTheirWay'
  BY <1>1, Apart, ForwardsStay
<1>6. Screen!ReactionHasItsPicker'
  BY <1>1, <1>3, PickerStays
<1> QED
  BY <1>1, <1>3, <1>4, <1>5, <1>6 DEF Handled

LEMMA PaletteHandled ==
  ASSUME ScreenInv, NEW m \in answers, m.kind \in {"picked", "resolved"}, m.chat \in Chats,
         Screen!PaletteSelected(m.chat, answers \ {m})
  PROVE  Handled(m)
<1> USE DEF Screen!PaletteSelected, Screen!panes
<1>1. v2' = v2 \ {"palette"} /\ UNCHANGED <<v7, v8, v11>>
  OBVIOUS
<1>2. CASE pendingForward # Screen!Nothing /\ Screen!ForwardPicked(m.chat) /\ answers' = answers \ {m}
           /\ UNCHANGED <<v1, v3, v4, v5, v9>>
  <2>1. /\ OnTheirWay' /\ v6' = Screen!Nothing
        /\ v12' \subseteq [from : Chats, to : Chats, named : BOOLEAN]
    BY <1>1, <1>2, Apart, PickSends
  <2>2. MailOK(answers', open') /\ Kept(m)
    BY <1>2, TakeKeeps DEF open
  <2>3. Shape'
    BY <1>1, <1>2, <2>1, Apart DEF Shape, Screen!Nothing
  <2>4. Screen!ReactionHasItsPicker'
    BY <1>1, <2>2, PickerStays
  <2> QED  BY <1>2, <2>1, <2>2, <2>3, <2>4 DEF Handled
<1>3. CASE v6 = Screen!Nothing /\ Screen!SwitchTo(m.chat, answers \ {m})
           /\ v1' = "input" /\ UNCHANGED <<v6, v12>>
  <2>1. /\ MailOK(answers', open') /\ Kept(m) /\ m \notin answers'
        /\ v3' = m.chat /\ v4' = m.chat /\ v9' = NoChat /\ v5' = TRUE
    BY <1>3, SwitchMoves
  <2>2. OnTheirWay'
    BY <1>1, <1>3, Apart, ForwardsStay
  <2>3. Shape'
    BY <1>1, <1>3, <2>1, Apart DEF Shape
  <2>4. Screen!ReactionHasItsPicker'
    BY <1>1, <2>1, PickerStays
  <2> QED  BY <2>1, <2>2, <2>3, <2>4 DEF Handled
<1> QED
  BY <1>2, <1>3 DEF answers, pendingForward

LEMMA UsernameHandled ==
  ASSUME ScreenInv, NEW m \in answers, Screen!HandleOpenUsername(m, answers \ {m})
  PROVE  Handled(m)
<1>1. /\ m.kind = "username" /\ v2' = v2 \ {"palette"}
      /\ UNCHANGED <<v1, v3, v4, v5, v6, v7, v8, v9, v11, v12>>
  BY DEF Screen!HandleOpenUsername, Screen!panes, Screen!pending, Screen!counts
<1>2. m.chat \in Chats \cup {NoChat}
  BY DEF ScreenInv, Letters, Answer
<1>3. PICK c \in Chats \cup {NoChat} : answers' = (answers \ {m}) \cup {Screen!Mail("resolved", c)}
  BY <1>2 DEF Screen!HandleOpenUsername, answers
<1>4. MailOK(answers', open') /\ Kept(m)
  <2>1. "resolved" \in Screen!Routed /\ "resolved" \notin Screen!Jumps /\ "resolved" \notin Addressed
    BY DEF Screen!Routed, Screen!Jumps, Addressed
  <2>2. /\ Screen!Mail("resolved", c) \in Answer
        /\ Screen!Mail("resolved", c).kind = "resolved"
    BY <2>1, NewAnswer
  <2> QED
    BY <1>1, <1>3, <2>1, <2>2, AnswerKeeps DEF open
<1>5. Shape' /\ OnTheirWay'
  BY <1>1, Apart, ForwardsStay DEF Shape
<1>6. Screen!ReactionHasItsPicker'
  BY <1>1, <1>4, PickerStays
<1> QED
  BY <1>1, <1>4, <1>5, <1>6 DEF Handled

LEMMA ResolvedHandled ==
  ASSUME ScreenInv, NEW m \in answers, Screen!ApplyUsernameResolved(m, answers \ {m})
  PROVE  Handled(m)
<1>1. m.kind = "resolved"
  BY DEF Screen!ApplyUsernameResolved
<1>2. CASE m.chat # NoChat /\ Screen!PaletteSelected(m.chat, answers \ {m})
  <2>1. m.chat \in Chats
    BY <1>2 DEF ScreenInv, Letters, Answer
  <2> QED  BY <1>1, <1>2, <2>1, PaletteHandled
<1>3. CASE answers' = answers \ {m} /\ UNCHANGED <<v1, v2, v3, v4, v5, v6, v7, v8, v9, v11, v12>>
  <2>1. MailOK(answers', open') /\ Kept(m)
    BY <1>3, TakeKeeps DEF open
  <2>2. Shape' /\ OnTheirWay'
    BY <1>3, Apart, ForwardsStay DEF Shape
  <2>3. Screen!ReactionHasItsPicker'
    BY <1>1, <1>3, <2>1, PickerStays
  <2> QED  BY <1>3, <2>1, <2>2, <2>3 DEF Handled
<1> QED
  BY <1>2, <1>3 DEF Screen!ApplyUsernameResolved, Screen!panes, Screen!pending, Screen!counts, answers

(* Handlers that take m and touch the panes' overlays or the focus alone.  *)
LEMMA ToggleHandled ==
  ASSUME ScreenInv, NEW m \in answers,
         \/ /\ m.kind \in {"helpToggled", "paletteOpened", "searchOpened", "attachOpened",
                           "emojiOpened", "searchClosed", "attachClosed"}
            /\ Screen!OverlayToggled(m, answers \ {m})
         \/ Screen!FocusCycled(m, answers \ {m})
         \/ Screen!Broadcast(m, answers \ {m})
  PROVE  Handled(m)
<1> USE DEF Screen!panes, Screen!pending, Screen!counts, answers
<1>1. /\ answers' = answers \ {m} /\ UNCHANGED <<v3, v4, v6, v7, v8, v11, v12>>
      /\ m.kind \notin {"emojiPicked", "emojiClosed"}
  BY DEF Screen!OverlayToggled, Screen!FocusCycled, Screen!Broadcast, Screen!Unrouted
<1>2. v2' \subseteq Screen!Overlays /\ ("emoji" \in v2 => "emoji" \in v2')
  <2>1. CASE /\ m.kind \in {"helpToggled", "paletteOpened", "searchOpened", "attachOpened",
                            "emojiOpened", "searchClosed", "attachClosed"}
             /\ Screen!OverlayToggled(m, answers \ {m})
    BY <2>1, Apart DEF Screen!OverlayToggled, Screen!Overlays, Shape
  <2>2. CASE Screen!FocusCycled(m, answers \ {m}) \/ Screen!Broadcast(m, answers \ {m})
    BY <2>2, Apart DEF Screen!FocusCycled, Screen!Broadcast, Shape
  <2> QED  BY <2>1, <2>2
<1>3. v1' \in {"chats", "input", "thread"}
  <2>1. CASE Screen!FocusCycled(m, answers \ {m})
    <3>1. PICK i \in 1 .. 3, step \in {1, 2} : v1' = Screen!Panes[((i - 1 + step) % 3) + 1]
      BY <2>1 DEF Screen!FocusCycled
    <3>2. ((i - 1 + step) % 3) + 1 \in 1 .. 3
      OBVIOUS
    <3> QED  BY <3>1, <3>2 DEF Screen!Panes
  <2>2. CASE v1' = v1
    BY <2>2, Apart DEF Shape
  <2> QED  BY <2>1, <2>2 DEF Screen!OverlayToggled, Screen!Broadcast
<1>4. v5' \in BOOLEAN /\ v9' \in {NoChat, v3}
  BY Apart DEF Screen!OverlayToggled, Screen!FocusCycled, Screen!Broadcast, Shape
<1>5. MailOK(answers', open') /\ Kept(m)
  BY <1>1, TakeKeeps DEF open
<1>6. Shape' /\ OnTheirWay'
  BY <1>1, <1>2, <1>3, <1>4, Apart, ForwardsStay DEF Shape
<1>7. Screen!ReactionHasItsPicker'
  BY <1>1, <1>2, <1>5, PickerStays
<1> QED
  BY <1>1, <1>5, <1>6, <1>7 DEF Handled

LEMMA ClosedHandled ==
  ASSUME ScreenInv, NEW m \in answers,
         \/ Screen!PaletteClosed(m, answers \ {m})
         \/ Screen!EmojiPicked(m, answers \ {m})
         \/ Screen!EmojiClosed(m, answers \ {m})
  PROVE  Handled(m)
<1> USE DEF Screen!panes, Screen!pending, Screen!counts, answers
<1>1. /\ answers' = answers \ {m} /\ UNCHANGED <<v3, v4, v5, v7, v9, v11, v12>>
  BY DEF Screen!PaletteClosed, Screen!EmojiPicked, Screen!EmojiClosed
<1>2. MailOK(answers', open') /\ Kept(m)
  BY <1>1, TakeKeeps DEF open
<1>3. CASE Screen!PaletteClosed(m, answers \ {m})
  <2>1. m.kind = "paletteClosed" /\ v2' = v2 \ {"palette"} /\ v6' = Screen!Nothing /\ UNCHANGED <<v1, v8>>
    BY <1>3 DEF Screen!PaletteClosed
  <2>2. Shape' /\ OnTheirWay'
    BY <1>1, <2>1, Apart, ForwardDropped DEF Shape, Screen!Nothing
  <2>3. Screen!ReactionHasItsPicker'
    BY <1>2, <2>1, PickerStays
  <2> QED  BY <1>1, <1>2, <2>2, <2>3 DEF Handled
<1>4. CASE Screen!EmojiPicked(m, answers \ {m}) \/ Screen!EmojiClosed(m, answers \ {m})
  <2>1. v8' = NoChat /\ v1' \in {v1, "input"} /\ UNCHANGED <<v2, v6>>
    BY <1>4 DEF Screen!EmojiPicked, Screen!EmojiClosed
  <2>2. Shape' /\ OnTheirWay'
    BY <1>1, <2>1, Apart, ForwardsStay DEF Shape
  <2>3. Screen!ReactionHasItsPicker'
    BY <2>1 DEF Screen!ReactionHasItsPicker
  <2> QED  BY <1>1, <1>2, <2>2, <2>3 DEF Handled
<1> QED
  BY <1>3, <1>4

LEMMA JumpHandled ==
  ASSUME ScreenInv, NEW m \in answers, Screen!HandleSearchJump(m, answers \ {m})
  PROVE  Handled(m)
<1>1. /\ m.kind = "jump" /\ v2' = v2 \ {"search"} /\ v3' = m.chat /\ v4' = m.chat /\ v5' = FALSE
      /\ v9' = NoChat /\ UNCHANGED <<v1, v6, v7, v8, v11, v12>>
  BY DEF Screen!HandleSearchJump, Screen!pending, Screen!counts
<1>2. m.chat \in Chats
  BY <1>1 DEF ScreenInv, Letters, Addressed
<1>3. PICK k \in Screen!Jumps :
         answers' = Screen!Outdated(Screen!Jumps \cup Screen!Loads, answers \ {m})
                      \cup {Screen!Mail(k, m.chat)}
  BY DEF Screen!HandleSearchJump, answers
<1>4. MailOK(answers', m.chat) /\ Kept(m) /\ m \notin answers'
  <2>1. m.kind \notin Screen!Jumps \cup Screen!Loads
    BY <1>1 DEF Screen!Jumps, Screen!Loads
  <2> QED  BY <1>2, <1>3, <2>1, ReissueKeeps
<1>5. Shape' /\ OnTheirWay'
  BY <1>1, <1>2, Apart, ForwardsStay DEF Shape
<1>6. Screen!ReactionHasItsPicker'
  BY <1>1, <1>4, PickerStays
<1> QED
  BY <1>1, <1>4, <1>5, <1>6 DEF Handled, open

LEMMA JumpLoadedHandled ==
  ASSUME ScreenInv, NEW m \in answers, Screen!ApplySearchJumpLoaded(m, answers \ {m})
  PROVE  Handled(m)
<1>1. m.kind \in Screen!Jumps /\ UNCHANGED <<v1, v2, v4, v6, v7, v8, v11, v12>>
  BY DEF Screen!ApplySearchJumpLoaded, Screen!pending, Screen!counts
<1>2. m.kind \notin {"emojiPicked", "emojiClosed"}
  BY <1>1 DEF Screen!Jumps
<1>3. m.fresh => m.chat = v3
  BY <1>1, Apart DEF MailOK, JumpsAre, open
<1>4. Letters(answers \ {m})
  BY Apart, LettersTake DEF MailOK
<1>5. CASE ~m.fresh /\ answers' = answers \ {m} /\ UNCHANGED <<v3, v5, v9>>
  <2>1. MailOK(answers', open') /\ Kept(m)
    BY <1>5, TakeKeeps DEF open
  <2>2. Shape' /\ OnTheirWay'
    BY <1>1, <1>5, Apart, ForwardsStay DEF Shape
  <2>3. Screen!ReactionHasItsPicker'
    BY <1>1, <1>2, <2>1, PickerStays
  <2> QED  BY <1>5, <2>1, <2>2, <2>3 DEF Handled
<1>6. CASE /\ m.fresh /\ v3' = m.chat /\ v5' = FALSE /\ v9' = NoChat
           /\ answers' = Screen!Outdated(Screen!Loads, answers \ {m})
  <2>1. v3' = v3
    BY <1>3, <1>6
  <2>2. MailOK(answers', open') /\ Kept(m)
    <3> DEFINE bag == answers \ {m}
               O == Screen!Outdated(Screen!Loads, bag)
    <3>1. /\ Letters(O) /\ Cardinality(O) <= Cardinality(bag)
          /\ \A y \in bag : y.kind \notin Screen!Loads => y \in O
          /\ \A x \in O : \E y \in bag : /\ x.kind = y.kind /\ x.chat = y.chat
                                         /\ x.fresh \/ y.kind \notin Screen!Loads => x = y
                                         /\ x.fresh => y.kind \notin Screen!Loads
      <4> HIDE DEF bag
      <4> QED  BY <1>4, LettersOutdate DEF bag
    <3>2. answers' = O
      BY <1>6
    <3> HIDE DEF O
    <3>3. /\ Cardinality(bag) \in Nat /\ Cardinality(answers) = Cardinality(bag) + 1
          /\ Cardinality(O) \in Nat
      BY <3>1, Apart, LettersTake, FS_CardinalityType DEF MailOK, Letters
    <3>4. Cardinality(O) <= MaxAnswers
      BY <3>1, <3>3, MailIsOK, ScreenAssumption DEF MailOK
    <3>5. JumpsAre(O, open)
      BY <3>1, Apart DEF MailOK, JumpsAre
    <3>6. MailOK(O, open)
      BY <3>1, <3>4, <3>5 DEF MailOK
    <3>7. open' = open
      BY <2>1 DEF open
    <3>8. Kept(m)
      BY <3>1, <3>2 DEF Kept
    <3> QED  BY <3>2, <3>6, <3>7, <3>8
  <2>3. Shape' /\ OnTheirWay'
    BY <1>1, <1>6, <2>1, Apart, ForwardsStay DEF Shape
  <2>4. Screen!ReactionHasItsPicker'
    BY <1>1, <1>2, <2>2, PickerStays
  <2> QED  BY <2>1, <2>2, <2>3, <2>4 DEF Handled
<1>7. CASE /\ m.fresh /\ v3' = m.chat /\ v5' = TRUE /\ v9' = m.chat
           /\ Screen!OpenChat(m.chat, answers \ {m})
  <2>1. v3' = v3 /\ v9' = v3
    BY <1>3, <1>7
  <2>2. PICK k \in Screen!Loads : answers' = Screen!Outdated(Screen!Loads, answers \ {m})
                                              \cup {Screen!Mail(k, m.chat)}
    BY <1>7 DEF Screen!OpenChat, answers
  <2>3. MailOK(answers', open') /\ Kept(m)
    <3>1. m.chat \in Chats \cup {NoChat} /\ m.chat = open
      BY <1>3, <1>7 DEF ScreenInv, Letters, Answer, open
    <3>2. MailOK(answers', m.chat) /\ Kept(m)
      BY <2>2, <3>1, ReissueKeeps
    <3> QED  BY <1>7, <3>2 DEF open
  <2>4. Shape' /\ OnTheirWay'
    BY <1>1, <1>7, <2>1, Apart, ForwardsStay DEF Shape
  <2>5. Screen!ReactionHasItsPicker'
    BY <1>1, <1>2, <2>3, PickerStays
  <2> QED  BY <2>1, <2>3, <2>4, <2>5 DEF Handled
<1> QED
  BY <1>5, <1>6, <1>7 DEF Screen!ApplySearchJumpLoaded, answers

LEMMA UpdateHandled ==
  ASSUME ScreenInv, NEW m \in answers, Screen!Update(m)
  PROVE  Handled(m)
<1>1. CASE Screen!HandleChatSelected(m, answers \ {m})
  BY <1>1, SelectedHandled
<1>2. CASE Screen!HandlePaletteSelected(m, answers \ {m})
  <2>1. m.kind = "picked" /\ Screen!PaletteSelected(m.chat, answers \ {m})
    BY <1>2 DEF Screen!HandlePaletteSelected
  <2>2. m.chat \in Chats
    BY <2>1 DEF ScreenInv, Letters, Addressed
  <2> QED  BY <2>1, <2>2, PaletteHandled
<1>3. CASE Screen!HandleOpenUsername(m, answers \ {m})
  BY <1>3, UsernameHandled
<1>4. CASE Screen!ApplyUsernameResolved(m, answers \ {m})
  BY <1>4, ResolvedHandled
<1>5. CASE Screen!HandleSearchJump(m, answers \ {m})
  BY <1>5, JumpHandled
<1>6. CASE Screen!ApplySearchJumpLoaded(m, answers \ {m})
  BY <1>6, JumpLoadedHandled
<1>7. CASE \/ Screen!PaletteClosed(m, answers \ {m}) \/ Screen!EmojiPicked(m, answers \ {m})
           \/ Screen!EmojiClosed(m, answers \ {m})
  BY <1>7, ClosedHandled
<1>8. CASE \/ /\ m.kind \in {"helpToggled", "paletteOpened", "searchOpened", "attachOpened",
                             "emojiOpened", "searchClosed", "attachClosed"}
              /\ Screen!OverlayToggled(m, answers \ {m})
           \/ Screen!FocusCycled(m, answers \ {m}) \/ Screen!Broadcast(m, answers \ {m})
  BY <1>8, ToggleHandled
<1> QED
  BY <1>1, <1>2, <1>3, <1>4, <1>5, <1>6, <1>7, <1>8 DEF Screen!Update, answers

-----------------------------------------------------------------------------
(* Gestures: the thread stays on its chat.                                 *)
Done == /\ Shape' /\ OnTheirWay' /\ MailOK(answers', open') /\ Screen!ReactionHasItsPicker'
        /\ v3' = v3

(* What is on its way stays, or is a jump that a newer one outdates.       *)
Waiting == \A x \in answers : x.kind \notin Screen!Jumps => x \in answers'

LEMMA PickerWaits ==
  ASSUME ScreenInv, Waiting, "emoji" \in v2 => "emoji" \in v2', v8' \in {v8, NoChat}
  PROVE  Screen!ReactionHasItsPicker'
BY DEF ScreenInv, Waiting, Screen!ReactionHasItsPicker, Screen!Jumps, answers

LEMMA StillKeeps ==
  ASSUME ScreenInv, UNCHANGED v10, v3' = v3
  PROVE  MailOK(answers', open') /\ Waiting
BY Apart DEF Waiting, MailOK, JumpsAre, Letters, answers, open

LEMMA PostsOne ==
  ASSUME ScreenInv, NEW k \in Screen!Routed \ Screen!Jumps, NEW c \in Chats \cup {NoChat},
         k \in Addressed => c \in Chats, Screen!Post(Screen!Mail(k, c)), v3' = v3
  PROVE  MailOK(answers', open') /\ Waiting /\ Screen!Mail(k, c) \in answers'
<1>1. /\ Screen!Mail(k, c) \in Answer /\ Screen!Mail(k, c).kind = k
      /\ Screen!Mail(k, c).chat = c
  BY NewAnswer
<1>2. /\ Letters(answers)' /\ Cardinality(answers') <= MaxAnswers
      /\ JumpsAre(answers', open) /\ answers' = answers \cup {Screen!Mail(k, c)}
  BY <1>1, PostKeeps
<1> QED
  BY <1>2 DEF MailOK, Waiting, open

LEMMA GoesToMessage ==
  ASSUME ScreenInv, Screen!GoToMessage
  PROVE  Done
<1>1. /\ v3 # NoChat /\ UNCHANGED <<v1, v2, v3, v4, v5, v6, v7, v8, v9, v11, v12>>
      /\ Cardinality(answers) < MaxAnswers
  BY ScreenCounts DEF Screen!GoToMessage, Screen!panes, Screen!pending, Screen!counts, answers
<1>2. PICK k \in Screen!Jumps :
         answers' = Screen!Outdated(Screen!Jumps, answers) \cup {Screen!Mail(k, v3)}
  BY DEF Screen!GoToMessage, answers
<1>3. v3 \in Chats \cup {NoChat}
  BY Apart DEF Shape
<1> DEFINE n == Screen!Mail(k, v3)
           O == Screen!Outdated(Screen!Jumps, answers) \cup {n}
<1>4. n \in Answer /\ n.kind = k /\ n.chat = v3 /\ n.kind \notin Addressed
  BY <1>3, NewAnswer
<1>5. /\ Letters(O) /\ Cardinality(answers) \in Nat /\ Cardinality(O) \in Nat
      /\ Cardinality(O) <= Cardinality(answers) + 1
      /\ \A y \in answers : y.kind \notin Screen!Jumps => y \in O
      /\ \A x \in O : x = n \/ \E y \in answers : /\ x.kind = y.kind
                                                  /\ x.fresh \/ x.kind \notin Screen!Jumps => x = y
                                                  /\ x.fresh => x.kind \notin Screen!Jumps
  <2> HIDE DEF n
  <2> QED  BY <1>4, Apart, Reissue DEF MailOK
<1>6. answers' = O
  BY <1>2
<1> HIDE DEF O, n
<1>7. MailOK(O, v3)
  <2>1. Cardinality(O) <= MaxAnswers
    BY <1>1, <1>5, ScreenAssumption
  <2>2. JumpsAre(O, v3)
    BY <1>4, <1>5 DEF JumpsAre
  <2> QED  BY <1>5, <2>1, <2>2 DEF MailOK
<1>8. Waiting
  BY <1>5, <1>6 DEF Waiting
<1>9. Shape' /\ OnTheirWay'
  BY <1>1, Apart, ForwardsStay DEF Shape
<1>10. Screen!ReactionHasItsPicker'
  BY <1>1, <1>8, PickerWaits
<1> QED
  BY <1>1, <1>6, <1>7, <1>9, <1>10 DEF Done, open

(* Keys and clicks that post, or move the focus alone.                     *)
LEMMA PostsDone ==
  ASSUME ScreenInv,
         \/ \E c \in Chats : Screen!PickRow(c) \/ Screen!ClickRow(c)
         \/ \E k \in {"helpToggled", "searchOpened", "paletteOpened", "emojiOpened",
                      "focusCycled", "attachOpened"} : Screen!GlobalKey(k)
  PROVE  Done
<1> USE DEF Screen!panes, Screen!pending, Screen!counts
<1>1. /\ UNCHANGED <<v2, v3, v4, v5, v6, v7, v8, v9, v11, v12>> /\ v1' \in {v1, "chats"}
  BY DEF Screen!PickRow, Screen!ClickRow, Screen!GlobalKey
<1>2. PICK k \in Screen!Routed \ Screen!Jumps, c \in Chats \cup {NoChat} :
         (k \in Addressed => c \in Chats) /\ Screen!Post(Screen!Mail(k, c))
  <2>1. CASE \E c \in Chats : Screen!PickRow(c) \/ Screen!ClickRow(c)
    <3>1. PICK c \in Chats : Screen!Post(Screen!Mail("selected", c))
      BY <2>1 DEF Screen!PickRow, Screen!ClickRow
    <3> QED  BY <3>1 DEF Screen!Routed, Screen!Jumps
  <2>2. CASE \E k \in {"helpToggled", "searchOpened", "paletteOpened", "emojiOpened",
                       "focusCycled", "attachOpened"} : Screen!GlobalKey(k)
    <3>1. PICK k \in {"helpToggled", "searchOpened", "paletteOpened", "emojiOpened",
                       "focusCycled", "attachOpened"} : Screen!Post(Screen!Mail(k, NoChat))
      BY <2>2 DEF Screen!GlobalKey
    <3> QED  BY <3>1 DEF Screen!Routed, Screen!Jumps, Addressed
  <2> QED  BY <2>1, <2>2
<1>3. MailOK(answers', open') /\ Waiting
  BY <1>1, <1>2, PostsOne
<1>4. Shape' /\ OnTheirWay'
  BY <1>1, Apart, ForwardsStay DEF Shape
<1>5. Screen!ReactionHasItsPicker'
  BY <1>1, <1>3, PickerWaits
<1> QED
  BY <1>1, <1>3, <1>4, <1>5 DEF Done

LEMMA StillDone ==
  ASSUME ScreenInv,
         \/ \E p \in {"thread", "input"} : Screen!ClickPane(p)
         \/ Screen!AskDelete \/ Screen!AnswerDelete \/ Screen!ArmReaction \/ Screen!ArmEdit
         \/ Screen!SubmitAttach
  PROVE  Done
<1> USE DEF Screen!panes, Screen!pending, Screen!counts
<1>1. /\ UNCHANGED <<v3, v4, v5, v6, v9, v10, v11, v12>>
      /\ v1' \in {v1, "thread", "input"} /\ v7' \in {v7, v3, NoChat}
      /\ \/ v8' = v8 /\ v2' \in {v2, v2 \ {"attach"}}
         \/ v8' = v3 /\ v2' = v2 \cup {"emoji"}
  BY DEF Screen!ClickPane, Screen!AskDelete, Screen!AnswerDelete, Screen!ArmReaction, Screen!ArmEdit,
         Screen!SubmitAttach
<1>2. MailOK(answers', open') /\ Waiting
  BY <1>1, StillKeeps
<1>3. Shape'
  BY <1>1, Apart DEF Shape, Screen!Overlays
<1>4. OnTheirWay'
  BY <1>1, Apart, ForwardsStay
<1>5. Screen!ReactionHasItsPicker'
  <2>1. CASE v8' = v8 /\ v2' \in {v2, v2 \ {"attach"}}
    BY <1>2, <2>1, PickerWaits
  <2>2. CASE v8' = v3 /\ v2' = v2 \cup {"emoji"}
    BY <2>2 DEF Screen!ReactionHasItsPicker
  <2> QED  BY <1>1, <2>1, <2>2
<1> QED
  BY <1>1, <1>2, <1>3, <1>4, <1>5 DEF Done

LEMMA ArmDone ==
  ASSUME ScreenInv, Screen!ArmForward
  PROVE  Done
<1>1. /\ v3 # NoChat /\ v11 < MaxForwards /\ v11' = v11 + 1 /\ v6' = [from |-> v3, named |-> {}]
      /\ UNCHANGED <<v1, v2, v3, v4, v5, v7, v8, v9, v12>>
      /\ Screen!Post(Screen!Mail("paletteOpened", NoChat))
  BY DEF Screen!ArmForward, Screen!panes
<1>2. MailOK(answers', open') /\ Waiting
  <2>1. "paletteOpened" \in Screen!Routed \ Screen!Jumps /\ "paletteOpened" \notin Addressed
    BY DEF Screen!Routed, Screen!Jumps, Addressed
  <2> QED  BY <1>1, <2>1, PostsOne
<1>3. v3 \in Chats /\ v11 \in Nat /\ MaxForwards \in Nat
  BY <1>1, Apart, ScreenAssumption DEF Shape
<1>4. Shape'
  BY <1>1, <1>3, Apart DEF Shape
<1>5. OnTheirWay'
  <2>1. Cardinality(v12) \in Nat
    BY Apart, FS_CardinalityType DEF OnTheirWay, Budget, forwards
  <2>2. Cardinality(v12) + 1 <= v11'
    BY <1>1, <1>3, <2>1, Apart DEF OnTheirWay, Budget, forwards, armed
  <2> QED
    BY <1>1, <1>3, <2>1, <2>2, Apart DEF OnTheirWay, Budget, forwards, armed, pendingForward
<1>6. Screen!ReactionHasItsPicker'
  BY <1>1, <1>2, PickerWaits
<1> QED
  BY <1>1, <1>2, <1>4, <1>5, <1>6 DEF Done

(* Naming a destination leaves the forward armed.                          *)
LEMMA NamedStays ==
  ASSUME ScreenInv, NEW c \in Chats, v6' = Screen!Named(c), UNCHANGED <<v11, v12>>
  PROVE  v6' \in [from : Chats \cup {NoChat}, named : SUBSET Chats] /\ OnTheirWay'
<1>1. CASE v6 = Screen!Nothing
  <2>1. v6' = v6
    BY <1>1 DEF Screen!Named
  <2> QED  BY <2>1, Apart, ForwardsStay DEF Shape
<1>2. CASE v6 # Screen!Nothing
  <2>1. v6' = [v6 EXCEPT !.named = @ \cup {c}]
    BY <1>2 DEF Screen!Named
  <2>2. /\ v6' \in [from : Chats \cup {NoChat}, named : SUBSET Chats]
        /\ v6'.from = v6.from /\ v6.from \in Chats
    BY <1>2, <2>1, Apart DEF Shape, OnTheirWay, Budget, pendingForward
  <2>3. Cardinality(v12) + 1 <= v11
    BY <1>2, Apart DEF OnTheirWay, Budget, forwards, armed, pendingForward
  <2>4. Cardinality(v12) \in Nat /\ v11 \in Nat
    BY Apart, FS_CardinalityType DEF OnTheirWay, Budget, forwards, Shape
  <2>5. Budget'
    BY <2>2, <2>3, <2>4, Apart DEF OnTheirWay, Budget, forwards, armed, pendingForward
  <2> QED
    BY <2>2, <2>5, Apart DEF OnTheirWay, forwards
<1> QED  BY <1>1, <1>2

LEMMA PickDone ==
  ASSUME ScreenInv, Screen!PaletteHandle \/ \E c \in Chats : Screen!PalettePick(c)
  PROVE  Done
<1>1. PICK k \in {"picked", "username"}, c \in Chats :
         /\ v2' = v2 \ {"palette"} /\ v6' = Screen!Named(c) /\ Screen!Post(Screen!Mail(k, c))
         /\ UNCHANGED <<v1, v3, v4, v5, v7, v8, v9, v11, v12>>
  BY ScreenAssumption DEF Screen!PaletteHandle, Screen!PalettePick, Screen!panes, Screen!counts
<1>2. k \in Screen!Routed \ Screen!Jumps
  BY DEF Screen!Routed, Screen!Jumps
<1>3. MailOK(answers', open') /\ Waiting
  BY <1>1, <1>2, PostsOne
<1>4. v6' \in [from : Chats \cup {NoChat}, named : SUBSET Chats] /\ OnTheirWay'
  BY <1>1, NamedStays
<1>5. Shape'
  BY <1>1, <1>4, Apart DEF Shape
<1>6. Screen!ReactionHasItsPicker'
  BY <1>1, <1>3, PickerWaits
<1> QED
  BY <1>1, <1>3, <1>4, <1>5, <1>6 DEF Done

(* An overlay that closes; the emoji picker says so.                       *)
LEMMA ClosesDone ==
  ASSUME ScreenInv, NEW o \in Screen!Overlays, v2' = v2 \ {o},
         NEW k \in {"paletteClosed", "attachClosed", "emojiClosed", "searchClosed",
                    "emojiPicked", "jump"},
         NEW c \in Chats \cup {NoChat}, k = "jump" => c \in Chats,
         o = "emoji" => k \in {"emojiClosed", "emojiPicked"},
         Screen!Post(Screen!Mail(k, c)),
         UNCHANGED <<v1, v3, v4, v5, v6, v7, v8, v9, v11, v12>>
  PROVE  Done
<1>1. k \in Screen!Routed \ Screen!Jumps /\ (k \in Addressed => c \in Chats)
  BY DEF Screen!Routed, Screen!Jumps, Addressed
<1>2. MailOK(answers', open') /\ Waiting /\ Screen!Mail(k, c) \in answers'
  BY <1>1, PostsOne
<1>3. Shape' /\ OnTheirWay'
  BY Apart, ForwardsStay DEF Shape
<1>4. Screen!ReactionHasItsPicker'
  <2>1. CASE o = "emoji"
    <3>1. Screen!Mail(k, c).kind \in {"emojiClosed", "emojiPicked"}
      BY <2>1 DEF Screen!Mail
    <3> QED  BY <1>2, <3>1 DEF Screen!ReactionHasItsPicker, answers
  <2>2. CASE o # "emoji"
    BY <1>2, <2>2, PickerWaits
  <2> QED  BY <2>1, <2>2
<1> QED
  BY <1>2, <1>3, <1>4 DEF Done

LEMMA OverlayDone ==
  ASSUME ScreenInv,
         \/ \E o \in Screen!Overlays : Screen!Escape(o)
         \/ Screen!PickEmoji
         \/ \E c \in Chats : Screen!EnterHit(c)
  PROVE  Done
<1> USE DEF Screen!panes, Screen!pending, Screen!counts
<1>1. CASE Screen!PickEmoji
  <2>1. /\ v2' = v2 \ {"emoji"} /\ Screen!Post(Screen!Mail("emojiPicked", NoChat))
        /\ UNCHANGED <<v1, v3, v4, v5, v6, v7, v8, v9, v11, v12>>
    BY <1>1 DEF Screen!PickEmoji
  <2> QED  BY <2>1, ClosesDone DEF Screen!Overlays
<1>2. CASE \E c \in Chats : Screen!EnterHit(c)
  <2>1. PICK c \in Chats :
           /\ v2' = v2 \ {"search"} /\ Screen!Post(Screen!Mail("jump", c))
           /\ UNCHANGED <<v1, v3, v4, v5, v6, v7, v8, v9, v11, v12>>
    BY <1>2 DEF Screen!EnterHit
  <2> QED  BY <2>1, ClosesDone DEF Screen!Overlays
<1>3. ASSUME NEW o \in Screen!Overlays, Screen!Escape(o) PROVE Done
  <2>1. v2' = v2 \ {o} /\ UNCHANGED <<v1, v3, v4, v5, v6, v7, v8, v9, v11, v12>>
    BY <1>3 DEF Screen!Escape
  <2>2. CASE o = "help"
    <3>1. UNCHANGED v10
      BY <1>3, <2>2 DEF Screen!Escape
    <3>2. MailOK(answers', open') /\ Waiting
      BY <2>1, <3>1, StillKeeps
    <3>3. Shape' /\ OnTheirWay'
      BY <2>1, Apart, ForwardsStay DEF Shape
    <3>4. Screen!ReactionHasItsPicker'
      BY <2>1, <2>2, <3>2, PickerWaits
    <3> QED  BY <2>1, <3>2, <3>3, <3>4 DEF Done
  <2>3. CASE o = "palette"
    <3>1. Screen!Post(Screen!Mail("paletteClosed", NoChat))
      BY <1>3, <2>3 DEF Screen!Escape
    <3> QED  BY <2>1, <2>3, <3>1, ClosesDone
  <2>4. CASE o = "attach"
    <3>1. Screen!Post(Screen!Mail("attachClosed", NoChat))
      BY <1>3, <2>4 DEF Screen!Escape
    <3> QED  BY <2>1, <2>4, <3>1, ClosesDone
  <2>5. CASE o = "emoji"
    <3>1. Screen!Post(Screen!Mail("emojiClosed", NoChat))
      BY <1>3, <2>5 DEF Screen!Escape
    <3> QED  BY <2>1, <2>5, <3>1, ClosesDone
  <2>6. CASE o = "search"
    <3>1. Screen!Post(Screen!Mail("searchClosed", NoChat))
      BY <1>3, <2>6 DEF Screen!Escape
    <3> QED  BY <2>1, <2>6, <3>1, ClosesDone
  <2> QED
    BY <2>2, <2>3, <2>4, <2>5, <2>6 DEF Screen!Overlays
<1> QED
  BY <1>1, <1>2, <1>3

LEMMA GestureDone ==
  ASSUME ScreenInv, Screen!Gesture
  PROVE  Done
<1>1. CASE \/ \E c \in Chats : Screen!PickRow(c) \/ Screen!ClickRow(c)
           \/ \E k \in {"helpToggled", "searchOpened", "paletteOpened", "emojiOpened",
                        "focusCycled", "attachOpened"} : Screen!GlobalKey(k)
  BY <1>1, PostsDone
<1>2. CASE \/ \E p \in {"thread", "input"} : Screen!ClickPane(p)
           \/ Screen!AskDelete \/ Screen!AnswerDelete \/ Screen!ArmReaction \/ Screen!ArmEdit
           \/ Screen!SubmitAttach
  BY <1>2, StillDone
<1>3. CASE Screen!ArmForward
  BY <1>3, ArmDone
<1>4. CASE Screen!PaletteHandle \/ \E c \in Chats : Screen!PalettePick(c)
  BY <1>4, PickDone
<1>5. CASE \/ \E o \in Screen!Overlays : Screen!Escape(o)
           \/ Screen!PickEmoji
           \/ \E c \in Chats : Screen!EnterHit(c)
  BY <1>5, OverlayDone
<1>6. CASE Screen!GoToMessage
  BY <1>6, GoesToMessage
<1> QED
  BY <1>1, <1>2, <1>3, <1>4, <1>5, <1>6 DEF Screen!Gesture

(* Every step of the root model keeps the invariant, and none but a pick,  *)
(* a resolved handle or a hit moves the thread to another chat.            *)
LEMMA ScreenStep ==
  ASSUME ScreenInv, Screen!Next
  PROVE  ScreenInv' /\ Screen!LateAnswersStay
<1>1. CASE Screen!Gesture
  <2>1. Done
    BY <1>1, GestureDone
  <2> QED
    BY <2>1, Together DEF Done, Screen!LateAnswersStay
<1>2. CASE \E m \in v10 : Screen!Update(m)
  <2>1. PICK m \in answers : Screen!Update(m)
    BY <1>2 DEF answers
  <2>2. Handled(m)
    BY <2>1, UpdateHandled
  <2>3. ScreenInv'
    BY <2>2, Together DEF Handled
  <2>4. Screen!LateAnswersStay
    BY <2>1, <2>2 DEF Handled, Screen!LateAnswersStay, answers
  <2> QED  BY <2>3, <2>4
<1> QED
  BY <1>1, <1>2 DEF Screen!Next

LEMMA ScreenStart ==
  Screen!Init => ScreenInv
<1> SUFFICES ASSUME Screen!Init PROVE ScreenInv
  OBVIOUS
<1>1. v10 = {} /\ v12 = {} /\ Cardinality({}) = 0 /\ IsFiniteSet({}) /\ v11 = 0
  BY FS_EmptySet DEF Screen!Init
<1>2. Screen!TypeOK
  <2>1. v6 \in [from : Chats \cup {NoChat}, named : SUBSET Chats]
    BY DEF Screen!Init, Screen!Nothing
  <2>2. Screen!Cardinality(v10) <= MaxAnswers /\ v11 \in 0 .. MaxForwards
    BY <1>1, ScreenCounts, ScreenAssumption
  <2>3. v10 = {} /\ v12 = {}
    BY <1>1
  <2> QED
    BY <2>1, <2>2, <2>3 DEF Screen!TypeOK, Screen!Init
<1>3. Budget
  BY <1>1 DEF Screen!Init, Budget, forwards, armed, pendingForward
<1>4. Letters(answers) /\ JumpsAre(answers, open)
  BY <1>1 DEF Letters, JumpsAre, answers
<1> QED
  BY <1>1, <1>2, <1>3, <1>4, ScreenCounts
     DEF ScreenInv, Screen!ComposerFollowsThread, Screen!ScrollIsForThisChat,
         Screen!ForwardedOnce, Screen!ReactionHasItsPicker, Screen!Init

-----------------------------------------------------------------------------
(***************************************************************************)
(* SendView.  Its slots are told v1, announced v2, mirror v3, feed v4, cmd *)
(* v5, dest v6, nameless v7, chat v8, opens v9, dropped v10, outgoing v12, *)
(* awaiting v13, finalized v14, messages v15, loading v16 and page v17.    *)
(***************************************************************************)
Coming(kind, m) == \E i \in 1 .. Len(v4) : v4[i] = <<kind, m>>

CommandsTold ==
    \A m \in Sends :
        /\ v5[m] \in {"none", "running", "refused"} => v1[m] = "none"
        /\ v5[m] = "dispatched" => v1[m] # "none"
        /\ v1[m] = "none" => v12[m] = "none" /\ m \notin v2

(* An event that waits says what is so.                                    *)
EventsTrue ==
    \A m \in Sends :
        /\ Coming("received", m) => m \in v2
        /\ \A verdict \in {"sent", "failed"} : Coming(verdict, m) => v1[m] = verdict

(* Until a chat is opened again, a handled echo is in the window the load  *)
(* will replace, a handled verdict is remembered, and once both are        *)
(* handled, of a send none of whose events was lost, a message in the      *)
(* window has taken its row away.                                          *)
Visited(m) ==
    /\ v5[m] # "none" => v6[m] = v8 /\ v8 # NoChat
    /\ v16 # "no" /\ m \in v2 /\ ~Coming("received", m) /\ <<"received", m>> \notin v10 => m \in v15
    /\ \A verdict \in {"sent", "failed"} :
          v1[m] = verdict /\ ~Coming(verdict, m) /\ <<verdict, m>> \notin v10
             => m \in v14 /\ v12[m] # "pending"
    /\ v1[m] = "sent" /\ ~Coming("sent", m) /\ ~Coming("received", m) /\ SendView!Heard(m)
          /\ m \in v15 => v12[m] = "none"

FirstVisit ==
    /\ v15 \subseteq v2 /\ v17 \subseteq v2
    /\ v9 = 0 => v8 = NoChat
    /\ v9 <= 1 => \A m \in Sends : Visited(m)

SendInv ==
    /\ SendView!TypeOK /\ CommandsTold /\ EventsTrue /\ FirstVisit
    /\ SendView!PillTruthful /\ SendView!HeldRowRemovable

LEMMA Popped ==
  ASSUME NEW S, NEW s \in Seq(S), s # <<>>
  PROVE  /\ Tail(s) \in Seq(S) /\ Len(s) \in Nat \ {0} /\ Len(Tail(s)) = Len(s) - 1
         /\ \A i \in 1 .. Len(Tail(s)) : i + 1 \in 1 .. Len(s) /\ Tail(s)[i] = s[i + 1]
         /\ s[1] = Head(s)
OBVIOUS

LEMMA Pushed ==
  ASSUME NEW S, NEW s \in Seq(S), NEW e \in S
  PROVE  /\ Append(s, e) \in Seq(S) /\ Len(s) \in Nat /\ Len(Append(s, e)) = Len(s) + 1
         /\ \A i \in 1 .. Len(s) : Append(s, e)[i] = s[i]
         /\ Append(s, e)[Len(s) + 1] = e
OBVIOUS

LEMMA SendStart == SendView!Init => SendInv
<1> SUFFICES ASSUME SendView!Init PROVE SendInv
  OBVIOUS
<1>1. SendView!TypeOK
  BY SendAssumption DEF SendView!Init, SendView!Service!Init, SendView!TypeOK, SendView!Event
<1>2. CommandsTold /\ EventsTrue /\ FirstVisit
  BY DEF SendView!Init, SendView!Service!Init, CommandsTold, EventsTrue, FirstVisit, Visited, Coming
<1>3. SendView!PillTruthful /\ SendView!HeldRowRemovable
  BY DEF SendView!Init, SendView!PillTruthful, SendView!HeldRowRemovable
<1> QED
  BY <1>1, <1>2, <1>3 DEF SendInv

(* The steps that leave the feed alone.                                    *)
LEMMA FeedStays ==
  ASSUME UNCHANGED v4
  PROVE  \A k, m : Coming(k, m)' <=> Coming(k, m)
BY DEF Coming

LEMMA EventsStay ==
  ASSUME EventsTrue, UNCHANGED <<v2, v4>>,
         \A m \in Sends : v1'[m] # v1[m] => v1[m] = "none" /\ v1'[m] = "pending"
  PROVE  EventsTrue'
BY FeedStays DEF EventsTrue

LEMMA HeardStays ==
  ASSUME UNCHANGED <<v7, v10>>
  PROVE  \A m : SendView!Heard(m)' <=> SendView!Heard(m)
BY DEF SendView!Heard

LEMMA OpenKeeps ==
  ASSUME SendInv, NEW c \in Rooms, SendView!OpenChat(c)
  PROVE  SendInv'
<1> USE DEF SendInv
<1>0. /\ UNCHANGED <<v1, v2, v3, v4, v5, v6, v7, v10>> /\ v8' = c /\ v9' \in 0 .. MaxVisits
      /\ v12' = [x \in Sends |-> "none"] /\ v13' = {} /\ v14' = {} /\ v15' = {}
      /\ v16' = "asked" /\ v17' = {} /\ v11' = {}
  BY SendAssumption DEF SendView!OpenChat, SendView!TypeOK, SendView!service, SendView!bus
<1>1. SendView!TypeOK'
  BY <1>0 DEF SendView!TypeOK
<1>2. CommandsTold' /\ EventsTrue'
  BY <1>0, EventsStay DEF CommandsTold
<1>3. FirstVisit'
  <2>1. ASSUME v9' <= 1 PROVE v9 = 0
    BY <2>1 DEF SendView!OpenChat, SendView!TypeOK
  <2>2. v9' # 0
    BY DEF SendView!OpenChat, SendView!TypeOK
  <2>3. ASSUME v9' <= 1, NEW m \in Sends PROVE Visited(m)'
    <3>0. v8 = NoChat /\ Visited(m)
      BY <2>1, <2>3 DEF FirstVisit
    <3>1. v5[m] = "none" /\ v1[m] = "none" /\ m \notin v2
      BY <3>0 DEF Visited, CommandsTold
    <3> QED
      BY <1>0, <3>1 DEF Visited
  <2> QED
    BY <1>0, <2>2, <2>3 DEF FirstVisit
<1>4. SendView!PillTruthful' /\ SendView!HeldRowRemovable'
  BY <1>0 DEF SendView!PillTruthful, SendView!HeldRowRemovable
<1> QED
  BY <1>1, <1>2, <1>3, <1>4

LEMMA SendKeeps ==
  ASSUME SendInv, NEW m \in Sends, SendView!HandleSend(m)
  PROVE  SendInv'
<1> USE DEF SendInv
<1>1. /\ UNCHANGED <<v1, v2, v3, v4, v7, v8, v9, v10, v11, v12, v13, v14, v15, v16, v17>>
      /\ v5[m] = "none" /\ v5' = [v5 EXCEPT ![m] = "running"] /\ v8 # NoChat
      /\ v6' = [v6 EXCEPT ![m] = v8]
  BY DEF SendView!HandleSend, SendView!service, SendView!bus, SendView!thread, SendView!load
<1>2. SendView!TypeOK'
  BY <1>1 DEF SendView!TypeOK
<1>3. CommandsTold' /\ EventsTrue'
  <2>1. CommandsTold'
    BY <1>1 DEF CommandsTold, SendView!TypeOK
  <2> QED  BY <1>1, <2>1, EventsStay
<1>4. FirstVisit'
  BY <1>1, FeedStays, HeardStays DEF FirstVisit, Visited, SendView!TypeOK
<1>5. SendView!PillTruthful' /\ SendView!HeldRowRemovable'
  BY <1>1 DEF SendView!PillTruthful, SendView!HeldRowRemovable, CommandsTold, SendView!TypeOK
<1> QED
  BY <1>2, <1>3, <1>4, <1>5

LEMMA ReturnKeeps ==
  ASSUME SendInv, NEW m \in Sends, SendView!SendTextReturns(m)
  PROVE  SendInv'
<1> USE DEF SendInv
<1>1. /\ UNCHANGED <<v2, v3, v4, v6, v7, v8, v9, v10, v11, v12, v13, v14, v15, v16, v17>>
      /\ v5[m] = "running" /\ v1[m] = "none"
      /\ \/ v1' = [v1 EXCEPT ![m] = "pending"] /\ v5' = [v5 EXCEPT ![m] = "dispatched"]
         \/ v1' = v1 /\ v5' = [v5 EXCEPT ![m] = "refused"]
  BY DEF SendView!SendTextReturns, SendView!Service!Submit, SendView!bus, SendView!thread,
         SendView!load, CommandsTold
<1>2. SendView!TypeOK'
  BY <1>1 DEF SendView!TypeOK
<1>3. CommandsTold' /\ EventsTrue'
  <2>1. CommandsTold'
    BY <1>1 DEF CommandsTold, SendView!TypeOK
  <2>2. \A x \in Sends : v1'[x] # v1[x] => v1[x] = "none" /\ v1'[x] = "pending"
    BY <1>1 DEF SendView!TypeOK
  <2> QED  BY <1>1, <2>1, <2>2, EventsStay
<1>4. FirstVisit'
  <2>1. \A x \in Sends : /\ v5'[x] # "none" => v5[x] # "none"
                         /\ \A k \in {"sent", "failed"} : v1'[x] = k => v1[x] = k
    BY <1>1 DEF SendView!TypeOK
  <2>2. ASSUME v9 <= 1, NEW x \in Sends PROVE Visited(x)'
    <3>1. Visited(x)
      BY <2>2 DEF FirstVisit
    <3> QED  BY <1>1, <2>1, <3>1, FeedStays, HeardStays DEF Visited
  <2> QED  BY <1>1, <2>2 DEF FirstVisit
<1>5. SendView!PillTruthful' /\ SendView!HeldRowRemovable'
  BY <1>1 DEF SendView!PillTruthful, SendView!HeldRowRemovable, CommandsTold, SendView!TypeOK
<1> QED
  BY <1>2, <1>3, <1>4, <1>5

(* What one event more at the end, or one less at the head, makes of those *)
(* to come.                                                                *)
LEMMA FeedGrows ==
  ASSUME SendInv, NEW e \in SendView!Event, v4' = Append(v4, e)
  PROVE  /\ v4' \in Seq(SendView!Event)
         /\ \A k, m : Coming(k, m)' <=> (Coming(k, m) \/ e = <<k, m>>)
<1>1. v4 \in Seq(SendView!Event)
  BY DEF SendInv, SendView!TypeOK
<1>2. /\ v4' \in Seq(SendView!Event) /\ Len(v4) \in Nat /\ Len(v4') = Len(v4) + 1
      /\ \A i \in 1 .. Len(v4) : v4'[i] = v4[i]
      /\ v4'[Len(v4) + 1] = e
  BY <1>1, Pushed
<1>3. ASSUME NEW k, NEW m PROVE Coming(k, m)' <=> (Coming(k, m) \/ e = <<k, m>>)
  <2>1. \A i \in 1 .. Len(v4') : i \in 1 .. Len(v4) \/ i = Len(v4) + 1
    BY <1>2
  <2>2. Len(v4) + 1 \in 1 .. Len(v4') /\ \A i \in 1 .. Len(v4) : i \in 1 .. Len(v4')
    BY <1>2
  <2> QED  BY <1>2, <2>1, <2>2 DEF Coming
<1> QED
  BY <1>2, <1>3

LEMMA FeedShrinks ==
  ASSUME SendInv, v4 # <<>>, v4' = Tail(v4)
  PROVE  /\ v4' \in Seq(SendView!Event)
         /\ \A k, m : Coming(k, m)' => Coming(k, m)
         /\ \A k, m : Coming(k, m) /\ Head(v4) # <<k, m>> => Coming(k, m)'
<1>1. v4 \in Seq(SendView!Event)
  BY DEF SendInv, SendView!TypeOK
<1>2. /\ v4' \in Seq(SendView!Event) /\ Len(v4) \in Nat \ {0} /\ Len(v4') = Len(v4) - 1
      /\ \A i \in 1 .. Len(v4') : i + 1 \in 1 .. Len(v4) /\ v4'[i] = v4[i + 1]
      /\ v4[1] = Head(v4)
  BY <1>1, Popped
<1>3. ASSUME NEW k, NEW m, Coming(k, m)' PROVE Coming(k, m)
  BY <1>2, <1>3 DEF Coming
<1>4. ASSUME NEW k, NEW m, Coming(k, m), Head(v4) # <<k, m>> PROVE Coming(k, m)'
  <2>1. PICK i \in 1 .. Len(v4) : v4[i] = <<k, m>>
    BY <1>4 DEF Coming
  <2>2. i - 1 \in 1 .. Len(v4') /\ (i - 1) + 1 = i
    BY <1>2, <1>4, <2>1
  <2> QED  BY <1>2, <2>1, <2>2 DEF Coming
<1> QED
  BY <1>2, <1>3, <1>4

(* A published event waits its turn or is lost.                            *)
LEMMA Published ==
  ASSUME SendInv, NEW k \in {"received", "sent", "failed"}, NEW m \in Sends, SendView!Publish(k, m)
  PROVE  /\ v4' \in Seq(SendView!Event) /\ v10' \subseteq SendView!Event /\ v10 \subseteq v10'
         /\ \A j, x : Coming(j, x) => Coming(j, x)'
         /\ \A j, x : Coming(j, x)' => Coming(j, x) \/ (j = k /\ x = m)
         /\ Coming(k, m)' \/ <<k, m>> \in v10'
<1>1. <<k, m>> \in SendView!Event
  BY DEF SendView!Event
<1>2. v4 \in Seq(SendView!Event) /\ v10 \subseteq SendView!Event
  BY DEF SendInv, SendView!TypeOK
<1>3. CASE v4' = Append(v4, <<k, m>>) /\ UNCHANGED v10
  BY <1>1, <1>2, <1>3, FeedGrows
<1>4. CASE v10' = v10 \cup {<<k, m>>} /\ UNCHANGED v4
  BY <1>1, <1>2, <1>4, FeedStays
<1> QED
  BY <1>3, <1>4 DEF SendView!Publish

LEMMA AnnounceKeeps ==
  ASSUME SendInv, NEW m \in Sends, SendView!Announce(m)
  PROVE  SendInv'
<1> USE DEF SendInv
<1>1. /\ UNCHANGED <<v1, v3, v5, v6, v7, v8, v9, v11, v12, v13, v14, v15, v16, v17>>
      /\ v1[m] # "none" /\ m \notin v2 /\ v2' = v2 \cup {m} /\ SendView!Publish("received", m)
  BY DEF SendView!Announce, SendView!thread, SendView!load
<1>2. /\ v4' \in Seq(SendView!Event) /\ v10' \subseteq SendView!Event /\ v10 \subseteq v10'
      /\ \A j, x : Coming(j, x) => Coming(j, x)'
      /\ \A j, x : Coming(j, x)' => Coming(j, x) \/ (j = "received" /\ x = m)
      /\ Coming("received", m)' \/ <<"received", m>> \in v10'
  BY <1>1, Published
<1>3. SendView!TypeOK'
  BY <1>1, <1>2 DEF SendView!TypeOK
<1>4. EventsTrue'
  BY <1>1, <1>2 DEF EventsTrue
<1>5. CommandsTold'
  BY <1>1 DEF CommandsTold
<1>6. FirstVisit'
  <2>1. ASSUME v9 <= 1, NEW x \in Sends PROVE Visited(x)'
    <3>1. Visited(x) /\ v15 \subseteq v2
      BY <2>1 DEF FirstVisit
    <3>2. SendView!Heard(x)' => SendView!Heard(x)
      BY <1>1, <1>2 DEF SendView!Heard
    <3> QED  BY <1>1, <1>2, <3>1, <3>2 DEF Visited
  <2> QED  BY <1>1, <2>1 DEF FirstVisit
<1>7. SendView!PillTruthful' /\ SendView!HeldRowRemovable'
  BY <1>1 DEF SendView!PillTruthful, SendView!HeldRowRemovable
<1> QED
  BY <1>3, <1>4, <1>5, <1>6, <1>7

LEMMA VerdictKeeps ==
  ASSUME SendInv, NEW m \in Sends, SendView!PublishVerdict(m)
  PROVE  SendInv'
<1> USE DEF SendInv
<1>1. PICK k \in {"sent", "failed"} :
      /\ UNCHANGED <<v2, v3, v5, v6, v8, v9, v11, v12, v13, v14, v15, v16, v17>>
      /\ v1[m] = "pending" /\ v1' = [v1 EXCEPT ![m] = k] /\ SendView!Publish(k, m)
      /\ v7 \subseteq v7' /\ v7' \subseteq v7 \cup {m}
  <2>1. PICK k \in {"sent", "failed"} : v1[m] = "pending" /\ v1' = [v1 EXCEPT ![m] = k]
    BY DEF SendView!PublishVerdict, SendView!Service!Settle
  <2>2. v1'[m] = k
    BY <2>1 DEF SendView!TypeOK
  <2> QED
    BY <2>1, <2>2 DEF SendView!PublishVerdict, SendView!thread, SendView!load
<1>2. /\ v4' \in Seq(SendView!Event) /\ v10' \subseteq SendView!Event /\ v10 \subseteq v10'
      /\ \A j, x : Coming(j, x) => Coming(j, x)'
      /\ \A j, x : Coming(j, x)' => Coming(j, x) \/ (j = k /\ x = m)
      /\ Coming(k, m)' \/ <<k, m>> \in v10'
  BY <1>1, Published
<1>3. SendView!TypeOK'
  BY <1>1, <1>2 DEF SendView!TypeOK
<1>4. v1'[m] = k /\ \A x \in Sends : x # m => v1'[x] = v1[x]
  BY <1>1 DEF SendView!TypeOK
<1>5. EventsTrue'
  <2>1. ASSUME NEW x \in Sends
        PROVE  /\ Coming("received", x)' => x \in v2'
               /\ \A verdict \in {"sent", "failed"} : Coming(verdict, x)' => v1'[x] = verdict
    <3>1. /\ Coming("received", x) => x \in v2
          /\ \A verdict \in {"sent", "failed"} : Coming(verdict, x) => v1[x] = verdict
      BY DEF EventsTrue
    <3> QED  BY <1>1, <1>2, <1>4, <3>1
  <2> QED  BY <2>1 DEF EventsTrue
<1>6. CommandsTold'
  BY <1>1, <1>4 DEF CommandsTold
<1>7. FirstVisit'
  <2>1. ASSUME v9 <= 1, NEW x \in Sends PROVE Visited(x)'
    <3>1. Visited(x)
      BY <2>1 DEF FirstVisit
    <3>2. SendView!Heard(x)' => SendView!Heard(x) /\ \A j : <<j, x>> \notin v10'
      BY <1>1, <1>2 DEF SendView!Heard
    <3>3. CASE x = m
      BY <1>1, <1>2, <1>4, <3>1, <3>2, <3>3 DEF Visited
    <3>4. CASE x # m
      BY <1>1, <1>2, <1>4, <3>1, <3>2, <3>4 DEF Visited
    <3> QED  BY <3>3, <3>4
  <2> QED  BY <1>1, <2>1 DEF FirstVisit
<1>8. SendView!PillTruthful' /\ SendView!HeldRowRemovable'
  BY <1>1, <1>4 DEF SendView!PillTruthful, SendView!HeldRowRemovable
<1> QED
  BY <1>3, <1>5, <1>6, <1>7, <1>8

LEMMA StoreKeeps ==
  ASSUME SendInv, \/ \E m \in Sends : SendView!Persist(m)
                  \/ SendView!ReadPage \/ SendView!ApplyLoaded \/ SendView!SwallowLoaded
  PROVE  SendInv'
<1> USE DEF SendInv
<1>1. /\ UNCHANGED <<v1, v2, v4, v5, v6, v7, v8, v9, v10, v11, v12, v13, v14>>
      /\ v3 \subseteq v3' /\ v3' \subseteq v2 /\ v17' \subseteq v2
      /\ v16' \in {"no", "asked", "read", "swallowed"}
      /\ \/ UNCHANGED v15 /\ (v16' # "no" => v16 # "no")
         \/ v16 # "no" /\ v16' = "no" /\ v15' = v17
  BY DEF SendView!Persist, SendView!ReadPage, SendView!ApplyLoaded, SendView!SwallowLoaded,
         SendView!service, SendView!bus, SendView!thread, SendView!load, SendView!TypeOK, FirstVisit
<1>2. SendView!TypeOK'
  BY <1>1 DEF SendView!TypeOK, FirstVisit
<1>3. CommandsTold' /\ EventsTrue'
  BY <1>1, EventsStay DEF CommandsTold
<1>4. ASSUME v9 <= 1, NEW m \in Sends PROVE Visited(m)'
  <2>1. Visited(m) /\ v17 \subseteq v2
    BY <1>4 DEF FirstVisit
  <2>2. SendView!Heard(m) => <<"received", m>> \notin v10
    BY DEF SendView!Heard
  <2> QED  BY <1>1, <2>1, <2>2, FeedStays, HeardStays DEF Visited
<1>5. FirstVisit'
  BY <1>1, <1>4 DEF FirstVisit
<1> QED
  BY <1>1, <1>2, <1>3, <1>5 DEF SendView!PillTruthful, SendView!HeldRowRemovable

LEMMA ResultKeeps ==
  ASSUME SendInv, NEW m \in Sends, SendView!HandleDispatched(m) \/ SendView!HandleSendFailed(m)
  PROVE  SendInv'
<1> USE DEF SendInv
<1>1. /\ UNCHANGED <<v1, v2, v3, v4, v6, v7, v8, v9, v10, v13, v14, v15, v16, v17>>
      /\ v5[m] \in {"dispatched", "refused"} /\ v5' = [v5 EXCEPT ![m] = "handled"]
      /\ v11' \subseteq Sends
      /\ \/ v12' = v12
         \/ /\ v5[m] = "dispatched" /\ v6[m] = v8 /\ m \notin v14
            /\ v12' = [v12 EXCEPT ![m] = "pending"]
  BY DEF SendView!HandleDispatched, SendView!HandleSendFailed, SendView!service, SendView!bus,
         SendView!thread, SendView!load, SendView!TypeOK
<1>2. SendView!TypeOK'
  BY <1>1 DEF SendView!TypeOK
<1>3. CommandsTold'
  BY <1>1 DEF CommandsTold, SendView!TypeOK
<1>4. EventsTrue'
  BY <1>1, EventsStay
<1>5. ASSUME v9 <= 1, NEW x \in Sends PROVE Visited(x)'
  <2>1. Visited(x)
    BY <1>5 DEF FirstVisit
  <2>2. v12'[x] = v12[x] \/ x \notin v14
    BY <1>1 DEF SendView!TypeOK
  <2>3. v5'[x] # "none" => v5[x] # "none"
    BY <1>1 DEF SendView!TypeOK
  <2>4. SendView!Heard(x) => <<"sent", x>> \notin v10
    BY DEF SendView!Heard
  <2> QED  BY <1>1, <2>1, <2>2, <2>3, <2>4, FeedStays, HeardStays DEF Visited
<1>6. FirstVisit'
  BY <1>1, <1>5 DEF FirstVisit
<1>7. SendView!PillTruthful' /\ SendView!HeldRowRemovable'
  BY <1>1 DEF SendView!PillTruthful, SendView!HeldRowRemovable, SendView!TypeOK
<1> QED
  BY <1>2, <1>3, <1>4, <1>6, <1>7

(* An event is taken from the feed and said of send m.                     *)
Taken(kind, m) ==
    /\ v4 # <<>> /\ Head(v4) = <<kind, m>> /\ v4' = Tail(v4)
    /\ UNCHANGED <<v1, v2, v3, v5, v6, v7, v8, v9, v10, v16, v17>>
    /\ v11' \subseteq Sends

LEMMA TakenSaysSo ==
  ASSUME SendInv, NEW m \in Sends, NEW kind \in {"received", "sent", "failed"}, Taken(kind, m)
  PROVE  /\ kind = "received" => m \in v2
         /\ kind # "received" => v1[m] = kind
         /\ v4' \in Seq(SendView!Event)
         /\ \A k, x : Coming(k, x)' => Coming(k, x)
         /\ \A k, x : ~(k = kind /\ x = m) /\ Coming(k, x) => Coming(k, x)'
         /\ EventsTrue'
<1>1. v4 \in Seq(SendView!Event)
  BY DEF SendInv, SendView!TypeOK
<1>2. Coming(kind, m)
  BY <1>1, Popped DEF Taken, Coming
<1>3. /\ v4' \in Seq(SendView!Event)
      /\ \A k, x : Coming(k, x)' => Coming(k, x)
      /\ \A k, x : Coming(k, x) /\ Head(v4) # <<k, x>> => Coming(k, x)'
  BY FeedShrinks DEF Taken
<1>4. EventsTrue'
  BY <1>3 DEF SendInv, EventsTrue, Taken
<1> QED
  BY <1>2, <1>3, <1>4 DEF Taken, SendInv, EventsTrue

LEMMA IncomingKeeps ==
  ASSUME SendInv, NEW m \in Sends, SendView!ApplyIncoming(m)
  PROVE  SendInv'
<1> USE DEF SendInv
<1>1. Taken("received", m)
  BY DEF SendView!ApplyIncoming, SendView!Handling, SendView!service, SendView!load, Taken,
         SendView!TypeOK
<1>2. /\ m \in v2 /\ v4' \in Seq(SendView!Event) /\ EventsTrue'
      /\ \A k, x : Coming(k, x)' => Coming(k, x)
      /\ \A k, x : ~(k = "received" /\ x = m) /\ Coming(k, x) => Coming(k, x)'
  BY <1>1, TakenSaysSo
<1>3. /\ UNCHANGED v14
      /\ \/ v6[m] # v8 /\ UNCHANGED <<v12, v13, v15>>
         \/ /\ v6[m] = v8 /\ v13' = v13 \ {m} /\ v15' = v15 \cup {m}
            /\ v12' = (IF m \in v13 THEN [v12 EXCEPT ![m] = "none"] ELSE v12)
  BY DEF SendView!ApplyIncoming, SendView!thread
<1>4. SendView!TypeOK'
  BY <1>1, <1>2, <1>3 DEF Taken, SendView!TypeOK
<1>5. /\ \A x \in Sends : v12'[x] # v12[x] => x = m /\ m \in v13 /\ v12'[x] = "none"
      /\ m \in v13 /\ v6[m] = v8 => v12'[m] = "none"
  BY <1>3 DEF SendView!TypeOK
<1>6. CommandsTold'
  BY <1>1, <1>5 DEF CommandsTold, Taken
<1>7. ASSUME v9 <= 1, NEW x \in Sends PROVE Visited(x)'
  <2>1. Visited(x)
    BY <1>7 DEF FirstVisit
  <2>2. Visited(m) /\ v5[m] # "none"
    BY <1>2, <1>7 DEF FirstVisit, CommandsTold
  <2>3. v6[m] = v8
    BY <2>2 DEF Visited
  <2>4. SendView!Heard(x)' <=> SendView!Heard(x)
    BY <1>1, HeardStays DEF Taken
  <2>5. CASE x = m
    <3>1. ASSUME v1[m] = "sent", ~Coming("sent", m)', SendView!Heard(m) PROVE v12'[m] = "none"
      <4>1. ~Coming("sent", m) /\ <<"sent", m>> \notin v10 /\ m \notin v7
        BY <1>2, <3>1 DEF SendView!Heard
      <4>2. v12[m] # "pending"
        BY <2>2, <3>1, <4>1 DEF Visited
      <4>3. v12[m] \in {"none", "sent"}
        BY <3>1, <4>2 DEF SendView!PillTruthful
      <4>4. v12[m] = "sent" => m \in v13
        BY <4>1 DEF SendView!HeldRowRemovable
      <4> QED  BY <1>5, <2>3, <4>3, <4>4
    <3> QED
      BY <1>1, <1>2, <1>3, <1>5, <2>1, <2>3, <2>4, <2>5, <3>1 DEF Visited, Taken
  <2>6. CASE x # m
    <3>1. v12'[x] = v12[x] /\ (x \in v15' <=> x \in v15)
      BY <1>3, <1>5, <2>6
    <3> QED
      BY <1>1, <1>2, <1>3, <2>1, <2>4, <2>6, <3>1 DEF Visited, Taken
  <2> QED
    BY <2>5, <2>6
<1>8. FirstVisit'
  BY <1>1, <1>2, <1>3, <1>7 DEF FirstVisit, Taken
<1>9. SendView!PillTruthful'
  BY <1>1, <1>5 DEF SendView!PillTruthful, Taken
<1>10. SendView!HeldRowRemovable'
  BY <1>1, <1>3 DEF SendView!HeldRowRemovable, SendView!TypeOK, Taken
<1> QED
  BY <1>2, <1>4, <1>6, <1>8, <1>9, <1>10

LEMMA VerdictHandled ==
  ASSUME SendInv, NEW m \in Sends, SendView!ApplySent(m) \/ SendView!ApplyFailed(m)
  PROVE  SendInv'
<1> USE DEF SendInv
<1>1. PICK kind \in {"sent", "failed"} :
        /\ Taken(kind, m) /\ UNCHANGED v15
        /\ \/ v6[m] # v8 /\ UNCHANGED <<v12, v13, v14>>
           \/ /\ v6[m] = v8 /\ v14' = v14 \cup {m}
              /\ \/ /\ m \in v15 /\ m \notin v7 /\ kind = "sent"
                    /\ v12' = [v12 EXCEPT ![m] = "none"] /\ UNCHANGED v13
                 \/ /\ m \notin v15 \/ m \in v7 \/ kind = "failed"
                    /\ v13' = (IF kind = "sent" THEN v13 \cup ({m} \ v7) ELSE v13)
                    /\ v12' = (IF v12[m] = "none" THEN v12 ELSE [v12 EXCEPT ![m] = kind])
  <2>1. CASE SendView!ApplySent(m)
    BY <2>1 DEF SendView!ApplySent, SendView!Handling, SendView!service, SendView!load,
         SendView!thread, Taken, SendView!TypeOK
  <2>2. CASE SendView!ApplyFailed(m)
    BY <2>2 DEF SendView!ApplyFailed, SendView!Handling, SendView!service, SendView!load,
         SendView!thread, Taken, SendView!TypeOK
  <2> QED  BY <2>1, <2>2
<1>2. /\ v1[m] = kind /\ v4' \in Seq(SendView!Event) /\ EventsTrue'
      /\ \A k, x : Coming(k, x)' => Coming(k, x)
      /\ \A k, x : ~(k = kind /\ x = m) /\ Coming(k, x) => Coming(k, x)'
  BY <1>1, TakenSaysSo
<1>3. SendView!TypeOK'
  <2>1. v12' \in [Sends -> {"none", "pending", "sent", "failed"}] /\ v13' \subseteq Sends
        /\ v14' \subseteq Sends
    BY <1>1 DEF SendView!TypeOK
  <2> QED  BY <1>1, <1>2, <2>1 DEF Taken, SendView!TypeOK
<1>5. \A x \in Sends : v12'[x] # v12[x] => x = m /\ v6[m] = v8 /\ v12'[x] \in {"none", kind}
  BY <1>1 DEF SendView!TypeOK
<1>6. CommandsTold'
  BY <1>1, <1>2, <1>5 DEF CommandsTold, Taken
<1>7. ASSUME v9 <= 1, NEW x \in Sends PROVE Visited(x)'
  <2>1. Visited(x)
    BY <1>7 DEF FirstVisit
  <2>2. v6[m] = v8
    <3>1. Visited(m) /\ v5[m] # "none"
      BY <1>2, <1>7 DEF FirstVisit, CommandsTold
    <3> QED  BY <3>1 DEF Visited
  <2>3. SendView!Heard(x)' <=> SendView!Heard(x)
    BY <1>1, HeardStays DEF Taken
  <2>4. CASE x = m
    <3>1. m \in v14' /\ v12'[m] # "pending"
      BY <1>1, <2>2 DEF SendView!TypeOK
    <3>2. v1[m] = "sent" /\ SendView!Heard(m) /\ m \in v15 => v12'[m] = "none"
      BY <1>1, <1>2, <2>2 DEF SendView!TypeOK, SendView!Heard
    <3> QED
      BY <1>1, <1>2, <2>1, <2>3, <2>4, <3>1, <3>2 DEF Visited, Taken
  <2>5. CASE x # m
    <3>1. v12'[x] = v12[x] /\ (x \in v14 => x \in v14')
      BY <1>1, <1>5, <2>5
    <3> QED
      BY <1>1, <1>2, <2>1, <2>3, <2>5, <3>1 DEF Visited, Taken
  <2> QED
    BY <2>4, <2>5
<1>8. FirstVisit'
  BY <1>1, <1>7 DEF FirstVisit, Taken
<1>9. SendView!PillTruthful'
  BY <1>1, <1>2, <1>5 DEF SendView!PillTruthful, Taken, SendView!TypeOK
<1>10. SendView!HeldRowRemovable'
  BY <1>1 DEF SendView!HeldRowRemovable, SendView!TypeOK, Taken
<1> QED
  BY <1>2, <1>3, <1>6, <1>8, <1>9, <1>10

LEMMA SendStep ==
  SendInv /\ SendView!Next => SendInv'
BY OpenKeeps, SendKeeps, ReturnKeeps, AnnounceKeeps, VerdictKeeps, StoreKeeps,
   ResultKeeps, IncomingKeeps, VerdictHandled
   DEF SendView!Next, SendView!User, SendView!Background, SendView!UpdateLoop

LEMMA SendIdle ==
  ASSUME SendInv, UNCHANGED <<v1, v2, v3, v4, v5, v6, v7, v8, v9, v10, v11, v12, v13, v14, v15,
                              v16, v17>>
  PROVE  SendInv'
<1>1. SendView!TypeOK'
  BY DEF SendInv, SendView!TypeOK
<1>2. CommandsTold' /\ EventsTrue'
  BY EventsStay DEF SendInv, CommandsTold
<1>3. FirstVisit'
  BY FeedStays, HeardStays DEF SendInv, FirstVisit, Visited
<1>4. SendView!PillTruthful' /\ SendView!HeldRowRemovable'
  BY DEF SendInv, SendView!PillTruthful, SendView!HeldRowRemovable
<1> QED
  BY <1>1, <1>2, <1>3, <1>4 DEF SendInv

LEMMA SendSays ==
  SendInv => /\ SendView!NoDoubleRowOnFirstVisit
             /\ SendView!NoStuckPendingOnFirstVisit
<1> SUFFICES ASSUME SendInv, v9 <= 1, SendView!Quiet
             PROVE  \A m \in Sends : /\ m \in v15 /\ SendView!Heard(m) => v12[m] \in {"none", "failed"}
                                     /\ v12[m] = "pending" => <<v1[m], m>> \in v10
  BY DEF SendInv, SendView!TypeOK, SendView!NoDoubleRowOnFirstVisit, SendView!NoStuckPendingOnFirstVisit
<1> TAKE m \in Sends
<1>1. Visited(m)
  BY DEF SendInv, FirstVisit
<1>2. v4 = <<>> /\ v1[m] # "pending"
  BY DEF SendView!Quiet
<1>3. \A k : ~Coming(k, m)
  BY <1>2 DEF Coming
<1>4. v1[m] = "none" => v12[m] = "none"
  BY DEF SendInv, CommandsTold
<1>5. v1[m] \in {"none", "sent", "failed"}
  BY <1>2 DEF SendInv, SendView!TypeOK
<1>6. SendView!Heard(m) => <<v1[m], m>> \notin v10
  BY DEF SendView!Heard
<1>7. v12[m] \in {"none", "pending"} \/ v12[m] = v1[m]
  BY DEF SendInv, SendView!PillTruthful
<1> QED
  BY <1>1, <1>3, <1>4, <1>5, <1>6, <1>7 DEF Visited

-----------------------------------------------------------------------------
(***************************************************************************)
(* The marks of the thread.  As MCPanes has them: the messages each chat   *)
(* holds are v1, the newest v2, what is read v3, the chat on screen v4,    *)
(* its page v5, loading v6, the cursor v7, the marks v8, the unread count  *)
(* v9 and where it starts v10, the selection v11, the lines a drag keeps   *)
(* v12 and dragging v13, the prompt v14, what was deleted v15 and meant    *)
(* v16, what the drag began on v17, the boundary v18, whether the divider  *)
(* can be told v19, the hands v20 and the news v21.                        *)
(***************************************************************************)
LEMMA MarksCount ==
  ASSUME NEW S
  PROVE  ThreadMarks!Cardinality(S) = Cardinality(S)
BY DEF ThreadMarks!Cardinality, Cardinality

LEMMA FewerIds ==
  ASSUME NEW n \in Nat, NEW S \in SUBSET (1 .. n)
  PROVE  IsFiniteSet(S) /\ Cardinality(S) \in 0 .. n
<1>1. IsFiniteSet(1 .. n) /\ Cardinality(1 .. n) = n
  BY FS_Interval
<1>2. IsFiniteSet(S) /\ Cardinality(S) <= n
  BY <1>1, FS_Subset
<1> QED  BY <1>2, FS_CardinalityType

(* Each member of a finite set of numbers has a rank of its own, and all   *)
(* ranks are taken: InOrder lists the set from the lowest up.              *)
LEMMA RanksGrow ==
  ASSUME NEW S \in SUBSET Nat, IsFiniteSet(S), NEW a \in S, NEW b \in S, a < b
  PROVE  Cardinality({j \in S : j < a}) < Cardinality({j \in S : j < b})
<1> DEFINE A == {j \in S : j < a}  B == {j \in S : j < b}
<1>1. IsFiniteSet(A) /\ IsFiniteSet(B)
  BY FS_Subset
<1>2. Cardinality(A \cup {a}) = Cardinality(A) + 1
  <2>1. a \notin A
    OBVIOUS
  <2> HIDE DEF A
  <2> QED  BY <1>1, <2>1, FS_AddElement
<1>5. A \cup {a} \subseteq B
  <2> SUFFICES ASSUME NEW x \in A \cup {a} PROVE x \in S /\ x < b
    OBVIOUS
  <2>1. x \in S /\ (x < a \/ x = a) /\ x \in Nat /\ a \in Nat /\ b \in Nat
    OBVIOUS
  <2> QED  BY <2>1
<1>3. Cardinality(A \cup {a}) <= Cardinality(B)
  BY <1>1, <1>5, FS_Subset
<1>4. Cardinality(A) \in Nat /\ Cardinality(B) \in Nat
  BY <1>1, FS_CardinalityType
<1> QED  BY <1>2, <1>3, <1>4

LEMMA RanksTaken ==
  ASSUME NEW S \in SUBSET Nat, IsFiniteSet(S), NEW i \in 1 .. Cardinality(S)
  PROVE  \E k \in S : Cardinality({j \in S : j < k}) = i - 1
<1> DEFINE rank == [k \in S |-> Cardinality({j \in S : j < k})]
           n == Cardinality(S)
<1>0. n \in Nat
  BY FS_CardinalityType
<1>1. ASSUME NEW k \in S PROVE rank[k] \in 0 .. n - 1
  <2> DEFINE A == {j \in S : j < k}
  <2>1. IsFiniteSet(A) /\ Cardinality(A) <= Cardinality(S \ {k})
    <3>1. A \subseteq S \ {k} /\ IsFiniteSet(S \ {k})
      BY FS_Subset
    <3> QED  BY <3>1, FS_Subset
  <2>2. Cardinality(S \ {k}) = n - 1
    BY FS_RemoveElement
  <2>3. Cardinality(A) \in Nat
    BY <2>1, FS_CardinalityType
  <2> QED  BY <1>0, <2>1, <2>2, <2>3
<1>2. \A a, b \in S : rank[a] = rank[b] => a = b
  <2> SUFFICES ASSUME NEW a \in S, NEW b \in S, rank[a] = rank[b], a # b PROVE FALSE
    OBVIOUS
  <2>1. a < b \/ b < a
    OBVIOUS
  <2>2. rank[a] \in Int /\ rank[b] \in Int
    BY <1>1, <1>0
  <2> QED  BY <2>1, <2>2, RanksGrow
<1>3. rank \in Injection(S, 0 .. n - 1)
  BY <1>1, <1>2 DEF Injection, IsInjective
<1>4. IsFiniteSet(0 .. n - 1) /\ Cardinality(0 .. n - 1) = n
  <2> HIDE DEF n
  <2>0. 0 \in Int /\ n - 1 \in Int
    BY <1>0
  <2>1. IsFiniteSet(0 .. n - 1)
        /\ Cardinality(0 .. n - 1) = IF 0 > n - 1 THEN 0 ELSE n - 1 - 0 + 1
    BY <2>0, FS_Interval
  <2> QED  BY <1>0, <2>1
<1>5. rank \in Surjection(S, 0 .. n - 1)
  BY <1>3, <1>4, FS_Injection
<1>6. i - 1 \in 0 .. n - 1
  BY <1>0
<1> QED  BY <1>5, <1>6 DEF Surjection

LEMMA InOrderLists ==
  ASSUME NEW S \in SUBSET Nat, IsFiniteSet(S)
  PROVE  /\ ThreadMarks!InOrder(S) \in Seq(S) /\ Len(ThreadMarks!InOrder(S)) = Cardinality(S)
         /\ Cardinality(S) \in Nat
         /\ \A i, j \in 1 .. Cardinality(S) : i < j => ThreadMarks!InOrder(S)[i] < ThreadMarks!InOrder(S)[j]
         /\ \A k \in S : \E i \in 1 .. Cardinality(S) : ThreadMarks!InOrder(S)[i] = k
<1> DEFINE q == ThreadMarks!InOrder(S)  n == Cardinality(S)  Rank(k) == Cardinality({j \in S : j < k})
<1>0. n \in Nat
  BY FS_CardinalityType
<1>1. q = [i \in 1 .. n |-> CHOOSE k \in S : Rank(k) = i - 1]
  BY MarksCount DEF ThreadMarks!InOrder
<1>2. ASSUME NEW i \in 1 .. n PROVE q[i] \in S /\ Rank(q[i]) = i - 1
  <2>1. \E k \in S : Rank(k) = i - 1
    BY RanksTaken
  <2> QED  BY <1>1, <2>1
<1>3. q \in Seq(S) /\ Len(q) = n
  <2>1. q \in [1 .. n -> S]
    BY <1>1, <1>2
  <2> QED  BY <1>0, <2>1
<1>4. ASSUME NEW i \in 1 .. n, NEW j \in 1 .. n, i < j PROVE q[i] < q[j]
  <2> DEFINE a == q[i]  b == q[j]
  <2>1. a \in S /\ b \in S /\ Rank(a) = i - 1 /\ Rank(b) = j - 1
    BY <1>2
  <2> HIDE DEF a, b, q, Rank
  <2>2. Rank(a) < Rank(b)
    BY <1>0, <1>4, <2>1
  <2>3. ~(b < a)
    <3> SUFFICES ASSUME b < a PROVE FALSE
      OBVIOUS
    <3>1. Rank(b) < Rank(a)
      BY <2>1, RanksGrow DEF Rank
    <3> QED  BY <1>0, <2>1, <2>2, <3>1
  <2>4. a # b
    <3> SUFFICES ASSUME a = b PROVE FALSE
      OBVIOUS
    <3>1. Rank(a) = Rank(b)
      OBVIOUS
    <3> QED  BY <1>0, <2>1, <2>2, <3>1
  <2>5. a < b
    BY <2>1, <2>3, <2>4
  <2> QED  BY <2>5 DEF a, b
<1>5. ASSUME NEW k \in S PROVE \E i \in 1 .. n : q[i] = k
  <2> DEFINE i == Rank(k) + 1
  <2>1. Rank(k) \in 0 .. n - 1
    <3> DEFINE A == {j \in S : j < k}
    <3>1. A \subseteq S \ {k} /\ IsFiniteSet(S \ {k}) /\ Cardinality(S \ {k}) = n - 1
      BY FS_RemoveElement
    <3>2. IsFiniteSet(A) /\ Cardinality(A) <= n - 1
      BY <3>1, FS_Subset
    <3> QED  BY <1>0, <3>2, FS_CardinalityType
  <2>2. i \in 1 .. n
    BY <1>0, <2>1
  <2>3. q[i] \in S /\ Rank(q[i]) = Rank(k)
    BY <1>2, <2>1, <2>2
  <2>4. q[i] = k
    <3> SUFFICES ASSUME q[i] # k PROVE FALSE
      OBVIOUS
    <3> DEFINE m == q[i]
    <3>0. m \in S /\ m # k /\ Rank(m) = Rank(k)
      BY <2>3
    <3> HIDE DEF m
    <3>1. m < k \/ k < m
      BY <3>0
    <3>2. Rank(m) < Rank(k) \/ Rank(k) < Rank(m)
      BY <3>0, <3>1, RanksGrow
    <3> QED  BY <2>1, <3>0, <3>2
  <2> QED  BY <2>2, <2>4
<1> QED  BY <1>0, <1>3, <1>4, <1>5

LEMMA LeastIs ==
  ASSUME NEW S \in SUBSET Nat, IsFiniteSet(S), S # {}
  PROVE  ThreadMarks!Min(S) \in S /\ \A k \in S : ThreadMarks!Min(S) <= k
<1>1. Cardinality(S) \in Nat \ {0}
  BY FS_CardinalityType, FS_EmptySet
<1>2. PICK k \in S : Cardinality({j \in S : j < k}) = 0
  <2>1. 1 \in 1 .. Cardinality(S)
    BY <1>1
  <2>2. \E k \in S : Cardinality({j \in S : j < k}) = 1 - 1
    BY <2>1, RanksTaken
  <2> QED  BY <2>2
<1>3. IsFiniteSet({j \in S : j < k}) /\ k \in Nat
  BY FS_Subset
<1>4. {j \in S : j < k} = {}
  BY <1>2, <1>3, FS_EmptySet
<1>5. \A j \in S : k <= j
  BY <1>3, <1>4
<1> QED  BY <1>5, Zenon DEF ThreadMarks!Min

-----------------------------------------------------------------------------
(* The drawn body: one row below the other, an empty line between.         *)
Spans == Seq([id : ThreadMarks!Ids, start : Nat, end : Nat])
Laid(spans) ==
    /\ \A i \in 1 .. Len(spans) : spans[i].start < spans[i].end
    /\ \A i, j \in 1 .. Len(spans) : i < j => spans[i].end < spans[j].start
Holds(span, line) == span.start <= line /\ line < span.end

LEMMA SpanFound ==
  ASSUME NEW spans \in Spans, NEW line \in Int
  PROVE  /\ ThreadMarks!SpanIndexAt(spans, line) \in 0 .. Len(spans)
         /\ ThreadMarks!SpanIndexAt(spans, line) # 0 => Holds(spans[ThreadMarks!SpanIndexAt(spans, line)], line)
         /\ ThreadMarks!SpanIndexAt(spans, line) = 0 => \A i \in 1 .. Len(spans) : ~Holds(spans[i], line)
<1> DEFINE I == {i \in 1 .. Len(spans) : Holds(spans[i], line)}
<1>1. ThreadMarks!SpanIndexAt(spans, line) = IF I # {} THEN ThreadMarks!Min(I) ELSE 0
  BY DEF ThreadMarks!SpanIndexAt, ThreadMarks!SelectInSeq, Holds
<1>2. Len(spans) \in Nat
  BY DEF Spans
<1>3. I \in SUBSET Nat /\ IsFiniteSet(I)
  BY <1>2, FewerIds
<1>4. I # {} => ThreadMarks!Min(I) \in I
  BY <1>3, LeastIs
<1> HIDE DEF Holds
<1> QED  BY <1>1, <1>2, <1>4

LEMMA SpanTypes ==
  ASSUME NEW spans \in Spans
  PROVE  /\ Len(spans) \in Nat
         /\ \A i \in 1 .. Len(spans) :
               spans[i].id \in ThreadMarks!Ids /\ spans[i].start \in Nat /\ spans[i].end \in Nat
<1>1. \A i \in 1 .. Len(spans) : spans[i] \in [id : ThreadMarks!Ids, start : Nat, end : Nat]
  BY ElementOfSeq DEF Spans
<1>2. Len(spans) \in Nat
  BY DEF Spans
<1> QED  BY <1>1, <1>2

LEMMA OneSpan ==
  ASSUME NEW spans \in Spans, Laid(spans), NEW line \in Int,
         NEW i \in 1 .. Len(spans), Holds(spans[i], line)
  PROVE  ThreadMarks!SpanIndexAt(spans, line) = i
<1> DEFINE k == ThreadMarks!SpanIndexAt(spans, line)
<1>0. /\ k \in 0 .. Len(spans)
      /\ k # 0 => Holds(spans[k], line)
      /\ k = 0 => \A j \in 1 .. Len(spans) : ~Holds(spans[j], line)
  BY SpanFound
<1> HIDE DEF k
<1>2. \A j \in 1 .. Len(spans) : spans[j].start \in Nat /\ spans[j].end \in Nat
  BY SpanTypes
<1>3. Len(spans) \in Nat
  BY SpanTypes
<1>1. k \in 1 .. Len(spans) /\ Holds(spans[k], line)
  BY <1>0, <1>3
<1>4. ~(i < k) /\ ~(k < i)
  BY <1>1, <1>2 DEF Laid, Holds
<1>5. k = i
  BY <1>1, <1>3, <1>4
<1> QED  BY <1>5 DEF k

LEMMA LastIsLast ==
  ASSUME NEW spans \in Spans, Laid(spans)
  PROVE  /\ ThreadMarks!LastLine(spans) \in Nat
         /\ \A i \in 1 .. Len(spans) : spans[i].end - 1 <= ThreadMarks!LastLine(spans)
<1>0. Len(spans) \in Nat /\ (spans # <<>> => Len(spans) \in 1 .. Len(spans))
  BY DEF Spans
<1>1. \A j \in 1 .. Len(spans) :
         spans[j].start \in Nat /\ spans[j].end \in Nat /\ spans[j].start < spans[j].end
  BY SpanTypes DEF Laid
<1>2. CASE spans = <<>>
  BY <1>2 DEF ThreadMarks!LastLine
<1>3. CASE spans # <<>>
  <2> DEFINE n == Len(spans)
  <2>1. n \in 1 .. n /\ ThreadMarks!LastLine(spans) = spans[n].end - 1 /\ ThreadMarks!LastLine(spans) \in Nat
    BY <1>0, <1>1, <1>3 DEF ThreadMarks!LastLine
  <2>2. ASSUME NEW i \in 1 .. n PROVE spans[i].end <= spans[n].end
    <3>1. CASE i = n
      BY <1>1, <2>1, <3>1
    <3>2. CASE i # n
      <4>1. i < n
        BY <1>0, <3>2
      <4>2. spans[i].end < spans[n].start
        BY <2>1, <4>1 DEF Laid
      <4> QED  BY <1>1, <2>1, <4>2
    <3> QED  BY <3>1, <3>2
  <2> QED  BY <1>1, <2>1, <2>2
<1> QED  BY <1>2, <1>3

LEMMA Clamped ==
  ASSUME NEW spans \in Spans, Laid(spans), NEW c \in ThreadMarks!Cells, Width \in Nat
  PROVE  /\ ThreadMarks!ClampCell(spans, c).line \in 0 .. ThreadMarks!LastLine(spans)
         /\ ThreadMarks!ClampCell(spans, c).line = IF c.line < 0 THEN 0 ELSE ThreadMarks!Least(c.line, ThreadMarks!LastLine(spans))
<1>1. ThreadMarks!LastLine(spans) \in Nat /\ c.line \in Int
  BY LastIsLast DEF ThreadMarks!Cells
<1> QED  BY <1>1 DEF ThreadMarks!ClampCell, ThreadMarks!Cell, ThreadMarks!Least

LEMMA ClampKeepsOrder ==
  ASSUME NEW spans \in Spans, Laid(spans), NEW a \in ThreadMarks!Cells, NEW b \in ThreadMarks!Cells, Width \in Nat, a.line <= b.line
  PROVE  ThreadMarks!ClampCell(spans, a).line <= ThreadMarks!ClampCell(spans, b).line
<1>1. ThreadMarks!LastLine(spans) \in Nat /\ a.line \in Int /\ b.line \in Int
  BY LastIsLast DEF ThreadMarks!Cells
<1> QED  BY <1>1, Clamped DEF ThreadMarks!Least

LEMMA ResolvesWhole ==
  ASSUME NEW spans \in Spans, Laid(spans), Width \in Nat, NEW s \in [anchor : ThreadMarks!Cells, cursor : ThreadMarks!Cells]
  PROVE  LET r == ThreadMarks!ResolveSelection(s, spans)
             from == ThreadMarks!SpanIndexAt(spans, r[1].line)
             to == ThreadMarks!SpanIndexAt(spans, r[2].line)
         IN  /\ r[1].line <= r[2].line /\ r[2].line <= ThreadMarks!LastLine(spans)
             /\ from # 0 /\ to # 0 /\ from # to =>
                  /\ r[1] = ThreadMarks!Cell(spans[from].start, 0)
                  /\ r[2] = ThreadMarks!Cell(spans[to].end - 1, Width)
<1> DEFINE back == ThreadMarks!Before(s.cursor, s.anchor)
           a == IF back THEN s.cursor ELSE s.anchor
           b == IF back THEN s.anchor ELSE s.cursor
           start == ThreadMarks!ClampCell(spans, a)
           end == ThreadMarks!ClampCell(spans, b)
           f == ThreadMarks!SpanIndexAt(spans, start.line)
           t == ThreadMarks!SpanIndexAt(spans, end.line)
           r == ThreadMarks!ResolveSelection(s, spans)
           g == ThreadMarks!SpanIndexAt(spans, r[1].line)
           h == ThreadMarks!SpanIndexAt(spans, r[2].line)
           Good == /\ r[1].line <= r[2].line /\ r[2].line <= ThreadMarks!LastLine(spans)
                   /\ g # 0 /\ h # 0 /\ g # h => r[1] = ThreadMarks!Cell(spans[g].start, 0) /\ r[2] = ThreadMarks!Cell(spans[h].end - 1, Width)
<1>1. a \in ThreadMarks!Cells /\ b \in ThreadMarks!Cells /\ a.line <= b.line
  <2>1. s.cursor \in ThreadMarks!Cells /\ s.anchor \in ThreadMarks!Cells /\ s.cursor.line \in Int /\ s.anchor.line \in Int
    BY DEF ThreadMarks!Cells
  <2> QED  BY <2>1 DEF ThreadMarks!Before
<1>2. r = IF f = 0 \/ t = 0 \/ f = t THEN <<start, end>>
          ELSE <<ThreadMarks!Cell(spans[f].start, 0), ThreadMarks!Cell(spans[t].end - 1, ThreadMarks!LineWidth(spans, spans[t].end - 1))>>
  BY DEF ThreadMarks!ResolveSelection
<1> HIDE DEF a, b
<1>3. start.line \in 0 .. ThreadMarks!LastLine(spans) /\ end.line \in 0 .. ThreadMarks!LastLine(spans)
      /\ start.line <= end.line /\ ThreadMarks!LastLine(spans) \in Nat
  BY <1>1, Clamped, ClampKeepsOrder, LastIsLast
<1> HIDE DEF start, end
<1>4. start.line \in Int /\ end.line \in Int
  BY <1>3
<1>5. ASSUME f = 0 \/ t = 0 \/ f = t PROVE Good
  <2>1. r[1] = start /\ r[2] = end
    BY <1>2, <1>5
  <2>2. g = f /\ h = t
    BY <2>1
  <2> HIDE DEF r, g, h, f, t
  <2>3. Good
    BY <1>3, <1>5, <2>1, <2>2
  <2> QED  BY <2>3
<1>6. ASSUME ~(f = 0 \/ t = 0 \/ f = t) PROVE Good
  <2> DEFINE top == spans[f].start  low == spans[t].end - 1
  <2>1. r[1] = ThreadMarks!Cell(top, 0) /\ r[2] = ThreadMarks!Cell(low, ThreadMarks!LineWidth(spans, low))
    BY <1>2, <1>6
  <2>2. f \in 1 .. Len(spans) /\ t \in 1 .. Len(spans) /\ Holds(spans[f], start.line) /\ Holds(spans[t], end.line)
    <3>1. /\ f \in 0 .. Len(spans) /\ (f # 0 => Holds(spans[f], start.line))
          /\ t \in 0 .. Len(spans) /\ (t # 0 => Holds(spans[t], end.line))
      BY <1>4, SpanFound
    <3> HIDE DEF f, t
    <3>2. Len(spans) \in Nat
      BY SpanTypes
    <3> QED  BY <1>6, <3>1, <3>2
  <2> HIDE DEF r, f, t
  <2>3. spans[f].start \in Nat /\ spans[f].end \in Nat /\ spans[t].start \in Nat /\ spans[t].end \in Nat
        /\ spans[f].start < spans[f].end /\ spans[t].start < spans[t].end
    BY <2>2, SpanTypes DEF Laid
  <2>4. top \in Int /\ low \in Int /\ Holds(spans[f], top) /\ Holds(spans[t], low) /\ top <= low
    BY <1>4, <1>3, <2>2, <2>3 DEF Holds
  <2>5. ThreadMarks!SpanIndexAt(spans, top) = f /\ ThreadMarks!SpanIndexAt(spans, low) = t
    BY <2>2, <2>4, OneSpan
  <2>6. ThreadMarks!LineWidth(spans, low) = Width
    <3>1. spans # <<>> /\ t # 0
      BY <2>2
    <3> HIDE DEF low
    <3> QED  BY <2>5, <3>1 DEF ThreadMarks!LineWidth, ThreadMarks!Blank
  <2>7. low <= ThreadMarks!LastLine(spans)
    BY <2>2, LastIsLast
  <2>8. r[1].line = top /\ r[2].line = low
    BY <2>1 DEF ThreadMarks!Cell
  <2>9. g = f /\ h = t
    BY <2>5, <2>8
  <2>10. r[1] = ThreadMarks!Cell(spans[f].start, 0) /\ r[2] = ThreadMarks!Cell(spans[t].end - 1, Width)
    BY <2>1, <2>6
  <2> HIDE DEF top, low, g, h
  <2> QED  BY <2>4, <2>7, <2>8, <2>9, <2>10
<1> QED  BY <1>5, <1>6

LEMMA HigherRows ==
  ASSUME NEW seq, NEW i \in Nat, NEW k \in Nat, 1 <= i, i < k
  PROVE  LET c(n) == Cardinality({j \in 1 .. n - 1 : seq[j] \in Tall})
         IN  c(i) \in Nat /\ c(k) \in Nat /\ c(i) + (IF seq[i] \in Tall THEN 1 ELSE 0) <= c(k)
<1> DEFINE A == {j \in 1 .. i - 1 : seq[j] \in Tall}
           B == {j \in 1 .. k - 1 : seq[j] \in Tall}
<1>1. /\ IsFiniteSet(A) /\ Cardinality(A) \in Nat
      /\ IsFiniteSet(B) /\ Cardinality(B) \in Nat
  <2>1. i - 1 \in Nat /\ A \in SUBSET (1 .. i - 1) /\ k - 1 \in Nat /\ B \in SUBSET (1 .. k - 1)
    OBVIOUS
  <2> HIDE DEF A, B
  <2>2. IsFiniteSet(A) /\ Cardinality(A) \in 0 .. i - 1 /\ IsFiniteSet(B) /\ Cardinality(B) \in 0 .. k - 1
    BY <2>1, FewerIds
  <2> QED  BY <2>2
<1>2. A \subseteq B
  OBVIOUS
<1>3. CASE seq[i] \in Tall
  <2>1. A \cup {i} \subseteq B /\ i \notin A
    BY <1>3
  <2> HIDE DEF A, B
  <2>2. IsFiniteSet(A \cup {i}) /\ Cardinality(A \cup {i}) = Cardinality(A) + 1
    BY <1>1, <2>1, FS_AddElement
  <2>3. Cardinality(A \cup {i}) <= Cardinality(B)
    BY <1>1, <2>1, FS_Subset
  <2>4. Cardinality(A) + 1 <= Cardinality(B)
    BY <1>1, <2>2, <2>3
  <2> QED  BY <1>1, <1>3, <2>4 DEF A, B
<1>4. CASE seq[i] \notin Tall
  <2> HIDE DEF A, B
  <2>1. Cardinality(A) <= Cardinality(B)
    BY <1>1, <1>2, FS_Subset
  <2>2. Cardinality(A) + 0 <= Cardinality(B)
    BY <1>1, <2>1
  <2> QED  BY <1>1, <1>4, <2>2 DEF A, B
<1> QED  BY <1>3, <1>4

LEMMA RowsBelow ==
  ASSUME NEW i \in Nat, NEW k \in Nat, NEW a \in Nat, NEW b \in Nat, NEW g \in Nat, NEW h \in Nat,
         NEW t \in Nat, i + 1 <= k, a + t <= b, g <= h
  PROVE  2 * i + a + g + 1 + t < 2 * k + b + h
OBVIOUS

LEMMA StackedLaid ==
  ASSUME NEW n \in Nat, NEW q \in [1 .. n -> ThreadMarks!Ids], NEW C \in [1 .. n -> Nat],
         NEW H \in [1 .. n -> Nat], NEW T \in [1 .. n -> Nat],
         \A i, k \in 1 .. n : i < k => C[i] + T[i] <= C[k] /\ H[i] <= H[k],
         NEW spans,
         spans = [i \in 1 .. n |-> [id |-> q[i], start |-> 2 * i + C[i] + H[i],
                                    end |-> 2 * i + C[i] + H[i] + 1 + T[i]]]
  PROVE  spans \in Spans /\ Laid(spans)
<1>1. ASSUME NEW i \in 1 .. n
      PROVE  /\ spans[i] \in [id : ThreadMarks!Ids, start : Nat, end : Nat] /\ spans[i].start < spans[i].end
             /\ spans[i].start = 2 * i + C[i] + H[i] /\ spans[i].end = 2 * i + C[i] + H[i] + 1 + T[i]
  <2>1. C[i] \in Nat /\ H[i] \in Nat /\ T[i] \in Nat /\ i \in Nat /\ q[i] \in ThreadMarks!Ids
    OBVIOUS
  <2>2. PICK a, b : a = 2 * i + C[i] + H[i] /\ b = 2 * i + C[i] + H[i] + 1 + T[i]
    OBVIOUS
  <2>3. a \in Nat /\ b \in Nat /\ a < b
    BY <2>1, <2>2
  <2>4. spans[i] = [id |-> q[i], start |-> a, end |-> b]
    BY <2>2
  <2>5. spans[i].start = a /\ spans[i].end = b /\ spans[i] \in [id : ThreadMarks!Ids, start : Nat, end : Nat]
    BY <2>1, <2>3, <2>4
  <2> QED  BY <2>2, <2>3, <2>5
<1>2. ASSUME NEW i \in 1 .. n, NEW k \in 1 .. n, i < k PROVE spans[i].end < spans[k].start
  <2>1. C[i] \in Nat /\ C[k] \in Nat /\ H[i] \in Nat /\ H[k] \in Nat /\ T[i] \in Nat
    OBVIOUS
  <2>2. i \in Nat /\ k \in Nat /\ i + 1 <= k /\ C[i] + T[i] <= C[k] /\ H[i] <= H[k]
    BY <1>2
  <2>3. 2 * i + C[i] + H[i] + 1 + T[i] < 2 * k + C[k] + H[k]
    BY <2>1, <2>2, RowsBelow
  <2> QED  BY <1>1, <2>3
<1>3. spans \in [1 .. n -> [id : ThreadMarks!Ids, start : Nat, end : Nat]]
  <2>1. DOMAIN spans = 1 .. n /\ spans = [i \in 1 .. n |-> spans[i]]
    OBVIOUS
  <2> QED  BY <1>1, <2>1
<1>4. spans \in Spans /\ Len(spans) = n
  BY <1>3, SeqDef DEF Spans
<1> QED  BY <1>1, <1>2, <1>4 DEF Laid

LEMMA DrawnLaid ==
  ASSUME NEW seq \in Seq(ThreadMarks!Ids)
  PROVE  LET spans == [i \in 1 .. Len(seq) |-> ThreadMarks!SpanOf(seq, i)]
         IN  spans \in Spans /\ Laid(spans)
<1>0. Len(seq) \in Nat /\ seq \in [1 .. Len(seq) -> ThreadMarks!Ids]
  OBVIOUS
<1>1. PICK spans : spans = [i \in 1 .. Len(seq) |-> ThreadMarks!SpanOf(seq, i)]
  OBVIOUS
<1>2. PICK C, H, T : /\ C = [n \in 1 .. Len(seq) |-> Cardinality({j \in 1 .. n - 1 : seq[j] \in Tall})]
                     /\ H = [n \in 1 .. Len(seq) |-> IF ThreadMarks!RuleAbove(seq, n) THEN 2 ELSE 0]
                     /\ T = [n \in 1 .. Len(seq) |-> IF seq[n] \in Tall THEN 1 ELSE 0]
  OBVIOUS
<1>3. C \in [1 .. Len(seq) -> Nat] /\ H \in [1 .. Len(seq) -> Nat] /\ T \in [1 .. Len(seq) -> Nat]
  <2>1. ASSUME NEW i \in 1 .. Len(seq) PROVE Cardinality({j \in 1 .. i - 1 : seq[j] \in Tall}) \in Nat
    <3>1. i - 1 \in Nat
      OBVIOUS
    <3>2. {j \in 1 .. i - 1 : seq[j] \in Tall} \in SUBSET (1 .. i - 1)
      OBVIOUS
    <3> QED  BY <3>1, <3>2, FewerIds
  <2> QED  BY <1>2, <2>1
<1>4. ASSUME NEW i \in 1 .. Len(seq), NEW k \in 1 .. Len(seq), i < k
      PROVE  C[i] + T[i] <= C[k] /\ H[i] <= H[k]
  <2>1. i \in Nat /\ k \in Nat /\ 1 <= i
    OBVIOUS
  <2>2. C[i] + T[i] <= C[k]
    BY <1>2, <1>4, <2>1, HigherRows
  <2>3. ThreadMarks!RuleAbove(seq, i) => ThreadMarks!RuleAbove(seq, k)
    BY <1>4 DEF ThreadMarks!RuleAbove
  <2>4. H[i] <= H[k]
    BY <1>2, <2>3
  <2> QED  BY <2>2, <2>4
<1>5. ASSUME NEW i \in 1 .. Len(seq)
      PROVE  ThreadMarks!SpanOf(seq, i) = [id |-> seq[i], start |-> 2 * i + C[i] + H[i],
                               end |-> 2 * i + C[i] + H[i] + 1 + T[i]]
  <2>1. C[i] \in Nat /\ H[i] \in Nat /\ T[i] \in Nat
    BY <1>3
  <2>2. ThreadMarks!Above(seq, i) = 2 * i + C[i]
    BY <1>2, MarksCount DEF ThreadMarks!Above
  <2>3. (IF ThreadMarks!RuleAbove(seq, i) THEN 2 ELSE 0) = H[i]
    BY <1>2
  <2>4. ThreadMarks!SpanOf(seq, i) = [id |-> seq[i], start |-> 2 * i + C[i] + H[i],
                          end |-> 2 * i + C[i] + H[i] + (IF seq[i] \in Tall THEN 2 ELSE 1)]
    BY <2>2, <2>3 DEF ThreadMarks!SpanOf
  <2>5. 2 * i + C[i] + H[i] + (IF seq[i] \in Tall THEN 2 ELSE 1) = 2 * i + C[i] + H[i] + 1 + T[i]
    BY <1>2, <2>1
  <2> QED  BY <2>4, <2>5
<1>6. spans = [i \in 1 .. Len(seq) |-> [id |-> seq[i], start |-> 2 * i + C[i] + H[i],
                                        end |-> 2 * i + C[i] + H[i] + 1 + T[i]]]
  BY <1>1, <1>5
<1>7. spans \in Spans /\ Laid(spans)
  BY <1>0, <1>3, <1>4, <1>6, StackedLaid
<1> QED  BY <1>1, <1>7

-----------------------------------------------------------------------------
(* The divider: counting back over the rows from the end, the first that   *)
(* is covered is the first unread.                                         *)
Theirs(page, i) == {j \in i .. Len(page) : page[j] \notin Mine}

LEMMA CountedBack ==
  ASSUME NEW S \in SUBSET Nat, IsFiniteSet(S), NEW p \in 1 .. Cardinality(S)
  PROVE  LET page == ThreadMarks!InOrder(S)
         IN  /\ IsFiniteSet(Theirs(page, p)) /\ Cardinality(Theirs(page, p)) \in Nat
             /\ Cardinality(Theirs(page, p)) = Cardinality({n \in S : n >= page[p] /\ n \notin Mine})
<1>1. PICK page : page = ThreadMarks!InOrder(S)
  OBVIOUS
<1>2. /\ page \in Seq(S) /\ Len(page) = Cardinality(S) /\ Cardinality(S) \in Nat
      /\ \A i, j \in 1 .. Cardinality(S) : i < j => page[i] < page[j]
      /\ \A k \in S : \E i \in 1 .. Cardinality(S) : page[i] = k
  BY <1>1, InOrderLists
<1>3. PICK W, U : W = Theirs(page, p) /\ U = {n \in S : n >= page[p] /\ n \notin Mine}
  OBVIOUS
<1>4. W \in SUBSET (1 .. Len(page))
  BY <1>2, <1>3 DEF Theirs
<1>5. IsFiniteSet(W) /\ Cardinality(W) \in Nat
  BY <1>2, <1>4, FewerIds
<1>6. \A i \in 1 .. Len(page) : page[i] \in S /\ page[i] \in Nat
  BY <1>2, ElementOfSeq
<1>7. PICK f : f = [j \in W |-> page[j]]
  OBVIOUS
<1>8. \A j \in W : j >= p /\ j \in 1 .. Len(page) /\ page[j] \notin Mine
  BY <1>2, <1>3, <1>4 DEF Theirs
<1>9. ASSUME NEW j \in W PROVE f[j] \in U
  <2>1. page[j] >= page[p]
    <3>1. j = p \/ p < j
      BY <1>8
    <3> QED  BY <1>2, <1>4, <1>6, <3>1
  <2> QED  BY <1>3, <1>6, <1>7, <1>8, <2>1
<1>10. ASSUME NEW n \in U PROVE \E j \in W : f[j] = n
  <2>1. n \in S /\ n >= page[p] /\ n \notin Mine
    BY <1>3
  <2>2. PICK i \in 1 .. Len(page) : page[i] = n
    BY <1>2, <2>1
  <2>3. ~(i < p)
    BY <1>2, <1>6, <2>1, <2>2
  <2>4. i \in W
    BY <1>2, <1>3, <2>1, <2>2, <2>3 DEF Theirs
  <2> QED  BY <1>7, <2>2, <2>4
<1>11. ASSUME NEW i \in W, NEW j \in W, f[i] = f[j] PROVE i = j
  <2>1. page[i] = page[j] /\ i \in 1 .. Len(page) /\ j \in 1 .. Len(page)
    BY <1>4, <1>7, <1>11
  <2>2. ~(i < j) /\ ~(j < i)
    BY <1>2, <1>6, <2>1
  <2> QED  BY <1>2, <2>1, <2>2
<1>12. f \in Surjection(W, U) /\ f \in Injection(W, U)
  <2>1. f \in [W -> U]
    BY <1>7, <1>9
  <2> QED  BY <1>10, <1>11, <2>1 DEF Surjection, Injection, IsInjective
<1>13. Cardinality(U) = Cardinality(W)
  BY <1>5, <1>12, FS_Surjection
<1> QED  BY <1>1, <1>3, <1>5, <1>13

LEMMA DividerFound ==
  ASSUME NEW S \in SUBSET Nat, IsFiniteSet(S), NEW b \in S, b \notin Mine,
         v9 = Cardinality({n \in S : n >= b /\ n \notin Mine})
  PROVE  ThreadMarks!LocateUnread(ThreadMarks!InOrder(S)) = b
<1>1. PICK page, N : page = ThreadMarks!InOrder(S) /\ N = Cardinality(S)
  OBVIOUS
<1>2. /\ page \in Seq(S) /\ Len(page) = N /\ N \in Nat
      /\ \A i, j \in 1 .. N : i < j => page[i] < page[j]
      /\ \A k \in S : \E i \in 1 .. N : page[i] = k
  BY <1>1, InOrderLists
<1>3. PICK p \in 1 .. N : page[p] = b
  BY <1>2
<1>4. Cardinality(Theirs(page, p)) = v9 /\ p \in Theirs(page, p) /\ IsFiniteSet(Theirs(page, p))
  <2>1. IsFiniteSet(Theirs(page, p)) /\ Cardinality(Theirs(page, p)) = v9
    BY <1>1, <1>3, CountedBack
  <2>2. p \in Theirs(page, p)
    BY <1>2, <1>3 DEF Theirs
  <2> QED  BY <2>1, <2>2
<1>5. PICK stops : stops = {i \in Theirs(page, 1) : Cardinality(Theirs(page, i)) = v9}
  OBVIOUS
<1>6. p \in stops
  <2>1. p \in Theirs(page, 1)
    BY <1>2, <1>3 DEF Theirs
  <2> QED  BY <1>4, <1>5, <2>1
<1>7. ASSUME NEW i \in 1 .. N, NEW j \in 1 .. N, i < j, i \in Theirs(page, i)
      PROVE  Cardinality(Theirs(page, i)) # Cardinality(Theirs(page, j))
  <2>1. PICK A, B : A = Theirs(page, i) /\ B = Theirs(page, j)
    OBVIOUS
  <2>2. IsFiniteSet(A) /\ IsFiniteSet(B)
    BY <1>1, <2>1, CountedBack
  <2>3. B \subseteq A /\ i \notin B /\ i \in A
    BY <1>2, <1>7, <2>1 DEF Theirs
  <2> QED  BY <2>1, <2>2, <2>3, FS_Subset
<1>8. ASSUME NEW i \in stops PROVE i = p
  <2>1. i \in 1 .. N /\ Cardinality(Theirs(page, i)) = v9 /\ i \in Theirs(page, i)
    BY <1>2, <1>5 DEF Theirs
  <2>2. ~(i < p) /\ ~(p < i)
    BY <1>4, <1>7, <2>1
  <2> QED  BY <1>2, <2>1, <2>2
<1>9. stops # {} /\ (CHOOSE i \in stops : TRUE) = p
  BY <1>6, <1>8
<1>10. v9 # 0 /\ page # <<>>
  <2>1. Theirs(page, p) # {} /\ IsFiniteSet(Theirs(page, p))
    BY <1>4
  <2> QED  BY <1>2, <1>3, <1>4, <2>1, FS_EmptySet
<1>11. ThreadMarks!LocateUnread(page) = page[CHOOSE i \in stops : TRUE]
  BY <1>5, <1>9, <1>10, MarksCount DEF ThreadMarks!LocateUnread, Theirs
<1> QED  BY <1>1, <1>3, <1>9, <1>11

-----------------------------------------------------------------------------
(* What the operators of the pane return.                                  *)
SpanSet == [id : ThreadMarks!Ids, start : Nat, end : Nat]

LEMMA MarksTypes ==
  ASSUME ThreadMarks!TypeOK
  PROVE  /\ v1 \in [Chats -> SUBSET ThreadMarks!Ids] /\ v2 \in [Chats -> 0 .. Newest]
         /\ v3 \in [Chats -> 0 .. Newest] /\ v4 \in Chats /\ v5 \in Seq(ThreadMarks!Ids)
         /\ v6 \in BOOLEAN /\ v13 \in BOOLEAN /\ v19 \in BOOLEAN
         /\ v7 \in ThreadMarks!Refs \cup {ThreadMarks!NoRef} /\ v8 \subseteq ThreadMarks!Refs
         /\ v9 \in 0 .. Newest /\ v10 \in 0 .. Newest /\ v18 \in 0 .. Newest
         /\ v11 \in {<<>>} \cup [anchor : ThreadMarks!Cells, cursor : ThreadMarks!Cells]
         /\ v12 \in Seq(Seq(SpanSet)) /\ Len(v12) <= 1
         /\ v14 \in {<<>>} \cup [in : Chats, ids : SUBSET ThreadMarks!Ids]
         /\ v15 \subseteq ThreadMarks!Refs /\ v16 \subseteq ThreadMarks!Refs /\ v17 \in 0 .. Newest
         /\ Newest \in Nat /\ Width \in Nat /\ ThreadMarks!Ids \subseteq Nat /\ ThreadMarks!Ids = 1 .. Newest
BY MarksAssumption DEF ThreadMarks!TypeOK, SpanSet, ThreadMarks!Ids

CacheLaid == v12 # <<>> => Laid(v12[1])

LEMMA BodyLaid ==
  ASSUME ThreadMarks!TypeOK, CacheLaid
  PROVE  ThreadMarks!RenderContent \in Spans /\ Laid(ThreadMarks!RenderContent)
<1>1. CASE v12 # <<>>
  <2>1. v12 \in Seq(Seq(SpanSet)) /\ 1 \in 1 .. Len(v12)
    BY <1>1, MarksTypes
  <2>2. v12[1] \in Seq(SpanSet)
    BY <2>1, ElementOfSeq
  <2>3. ThreadMarks!RenderContent = v12[1]
    BY <1>1 DEF ThreadMarks!RenderContent
  <2> QED  BY <1>1, <2>2, <2>3 DEF Spans, SpanSet, CacheLaid
<1>2. CASE v12 = <<>>
  <2>1. ThreadMarks!RenderContent = [i \in 1 .. Len(v5) |-> ThreadMarks!SpanOf(v5, i)]
    BY <1>2 DEF ThreadMarks!RenderContent
  <2>2. v5 \in Seq(ThreadMarks!Ids)
    BY MarksTypes
  <2> QED  BY <2>1, <2>2, DrawnLaid
<1> QED  BY <1>1, <1>2

LEMMA PointerCells ==
  /\ ThreadMarks!Pointer \subseteq ThreadMarks!Cells
  /\ \A at \in ThreadMarks!Pointer : at.line \in Int /\ at.col \in 0 .. Width
BY MarksAssumption DEF ThreadMarks!Pointer, ThreadMarks!Cells, ThreadMarks!Cell

LEMMA DrawnIsId ==
  ASSUME ThreadMarks!TypeOK, CacheLaid, NEW at \in ThreadMarks!Cells
  PROVE  ThreadMarks!DrawnAt(at) \in 0 .. Newest /\ ThreadMarks!MessageAt(at) \in {0} \cup ThreadMarks!Ids
<1>1. PICK spans, line : spans = ThreadMarks!RenderContent /\ line = ThreadMarks!ClampCell(spans, at).line
  OBVIOUS
<1>2. spans \in Spans /\ Laid(spans) /\ Width \in Nat /\ Newest \in Nat
  BY <1>1, BodyLaid, MarksTypes
<1>3. line \in Int
  BY <1>1, <1>2, Clamped, LastIsLast
<1>4. PICK i : i = ThreadMarks!SpanIndexAt(spans, line)
  OBVIOUS
<1>5. i \in 0 .. Len(spans)
  BY <1>2, <1>3, <1>4, SpanFound
<1>6. i # 0 => spans[i].id \in ThreadMarks!Ids
  BY <1>2, <1>5, SpanTypes
<1>7. ThreadMarks!DrawnAt(at) = IF i = 0 THEN 0 ELSE spans[i].id
  BY <1>1, <1>4 DEF ThreadMarks!DrawnAt
<1>8. ThreadMarks!DrawnAt(at) \in {0} \cup ThreadMarks!Ids
  BY <1>6, <1>7
<1> QED  BY <1>2, <1>8 DEF ThreadMarks!MessageAt, ThreadMarks!Ids

LEMMA CursorIsId ==
  ASSUME ThreadMarks!TypeOK, v5 # <<>>
  PROVE  /\ ThreadMarks!CursorIndex \in 0 .. Len(v5) /\ ThreadMarks!CursorMessage \in ThreadMarks!Ids /\ ThreadMarks!Targets \subseteq ThreadMarks!Ids
         /\ \A i \in Int : v5[ThreadMarks!Clamp(i)] \in ThreadMarks!Ids
<1>1. v5 \in Seq(ThreadMarks!Ids) /\ Len(v5) \in Nat /\ Len(v5) \in 1 .. Len(v5)
  BY MarksTypes
<1>2. \A i \in 1 .. Len(v5) : v5[i] \in ThreadMarks!Ids
  BY <1>1, ElementOfSeq
<1>3. ThreadMarks!CursorIndex \in 0 .. Len(v5)
  <2>1. PICK I : I = {i \in 1 .. Len(v5) : v5[i] = v7.id}
    OBVIOUS
  <2>2. ThreadMarks!SelectInSeq(v5, LAMBDA n : n = v7.id) = IF I # {} THEN ThreadMarks!Min(I) ELSE 0
    BY <2>1 DEF ThreadMarks!SelectInSeq
  <2>3. I \in SUBSET Nat /\ IsFiniteSet(I)
    BY <1>1, <2>1, FewerIds
  <2>4. I # {} => ThreadMarks!Min(I) \in 1 .. Len(v5)
    BY <2>1, <2>3, LeastIs
  <2> QED  BY <1>1, <2>2, <2>4 DEF ThreadMarks!CursorIndex
<1>4. ThreadMarks!CursorMessage \in ThreadMarks!Ids
  BY <1>1, <1>2, <1>3 DEF ThreadMarks!CursorMessage
<1>5. ThreadMarks!Targets \subseteq ThreadMarks!Ids
  <2>1. ThreadMarks!Shown \subseteq ThreadMarks!Ids
    BY <1>2 DEF ThreadMarks!Shown, ThreadMarks!ToSet
  <2> QED  BY <1>4, <2>1 DEF ThreadMarks!Targets, ThreadMarks!Marked
<1>6. \A i \in Int : ThreadMarks!Clamp(i) \in 1 .. Len(v5)
  BY <1>1 DEF ThreadMarks!Clamp, ThreadMarks!Least
<1> QED  BY <1>2, <1>3, <1>4, <1>5, <1>6

LEMMA NewestAreListed ==
  ASSUME NEW S \in SUBSET ThreadMarks!Ids, NEW n
  PROVE  ThreadMarks!NewestOf(S, n) \in Seq(ThreadMarks!Ids)
<1>1. PICK T : T = {k \in S : Cardinality({j \in S : j > k}) < n}
  OBVIOUS
<1>2. T \in SUBSET (1 .. Newest) /\ Newest \in Nat /\ T \in SUBSET ThreadMarks!Ids
  BY <1>1, MarksAssumption DEF ThreadMarks!Ids
<1>3. T \in SUBSET Nat /\ IsFiniteSet(T)
  BY <1>2, FewerIds
<1>4. ThreadMarks!InOrder(T) \in Seq(T)
  BY <1>3, InOrderLists
<1>5. ThreadMarks!NewestOf(S, n) = ThreadMarks!InOrder(T)
  BY <1>1, MarksCount DEF ThreadMarks!NewestOf
<1> QED  BY <1>2, <1>4, <1>5, SeqMonotonic

LEMMA SomePlaces ==
  ASSUME NEW q \in Seq(ThreadMarks!Ids), NEW places \in SUBSET (1 .. Len(q))
  PROVE  ThreadMarks!At(q, places) \in Seq(ThreadMarks!Ids)
<1>1. Len(q) \in Nat
  OBVIOUS
<1>2. places \in SUBSET Nat /\ IsFiniteSet(places)
  BY <1>1, FewerIds
<1>3. ThreadMarks!InOrder(places) \in Seq(places) /\ Len(ThreadMarks!InOrder(places)) = Cardinality(places) /\ Cardinality(places) \in Nat
  BY <1>2, InOrderLists
<1>4. \A i \in 1 .. Cardinality(places) : q[ThreadMarks!InOrder(places)[i]] \in ThreadMarks!Ids
  BY <1>3, ElementOfSeq
<1>5. ThreadMarks!At(q, places) \in [1 .. Cardinality(places) -> ThreadMarks!Ids]
  BY <1>4, MarksCount DEF ThreadMarks!At
<1> QED  BY <1>3, <1>5, SeqDef

LEMMA LocatedIsId ==
  ASSUME NEW page \in Seq(ThreadMarks!Ids), ThreadMarks!TypeOK
  PROVE  ThreadMarks!LocateUnread(page) \in 0 .. Newest
<1>1. \A i \in 1 .. Len(page) : page[i] \in ThreadMarks!Ids
  BY ElementOfSeq
<1>2. Newest \in Nat /\ ThreadMarks!Ids = 1 .. Newest /\ Len(page) \in Nat
  BY MarksTypes
<1> DEFINE stops == {i \in {j \in 1 .. Len(page) : page[j] \notin Mine} :
                       ThreadMarks!Cardinality({j \in i .. Len(page) : page[j] \notin Mine}) = v9}
<1>4. stops # {} => (CHOOSE i \in stops : TRUE) \in 1 .. Len(page)
  OBVIOUS
<1>5. page # <<>> => 1 \in 1 .. Len(page)
  BY <1>2
<1>6. ThreadMarks!LocateUnread(page) = IF v9 = 0 \/ page = <<>> THEN 0
                           ELSE IF stops = {} THEN page[1] ELSE page[CHOOSE i \in stops : TRUE]
  BY DEF ThreadMarks!LocateUnread
<1> HIDE DEF stops
<1> QED  BY <1>1, <1>2, <1>4, <1>5, <1>6

LEMMA LowestIs ==
  ASSUME NEW S \in SUBSET (1 .. Newest)
  PROVE  /\ S = {} => ThreadMarks!Lowest(S) = 0
         /\ S # {} => ThreadMarks!Lowest(S) \in S /\ \A k \in S : ThreadMarks!Lowest(S) <= k
         /\ ThreadMarks!Lowest(S) \in 0 .. Newest
<1>1. Newest \in Nat
  BY MarksAssumption
<1>2. S \in SUBSET Nat /\ IsFiniteSet(S)
  BY <1>1, FewerIds
<1>3. S # {} => \E n \in S : \A k \in S : n <= k
  BY <1>2, LeastIs
<1>4. S # {} => ThreadMarks!Lowest(S) \in S /\ \A k \in S : ThreadMarks!Lowest(S) <= k
  BY <1>3 DEF ThreadMarks!Lowest
<1>5. S = {} => ThreadMarks!Lowest(S) = 0
  BY DEF ThreadMarks!Lowest
<1>6. ThreadMarks!Lowest(S) \in 0 .. Newest
  <2>1. CASE S = {}
    BY <1>1, <1>5, <2>1
  <2>2. CASE S # {}
    <3>1. ThreadMarks!Lowest(S) \in 1 .. Newest
      BY <1>4, <2>2
    <3> QED  BY <1>1, <3>1
  <2> QED  BY <2>1, <2>2
<1> QED  BY <1>4, <1>5, <1>6

-----------------------------------------------------------------------------
(* The types hold, and a body that was kept is laid out like a drawn one.  *)
TypedStep == ThreadMarks!TypeOK' /\ CacheLaid'

LEMMA MarksStart == ThreadMarks!Init => ThreadMarks!TypeOK /\ CacheLaid
<1> SUFFICES ASSUME ThreadMarks!Init PROVE ThreadMarks!TypeOK /\ CacheLaid
  OBVIOUS
<1>1. Newest \in Nat /\ 1 .. Mirrored \subseteq ThreadMarks!Ids /\ Mirrored \in 0 .. Newest /\ ReadTo \in 0 .. Newest
      /\ First \in Chats
  BY MarksAssumption DEF ThreadMarks!Ids
<1>2. v1 \in [Chats -> SUBSET ThreadMarks!Ids] /\ v2 \in [Chats -> 0 .. Newest] /\ v3 \in [Chats -> 0 .. Newest]
  BY <1>1 DEF ThreadMarks!Init
<1>3. ThreadMarks!Unread(First) \in SUBSET (1 .. Newest)
  BY <1>1, <1>2 DEF ThreadMarks!Unread, ThreadMarks!Ids
<1>4. v9 \in 0 .. Newest
  BY <1>1, <1>3, FewerIds, MarksCount DEF ThreadMarks!Init
<1>5. v18 \in 0 .. Newest
  BY <1>1, <1>3, LowestIs DEF ThreadMarks!Init
<1>6. /\ v5 \in Seq(ThreadMarks!Ids) /\ v12 \in Seq(Seq([id : ThreadMarks!Ids, start : Nat, end : Nat]))
      /\ Len(v12) <= 1 /\ CacheLaid
  BY DEF ThreadMarks!Init, CacheLaid
<1>7. {v6, v13, v19} \subseteq BOOLEAN
  BY DEF ThreadMarks!Init
<1> QED
  BY <1>1, <1>2, <1>4, <1>5, <1>6, <1>7 DEF ThreadMarks!Init, ThreadMarks!TypeOK

LEMMA OpensTyped ==
  ASSUME ThreadMarks!TypeOK, CacheLaid, NEW c \in Chats, ThreadMarks!OpenChat(c)
  PROVE  TypedStep
<1> USE MarksTypes
<1>1. ThreadMarks!Unread(c) \in SUBSET (1 .. Newest) /\ Newest \in Nat
  BY DEF ThreadMarks!Unread
<1>2. v9' \in 0 .. Newest
  BY <1>1, FewerIds, MarksCount DEF ThreadMarks!OpenChat
<1>3. v18' \in 0 .. Newest
  BY <1>1, LowestIs DEF ThreadMarks!OpenChat
<1> QED
  BY <1>2, <1>3, <1>1 DEF ThreadMarks!OpenChat, ThreadMarks!DropSelection, ThreadMarks!outside,
           ThreadMarks!ask, ThreadMarks!TypeOK, CacheLaid, TypedStep

LEMMA LoadsTyped ==
  ASSUME ThreadMarks!TypeOK, CacheLaid, ThreadMarks!LoadLands
  PROVE  TypedStep
<1> USE MarksTypes
<1>1. v5' \in Seq(ThreadMarks!Ids)
  BY NewestAreListed DEF ThreadMarks!LoadLands
<1>2. v10' \in 0 .. Newest
  BY <1>1, LocatedIsId DEF ThreadMarks!LoadLands
<1>3. v19' \in BOOLEAN /\ v6' \in BOOLEAN
  BY DEF ThreadMarks!LoadLands
<1> QED
  BY <1>1, <1>2, <1>3 DEF ThreadMarks!LoadLands, ThreadMarks!outside, ThreadMarks!ask,
           ThreadMarks!picked, ThreadMarks!light, ThreadMarks!TypeOK, CacheLaid, TypedStep

LEMMA PagesTyped ==
  ASSUME ThreadMarks!TypeOK, CacheLaid, ThreadMarks!OlderPage
  PROVE  TypedStep
<1> USE MarksTypes
<1>1. PICK S : S = {n \in v1[v4] : n < v5[1]}
  OBVIOUS
<1>2. S \in SUBSET ThreadMarks!Ids
  BY <1>1
<1>3. ThreadMarks!NewestOf(S, PageSize) \in Seq(ThreadMarks!Ids)
  BY <1>2, NewestAreListed
<1>4. v5' = ThreadMarks!NewestOf(S, PageSize) \o v5
  BY <1>1 DEF ThreadMarks!OlderPage
<1>5. v5' \in Seq(ThreadMarks!Ids)
  BY <1>3, <1>4, ConcatProperties
<1> QED
  BY <1>5 DEF ThreadMarks!OlderPage, ThreadMarks!outside, ThreadMarks!ask, ThreadMarks!picked,
           ThreadMarks!light, ThreadMarks!TypeOK, CacheLaid, TypedStep

LEMMA ArrivesTyped ==
  ASSUME ThreadMarks!TypeOK, CacheLaid, NEW c \in Chats, ThreadMarks!Arrives(c)
  PROVE  TypedStep
<1> USE MarksTypes
<1>1. v2[c] + 1 \in ThreadMarks!Ids /\ v2[c] + 1 \in 0 .. Newest
  BY DEF ThreadMarks!Arrives
<1>2. v5' \in Seq(ThreadMarks!Ids)
  BY <1>1, AppendProperties DEF ThreadMarks!Arrives
<1>3. v2' \in [Chats -> 0 .. Newest] /\ v1' \in [Chats -> SUBSET ThreadMarks!Ids]
  BY <1>1 DEF ThreadMarks!Arrives
<1>4. v19' \in BOOLEAN
  BY DEF ThreadMarks!Arrives, ThreadMarks!Stirs
<1> QED
  BY <1>2, <1>3, <1>4 DEF ThreadMarks!Arrives, ThreadMarks!ask, ThreadMarks!picked,
           ThreadMarks!light, ThreadMarks!TypeOK, CacheLaid, TypedStep

LEMMA GoesTyped ==
  ASSUME ThreadMarks!TypeOK, CacheLaid, NEW c \in Chats, NEW id \in ThreadMarks!Ids, ThreadMarks!DeletedElsewhere(c, id)
  PROVE  TypedStep
<1> USE MarksTypes
<1>1. v5' \in Seq(ThreadMarks!Ids)
  <2>1. DOMAIN v5 = 1 .. Len(v5)
    OBVIOUS
  <2>2. {i \in DOMAIN v5 : v5[i] # id} \in SUBSET (1 .. Len(v5))
    BY <2>1
  <2> QED  BY <2>2, SomePlaces DEF ThreadMarks!DeletedElsewhere, ThreadMarks!Without
<1>2. v1' \in [Chats -> SUBSET ThreadMarks!Ids] /\ v19' \in BOOLEAN
  BY DEF ThreadMarks!DeletedElsewhere
<1> QED
  BY <1>1, <1>2 DEF ThreadMarks!DeletedElsewhere, ThreadMarks!ask, ThreadMarks!picked,
           ThreadMarks!light, ThreadMarks!TypeOK, CacheLaid, TypedStep

LEMMA AckTyped ==
  ASSUME ThreadMarks!TypeOK, CacheLaid, ThreadMarks!Acknowledged
  PROVE  TypedStep
BY MarksTypes DEF ThreadMarks!Acknowledged, ThreadMarks!rows, ThreadMarks!ask,
         ThreadMarks!picked, ThreadMarks!light, ThreadMarks!TypeOK, CacheLaid, TypedStep

LEMMA MovesTyped ==
  ASSUME ThreadMarks!TypeOK, CacheLaid, NEW delta \in {-1, 1}, ThreadMarks!MoveCursor(delta)
  PROVE  TypedStep
<1> USE MarksTypes
<1>1. PICK from : /\ from = IF ThreadMarks!CursorIndex # 0 THEN ThreadMarks!CursorIndex + delta
                            ELSE IF delta > 0 THEN Len(v5) ELSE Len(v5) + delta + 1
                  /\ v7' = ThreadMarks!Ref(v4, v5[ThreadMarks!Clamp(from)])
  BY DEF ThreadMarks!MoveCursor
<1>2. v5 # <<>> /\ Len(v5) \in Nat
  BY DEF ThreadMarks!MoveCursor
<1>3. from \in Int
  BY <1>1, <1>2, CursorIsId
<1>4. v7' \in ThreadMarks!Refs
  BY <1>1, <1>2, <1>3, CursorIsId DEF ThreadMarks!Ref, ThreadMarks!Refs
<1> QED
  BY <1>4 DEF ThreadMarks!MoveCursor, ThreadMarks!outside, ThreadMarks!rows, ThreadMarks!ask,
           ThreadMarks!light, ThreadMarks!TypeOK, CacheLaid, TypedStep

LEMMA TogglesTyped ==
  ASSUME ThreadMarks!TypeOK, CacheLaid, ThreadMarks!ToggleMark
  PROVE  TypedStep
<1> USE MarksTypes
<1>1. v5 # <<>>
  BY DEF ThreadMarks!ToggleMark
<1>2. v8' \subseteq ThreadMarks!Refs
  BY <1>1, CursorIsId DEF ThreadMarks!ToggleMark, ThreadMarks!Ref, ThreadMarks!Refs
<1> QED
  BY <1>2 DEF ThreadMarks!ToggleMark, ThreadMarks!outside, ThreadMarks!rows, ThreadMarks!ask,
           ThreadMarks!light, ThreadMarks!TypeOK, CacheLaid, TypedStep

LEMMA ForgetsTyped ==
  ASSUME ThreadMarks!TypeOK, CacheLaid, ThreadMarks!Forget \/ ThreadMarks!Copy \/ ThreadMarks!ClickAway \/ ThreadMarks!Confirm \/ ThreadMarks!Dismiss
  PROVE  TypedStep
<1> USE MarksTypes
<1>0. CASE ThreadMarks!Forget
  <2>1. v11' = <<>> /\ v8' = {} /\ v12' = <<>>
    BY <1>0 DEF ThreadMarks!Forget
  <2>2. UNCHANGED <<ThreadMarks!outside, v4, ThreadMarks!rows, v7, v13, v17, ThreadMarks!ask>>
    BY <1>0 DEF ThreadMarks!Forget
  <2> QED  BY <2>1, <2>2 DEF ThreadMarks!outside, ThreadMarks!rows, ThreadMarks!ask,
           ThreadMarks!TypeOK, CacheLaid, TypedStep
<1>1. CASE ThreadMarks!ClickAway
  <2>1. v11' = <<>> /\ v12' = <<>>
    BY <1>1 DEF ThreadMarks!ClickAway
  <2>2. UNCHANGED <<ThreadMarks!outside, v4, ThreadMarks!rows, ThreadMarks!picked, v13, v17, ThreadMarks!ask>>
    BY <1>1 DEF ThreadMarks!ClickAway
  <2> QED  BY <2>1, <2>2 DEF ThreadMarks!picked, ThreadMarks!outside, ThreadMarks!rows,
           ThreadMarks!ask, ThreadMarks!TypeOK, CacheLaid, TypedStep
<1>2. CASE ThreadMarks!Copy
  BY <1>2 DEF ThreadMarks!Copy, ThreadMarks!outside, ThreadMarks!rows, ThreadMarks!ask,
           ThreadMarks!light, ThreadMarks!TypeOK, CacheLaid, TypedStep
<1>3. CASE ThreadMarks!Confirm
  <2>1. v15' \subseteq ThreadMarks!Refs
    BY <1>3 DEF ThreadMarks!Confirm, ThreadMarks!Ref, ThreadMarks!Refs
  <2> QED
    BY <1>3, <2>1 DEF ThreadMarks!Confirm, ThreadMarks!outside, ThreadMarks!rows,
             ThreadMarks!light, ThreadMarks!TypeOK, CacheLaid, TypedStep
<1>4. CASE ThreadMarks!Dismiss
  BY <1>4 DEF ThreadMarks!Dismiss, ThreadMarks!outside, ThreadMarks!rows, ThreadMarks!picked,
           ThreadMarks!light, ThreadMarks!TypeOK, CacheLaid, TypedStep
<1> QED  BY <1>0, <1>1, <1>2, <1>3, <1>4

LEMMA AsksTyped ==
  ASSUME ThreadMarks!TypeOK, CacheLaid, ThreadMarks!AskDelete
  PROVE  TypedStep
<1> USE MarksTypes
<1>1. ThreadMarks!Targets \subseteq ThreadMarks!Ids
  <2>1. v5 # <<>>
    BY DEF ThreadMarks!AskDelete, ThreadMarks!Targets
  <2> QED  BY <2>1, CursorIsId
<1>2. v14' \in [in : Chats, ids : SUBSET ThreadMarks!Ids] /\ v16' \subseteq ThreadMarks!Refs
  BY <1>1 DEF ThreadMarks!AskDelete, ThreadMarks!Ref, ThreadMarks!Refs
<1> QED
  BY <1>2 DEF ThreadMarks!AskDelete, ThreadMarks!outside, ThreadMarks!rows, ThreadMarks!picked,
           ThreadMarks!light, ThreadMarks!TypeOK, CacheLaid, TypedStep

LEMMA PressesTyped ==
  ASSUME ThreadMarks!TypeOK, CacheLaid, NEW at \in ThreadMarks!Pointer, ThreadMarks!Press(at)
  PROVE  TypedStep
<1> USE MarksTypes
<1>1. at \in ThreadMarks!Cells
  BY PointerCells
<1>2. ThreadMarks!RenderContent \in Spans /\ Laid(ThreadMarks!RenderContent) /\ ThreadMarks!DrawnAt(at) \in 0 .. Newest
      /\ ThreadMarks!MessageAt(at) \in {0} \cup ThreadMarks!Ids
  BY <1>1, BodyLaid, DrawnIsId
<1>3. v12' = <<ThreadMarks!RenderContent>>
  BY DEF ThreadMarks!Press
<1>4. v12' \in Seq(Seq(SpanSet)) /\ Len(v12') <= 1 /\ CacheLaid'
  BY <1>2, <1>3 DEF Spans, SpanSet, CacheLaid
<1>5. v7' \in ThreadMarks!Refs \cup {ThreadMarks!NoRef}
  BY <1>2 DEF ThreadMarks!Press, ThreadMarks!Ref, ThreadMarks!Refs
<1>6. v11' \in [anchor : ThreadMarks!Cells, cursor : ThreadMarks!Cells] /\ v17' \in 0 .. Newest
  BY <1>1, <1>2 DEF ThreadMarks!Press
<1> QED
  BY <1>4, <1>5, <1>6 DEF ThreadMarks!Press, ThreadMarks!outside, ThreadMarks!rows,
           ThreadMarks!ask, SpanSet, ThreadMarks!TypeOK, TypedStep

LEMMA DragsTyped ==
  ASSUME ThreadMarks!TypeOK, CacheLaid, NEW at \in ThreadMarks!Pointer, ThreadMarks!Drag(at)
  PROVE  TypedStep
<1> USE MarksTypes
<1>1. at \in ThreadMarks!Cells
  BY PointerCells
<1>2. v11' \in [anchor : ThreadMarks!Cells, cursor : ThreadMarks!Cells]
  BY <1>1 DEF ThreadMarks!Drag
<1> QED
  BY <1>2 DEF ThreadMarks!Drag, ThreadMarks!outside, ThreadMarks!rows, ThreadMarks!picked,
           ThreadMarks!ask, ThreadMarks!TypeOK, CacheLaid, TypedStep

LEMMA ReleasesTyped ==
  ASSUME ThreadMarks!TypeOK, CacheLaid, ThreadMarks!Release
  PROVE  TypedStep
<1> USE MarksTypes
<1>1. v11' \in {<<>>} \cup [anchor : ThreadMarks!Cells, cursor : ThreadMarks!Cells]
  BY DEF ThreadMarks!Release
<1>2. v12' = <<>> /\ v13' = FALSE
      /\ UNCHANGED <<ThreadMarks!outside, v4, ThreadMarks!rows, ThreadMarks!picked, v17, ThreadMarks!ask>>
  BY DEF ThreadMarks!Release
<1>3. CacheLaid'
  BY <1>2 DEF CacheLaid
<1>4. /\ v12' \in Seq(Seq([id : ThreadMarks!Ids, start : Nat, end : Nat])) /\ Len(v12') <= 1
  BY <1>2
<1>6. v6' \in BOOLEAN /\ v13' \in BOOLEAN /\ v19' \in BOOLEAN
  BY <1>2 DEF ThreadMarks!rows
<1>7. {v6', v13', v19'} \subseteq BOOLEAN
  BY <1>6
<1>5. UNCHANGED <<v1, v2, v3, v4, v5, v9, v10, v18, v7,
                  v8, v14, v15, v16, v17>>
  BY <1>2 DEF ThreadMarks!outside, ThreadMarks!rows, ThreadMarks!picked, ThreadMarks!ask
<1> QED
  BY <1>1, <1>3, <1>4, <1>5, <1>7 DEF ThreadMarks!TypeOK, TypedStep

LEMMA PicksWholeTyped ==
  ASSUME ThreadMarks!TypeOK, CacheLaid, NEW at \in ThreadMarks!Pointer, ThreadMarks!DoublePress(at)
  PROVE  TypedStep
<1> USE MarksTypes
<1>1. at \in ThreadMarks!Cells
  BY PointerCells
<1>2. PICK spans, line, i : /\ spans = ThreadMarks!RenderContent /\ line = ThreadMarks!ClampCell(spans, at).line
                            /\ i = ThreadMarks!SpanIndexAt(spans, line)
  OBVIOUS
<1>3. spans \in Spans /\ Laid(spans)
  BY <1>2, BodyLaid
<1>4. line \in Int
  BY <1>1, <1>2, <1>3, Clamped, LastIsLast
<1>5. i \in 0 .. Len(spans) /\ i # 0
  BY <1>2, <1>3, <1>4, SpanFound DEF ThreadMarks!DoublePress
<1>6. spans[i].id \in ThreadMarks!Ids /\ spans[i].start \in Nat /\ spans[i].end \in Nat
  BY <1>3, <1>5, SpanTypes
<1>7. v11' = [anchor |-> ThreadMarks!Cell(spans[i].start, 0),
              cursor |-> ThreadMarks!Cell(spans[i].end - 1, ThreadMarks!LineWidth(spans, spans[i].end - 1))]
      /\ v17' = spans[i].id
  BY <1>2 DEF ThreadMarks!DoublePress
<1>8. ThreadMarks!LineWidth(spans, spans[i].end - 1) \in 0 .. Width
  BY DEF ThreadMarks!LineWidth
<1>9. v11' \in [anchor : ThreadMarks!Cells, cursor : ThreadMarks!Cells] /\ v17' \in 0 .. Newest
  <2>1. PICK a, b : a = ThreadMarks!Cell(spans[i].start, 0) /\ b = ThreadMarks!Cell(spans[i].end - 1, ThreadMarks!LineWidth(spans, spans[i].end - 1))
    OBVIOUS
  <2>2. a \in ThreadMarks!Cells /\ b \in ThreadMarks!Cells
    BY <1>6, <1>8, <2>1 DEF ThreadMarks!Cell, ThreadMarks!Cells
  <2> QED  BY <1>6, <1>7, <2>1, <2>2
<1> QED
  BY <1>9 DEF ThreadMarks!DoublePress, ThreadMarks!outside, ThreadMarks!rows, ThreadMarks!picked,
           ThreadMarks!ask, ThreadMarks!TypeOK, CacheLaid, TypedStep

-----------------------------------------------------------------------------
(* What was picked out, dragged over and asked about.                      *)
DragInv ==
    /\ ~v13 => v12 = <<>>
    /\ v13 /\ v11 # <<>> => v12 # <<>>
    /\ ThreadMarks!DragIsSteady
AskInv ==
    /\ v15 \subseteq v16
    /\ v14 # <<>> => \A n \in v14.ids : ThreadMarks!Ref(v14.in, n) \in v16
ReadInv ==
    /\ v19 => /\ v18 \in ThreadMarks!Ids /\ v18 \notin Mine
              /\ v6 => v9 = Cardinality({n \in v1[v4] : n >= v18 /\ n \notin Mine})
    /\ ThreadMarks!DividerWhereReadingStopped

LEMMA PlacedHere ==
  ASSUME ThreadMarks!NothingCarriedOver, ThreadMarks!Next
  PROVE  ThreadMarks!NothingCarriedOver'
<1> USE DEF ThreadMarks!NothingCarriedOver
<1>1. ASSUME NEW c \in Chats, ThreadMarks!OpenChat(c) PROVE ThreadMarks!NothingCarriedOver'
  BY <1>1 DEF ThreadMarks!OpenChat, ThreadMarks!DropSelection
<1>2. ASSUME NEW c \in Chats, NEW id \in ThreadMarks!Ids, ThreadMarks!DeletedElsewhere(c, id) PROVE ThreadMarks!NothingCarriedOver'
  BY <1>2 DEF ThreadMarks!DeletedElsewhere, ThreadMarks!picked
<1>3. ASSUME NEW delta \in {-1, 1}, ThreadMarks!MoveCursor(delta) PROVE ThreadMarks!NothingCarriedOver'
  BY <1>3 DEF ThreadMarks!MoveCursor, ThreadMarks!Ref
<1>4. ASSUME NEW at \in ThreadMarks!Pointer, ThreadMarks!Press(at) \/ ThreadMarks!Drag(at) \/ ThreadMarks!DoublePress(at) PROVE ThreadMarks!NothingCarriedOver'
  BY <1>4 DEF ThreadMarks!Press, ThreadMarks!Drag, ThreadMarks!DoublePress, ThreadMarks!picked,
           ThreadMarks!Ref
<1>5. CASE ThreadMarks!LoadLands \/ ThreadMarks!OlderPage \/ ThreadMarks!Acknowledged
  BY <1>5 DEF ThreadMarks!LoadLands, ThreadMarks!OlderPage, ThreadMarks!Acknowledged,
           ThreadMarks!picked
<1>6. CASE ThreadMarks!ToggleMark
  BY <1>6 DEF ThreadMarks!ToggleMark, ThreadMarks!Ref
<1>7. CASE ThreadMarks!Forget \/ ThreadMarks!Copy \/ ThreadMarks!AskDelete \/ ThreadMarks!Confirm \/ ThreadMarks!Dismiss \/ ThreadMarks!Release \/ ThreadMarks!ClickAway
  BY <1>7 DEF ThreadMarks!Forget, ThreadMarks!Copy, ThreadMarks!AskDelete, ThreadMarks!Confirm,
           ThreadMarks!Dismiss, ThreadMarks!Release, ThreadMarks!ClickAway, ThreadMarks!picked
<1>8. ASSUME NEW c \in Chats, ThreadMarks!Arrives(c) PROVE ThreadMarks!NothingCarriedOver'
  BY <1>8 DEF ThreadMarks!Arrives, ThreadMarks!picked
<1> QED  BY <1>1, <1>2, <1>3, <1>4, <1>5, <1>6, <1>7, <1>8 DEF ThreadMarks!Next

LEMMA AskedFor ==
  ASSUME AskInv, ThreadMarks!Next
  PROVE  AskInv'
<1> USE DEF AskInv
<1>1. ASSUME NEW c \in Chats, ThreadMarks!OpenChat(c) PROVE AskInv'
  BY <1>1 DEF ThreadMarks!OpenChat, ThreadMarks!ask
<1>2. ASSUME NEW c \in Chats, NEW id \in ThreadMarks!Ids, ThreadMarks!DeletedElsewhere(c, id) PROVE AskInv'
  BY <1>2 DEF ThreadMarks!DeletedElsewhere, ThreadMarks!ask
<1>3. ASSUME NEW delta \in {-1, 1}, ThreadMarks!MoveCursor(delta) PROVE AskInv'
  BY <1>3 DEF ThreadMarks!MoveCursor, ThreadMarks!ask
<1>4. ASSUME NEW at \in ThreadMarks!Pointer, ThreadMarks!Press(at) \/ ThreadMarks!Drag(at) \/ ThreadMarks!DoublePress(at) PROVE AskInv'
  BY <1>4 DEF ThreadMarks!Press, ThreadMarks!Drag, ThreadMarks!DoublePress, ThreadMarks!ask
<1>5. CASE ThreadMarks!LoadLands \/ ThreadMarks!OlderPage \/ ThreadMarks!Acknowledged \/ ThreadMarks!ToggleMark
  BY <1>5 DEF ThreadMarks!LoadLands, ThreadMarks!OlderPage, ThreadMarks!Acknowledged,
           ThreadMarks!ToggleMark, ThreadMarks!ask
<1>6. CASE ThreadMarks!Forget \/ ThreadMarks!Copy \/ ThreadMarks!Release \/ ThreadMarks!ClickAway
  BY <1>6 DEF ThreadMarks!Forget, ThreadMarks!Copy, ThreadMarks!Release, ThreadMarks!ClickAway,
           ThreadMarks!ask
<1>7. CASE ThreadMarks!AskDelete
  BY <1>7 DEF ThreadMarks!AskDelete
<1>8. CASE ThreadMarks!Confirm \/ ThreadMarks!Dismiss
  BY <1>8 DEF ThreadMarks!Confirm, ThreadMarks!Dismiss
<1>9. ASSUME NEW c \in Chats, ThreadMarks!Arrives(c) PROVE AskInv'
  BY <1>9 DEF ThreadMarks!Arrives, ThreadMarks!ask
<1> QED  BY <1>1, <1>2, <1>3, <1>4, <1>5, <1>6, <1>7, <1>8, <1>9 DEF ThreadMarks!Next

LEMMA BodyStays ==
  ASSUME v12 # <<>>, UNCHANGED v12
  PROVE  ThreadMarks!RenderContent' = ThreadMarks!RenderContent /\ \A at : ThreadMarks!DrawnAt(at)' = ThreadMarks!DrawnAt(at)
<1>1. ThreadMarks!RenderContent' = ThreadMarks!RenderContent
  BY DEF ThreadMarks!RenderContent
<1> QED  BY <1>1 DEF ThreadMarks!DrawnAt

LEMMA DragStays ==
  ASSUME DragInv, UNCHANGED <<v12, v13, v17>>,
         v11' = v11 \/ v11' = <<>> \/ (v11 # <<>> /\ v11' # <<>> /\ v11'.anchor = v11.anchor)
  PROVE  DragInv'
<1>1. /\ ~v13' => v12' = <<>>
      /\ v13' /\ v11' # <<>> => v12' # <<>>
  BY DEF DragInv
<1>2. ASSUME v13', v11' # <<>> PROVE ThreadMarks!DrawnAt(v11.anchor)' = v17'
  <2>1. v13 /\ v11 # <<>> /\ v12 # <<>> /\ v11'.anchor = v11.anchor
    BY <1>2 DEF DragInv
  <2>2. ThreadMarks!RenderContent' = ThreadMarks!RenderContent
    BY <2>1, BodyStays
  <2>3. ThreadMarks!DrawnAt(v11.anchor) = v17
    BY <2>1 DEF DragInv, ThreadMarks!DragIsSteady
  <2> QED  BY <2>1, <2>2, <2>3 DEF ThreadMarks!DrawnAt
<1> QED  BY <1>1, <1>2 DEF DragInv, ThreadMarks!DragIsSteady

LEMMA DragHeld ==
  ASSUME DragInv, ThreadMarks!Next
  PROVE  DragInv'
<1>1. ASSUME NEW c \in Chats, ThreadMarks!OpenChat(c) PROVE DragInv'
  BY <1>1 DEF ThreadMarks!OpenChat, ThreadMarks!DropSelection, DragInv, ThreadMarks!DragIsSteady
<1>2. ASSUME NEW c \in Chats, NEW id \in ThreadMarks!Ids, ThreadMarks!DeletedElsewhere(c, id) PROVE DragInv'
  BY <1>2, DragStays DEF ThreadMarks!DeletedElsewhere, ThreadMarks!light
<1>3. ASSUME NEW delta \in {-1, 1}, ThreadMarks!MoveCursor(delta) PROVE DragInv'
  BY <1>3, DragStays DEF ThreadMarks!MoveCursor, ThreadMarks!light
<1>4. ASSUME NEW at \in ThreadMarks!Pointer, ThreadMarks!Press(at) PROVE DragInv'
  <2>1. v12' = <<ThreadMarks!RenderContent>> /\ v13' = TRUE /\ v11' = [anchor |-> at, cursor |-> at]
        /\ v17' = ThreadMarks!DrawnAt(at)
    BY <1>4 DEF ThreadMarks!Press
  <2>2. v12' # <<>> /\ ThreadMarks!RenderContent' = ThreadMarks!RenderContent
    BY <2>1 DEF ThreadMarks!RenderContent
  <2>3. ThreadMarks!DrawnAt(v11.anchor)' = ThreadMarks!DrawnAt(at)
    BY <2>1, <2>2 DEF ThreadMarks!DrawnAt
  <2> QED  BY <2>1, <2>2, <2>3 DEF DragInv, ThreadMarks!DragIsSteady
<1>5. ASSUME NEW at \in ThreadMarks!Pointer, ThreadMarks!Drag(at) PROVE DragInv'
  <2>1. v11 # <<>> /\ v11' = [v11 EXCEPT !.cursor = at] /\ UNCHANGED <<v12, v13, v17>>
    BY <1>5 DEF ThreadMarks!Drag
  <2> QED  BY <2>1, DragStays
<1>6. ASSUME NEW at \in ThreadMarks!Pointer, ThreadMarks!DoublePress(at) PROVE DragInv'
  BY <1>6 DEF ThreadMarks!DoublePress, DragInv, ThreadMarks!DragIsSteady
<1>7. CASE ThreadMarks!LoadLands \/ ThreadMarks!OlderPage \/ ThreadMarks!Acknowledged \/ ThreadMarks!ToggleMark
  BY <1>7, DragStays DEF ThreadMarks!LoadLands, ThreadMarks!OlderPage, ThreadMarks!Acknowledged,
           ThreadMarks!ToggleMark, ThreadMarks!light
<1>8. CASE ThreadMarks!Copy \/ ThreadMarks!AskDelete \/ ThreadMarks!Confirm \/ ThreadMarks!Dismiss
  BY <1>8, DragStays DEF ThreadMarks!Copy, ThreadMarks!AskDelete, ThreadMarks!Confirm,
           ThreadMarks!Dismiss, ThreadMarks!light
<1>9. CASE ThreadMarks!Forget \/ ThreadMarks!Release \/ ThreadMarks!ClickAway
  BY <1>9 DEF ThreadMarks!Forget, ThreadMarks!Release, ThreadMarks!ClickAway, DragInv,
           ThreadMarks!DragIsSteady
<1>10. ASSUME NEW c \in Chats, ThreadMarks!Arrives(c) PROVE DragInv'
  BY <1>10, DragStays DEF ThreadMarks!Arrives, ThreadMarks!light
<1> QED  BY <1>1, <1>2, <1>3, <1>4, <1>5, <1>6, <1>7, <1>8, <1>9, <1>10 DEF ThreadMarks!Next

Covered(S, b) == {n \in S : n >= b /\ n \notin Mine}

(* The page is the newest part of the table: what is unread from b on is   *)
(* in it if b is.                                                          *)
LEMMA PageCovers ==
  ASSUME NEW S \in SUBSET ThreadMarks!Ids, NEW n \in Nat, NEW b \in ThreadMarks!ToSet(ThreadMarks!NewestOf(S, n)), b \notin Mine,
         v9 = Cardinality(Covered(S, b))
  PROVE  ThreadMarks!LocateUnread(ThreadMarks!NewestOf(S, n)) = b
<1>1. PICK T : T = {k \in S : Cardinality({j \in S : j > k}) < n}
  OBVIOUS
<1>2. Newest \in Nat /\ S \in SUBSET (1 .. Newest) /\ T \in SUBSET (1 .. Newest)
  BY <1>1, MarksAssumption DEF ThreadMarks!Ids
<1>3. T \in SUBSET Nat /\ IsFiniteSet(T) /\ IsFiniteSet(S)
  <2>1. IsFiniteSet(T) /\ IsFiniteSet(S)
    BY <1>2, FewerIds
  <2>2. 1 .. Newest \subseteq Nat
    BY <1>2
  <2> QED  BY <1>2, <2>1, <2>2
<1>4. ThreadMarks!NewestOf(S, n) = ThreadMarks!InOrder(T)
  BY <1>1, MarksCount DEF ThreadMarks!NewestOf
<1>5. b \in T
  <2>1. ThreadMarks!InOrder(T) \in Seq(T)
    BY <1>3, InOrderLists
  <2>2. \A i \in 1 .. Len(ThreadMarks!InOrder(T)) : ThreadMarks!InOrder(T)[i] \in T
    BY <2>1, ElementOfSeq
  <2> QED  BY <1>4, <2>2 DEF ThreadMarks!ToSet
<1>6. ASSUME NEW m \in S, m >= b PROVE m \in T
  <2>0. m \in Nat /\ b \in Nat /\ m >= b /\ \A j \in S : j \in Nat
    BY <1>2, <1>5, <1>6
  <2>1. {j \in S : j > m} \subseteq {j \in S : j > b} /\ {j \in S : j > b} \subseteq S
    <3>1. ASSUME NEW j \in S, j > m PROVE j > b
      <4>1. j \in Nat
        BY <2>0
      <4> QED  BY <2>0, <3>1, <4>1
    <3> QED  BY <3>1
  <2>2. IsFiniteSet({j \in S : j > b}) /\ IsFiniteSet({j \in S : j > m})
    BY <1>3, FS_Subset
  <2>3. Cardinality({j \in S : j > m}) <= Cardinality({j \in S : j > b})
    BY <2>1, <2>2, FS_Subset
  <2>4. Cardinality({j \in S : j > b}) < n
    BY <1>1, <1>5
  <2>5. Cardinality({j \in S : j > m}) \in Nat /\ Cardinality({j \in S : j > b}) \in Nat
    BY <2>2, FS_CardinalityType
  <2> QED  BY <1>1, <2>3, <2>4, <2>5
<1>7. Covered(S, b) = {k \in T : k >= b /\ k \notin Mine}
  BY <1>1, <1>6 DEF Covered
<1> QED  BY <1>3, <1>4, <1>5, <1>7, DividerFound

LEMMA ReadsFrom ==
  ASSUME ThreadMarks!TypeOK, NEW c \in Chats, ThreadMarks!Unread(c) # {}
  PROVE  LET b == ThreadMarks!Lowest(ThreadMarks!Unread(c))
         IN  /\ b \in ThreadMarks!Ids /\ b \notin Mine
             /\ Cardinality(ThreadMarks!Unread(c)) = Cardinality({n \in v1[c] : n >= b /\ n \notin Mine})
<1>1. PICK b : b = ThreadMarks!Lowest(ThreadMarks!Unread(c))
  OBVIOUS
<1>2. v1[c] \subseteq 1 .. Newest /\ v3[c] \in Nat /\ Newest \in Nat /\ ThreadMarks!Ids = 1 .. Newest
  BY MarksTypes
<1>3. ThreadMarks!Unread(c) \in SUBSET (1 .. Newest)
  BY <1>2 DEF ThreadMarks!Unread
<1>4. b \in ThreadMarks!Unread(c) /\ \A k \in ThreadMarks!Unread(c) : b <= k
  BY <1>1, <1>3, LowestIs
<1>5. b \in ThreadMarks!Ids /\ b \notin Mine /\ b > v3[c]
  BY <1>2, <1>4 DEF ThreadMarks!Unread
<1>6. ThreadMarks!Unread(c) = {n \in v1[c] : n >= b /\ n \notin Mine}
  <2>1. ASSUME NEW n \in v1[c], n >= b, n \notin Mine PROVE n > v3[c]
    BY <1>2, <1>5, <2>1
  <2> QED  BY <1>2, <1>4, <1>5, <2>1 DEF ThreadMarks!Unread
<1> QED  BY <1>1, <1>5, <1>6

LEMMA ReadStart == ThreadMarks!Init => ReadInv
<1> SUFFICES ASSUME ThreadMarks!Init PROVE ReadInv
  OBVIOUS
<1>1. ThreadMarks!TypeOK /\ First \in Chats
  BY MarksStart, MarksAssumption
<1>2. v6 = TRUE /\ v4 = First /\ v9 = Cardinality(ThreadMarks!Unread(First))
      /\ v18 = ThreadMarks!Lowest(ThreadMarks!Unread(First)) /\ (v19 <=> v18 # 0)
  BY MarksCount DEF ThreadMarks!Init
<1>3. v19 => ThreadMarks!Unread(First) # {}
  BY <1>2 DEF ThreadMarks!Lowest
<1> QED
  BY <1>1, <1>2, <1>3, ReadsFrom DEF ReadInv, ThreadMarks!DividerWhereReadingStopped

LEMMA ReadStays ==
  ASSUME ThreadMarks!TypeOK, ReadInv, UNCHANGED <<v4, v6, v9, v10, v18>>,
         v19' => v19 /\ (v6 => v1'[v4] = v1[v4])
  PROVE  ReadInv'
BY DEF ReadInv, ThreadMarks!DividerWhereReadingStopped

LEMMA ReadKept ==
  ASSUME ThreadMarks!TypeOK, ReadInv, ThreadMarks!Next
  PROVE  ReadInv'
<1> USE MarksTypes
<1>1. ASSUME NEW c \in Chats, ThreadMarks!OpenChat(c) PROVE ReadInv'
  <2>1. v6' = TRUE /\ v4' = c /\ v9' = Cardinality(ThreadMarks!Unread(c)) /\ v1' = v1
        /\ v18' = ThreadMarks!Lowest(ThreadMarks!Unread(c)) /\ (v19' <=> ThreadMarks!Unread(c) # {})
    BY <1>1, MarksCount DEF ThreadMarks!OpenChat, ThreadMarks!outside
  <2> QED
    BY <2>1, ReadsFrom DEF ReadInv, ThreadMarks!DividerWhereReadingStopped
<1>2. ASSUME NEW c \in Chats, ThreadMarks!Arrives(c) PROVE ReadInv'
  BY <1>2, ReadStays DEF ThreadMarks!Arrives, ThreadMarks!Stirs
<1>3. ASSUME NEW c \in Chats, NEW id \in ThreadMarks!Ids, ThreadMarks!DeletedElsewhere(c, id) PROVE ReadInv'
  BY <1>3, ReadStays DEF ThreadMarks!DeletedElsewhere
<1>4. CASE ThreadMarks!LoadLands
  <2>1. /\ v6 /\ ~v6' /\ v5' = ThreadMarks!NewestOf(v1[v4], PageSize)
        /\ v10' = ThreadMarks!LocateUnread(v5')
        /\ v19' = (v19 /\ v18 \in ThreadMarks!ToSet(v5'))
        /\ UNCHANGED <<v1, v4, v9, v18>>
    BY <1>4 DEF ThreadMarks!LoadLands, ThreadMarks!outside
  <2>2. ASSUME v19' PROVE v18 \in ThreadMarks!Ids /\ v18 \notin Mine /\ v10' = v18
    <3>1. /\ v19 /\ v18 \in ThreadMarks!ToSet(v5') /\ v18 \in ThreadMarks!Ids /\ v18 \notin Mine
          /\ v9 = Cardinality(Covered(v1[v4], v18))
      BY <2>1, <2>2 DEF ReadInv, Covered
    <3>2. v1[v4] \in SUBSET ThreadMarks!Ids /\ PageSize \in Nat
      BY MarksAssumption
    <3>3. ThreadMarks!LocateUnread(ThreadMarks!NewestOf(v1[v4], PageSize)) = v18
      BY <2>1, <3>1, <3>2, PageCovers
    <3> QED  BY <2>1, <3>1, <3>3
  <2> QED  BY <2>1, <2>2 DEF ReadInv, ThreadMarks!DividerWhereReadingStopped
<1>5. CASE ThreadMarks!OlderPage
  BY <1>5, ReadStays DEF ThreadMarks!OlderPage, ThreadMarks!outside
<1>6. CASE ThreadMarks!Acknowledged
  BY <1>6, ReadStays DEF ThreadMarks!Acknowledged, ThreadMarks!rows
<1>7. ASSUME NEW delta \in {-1, 1}, ThreadMarks!MoveCursor(delta) PROVE ReadInv'
  BY <1>7, ReadStays DEF ThreadMarks!MoveCursor, ThreadMarks!outside, ThreadMarks!rows
<1>8. ASSUME NEW at \in ThreadMarks!Pointer, ThreadMarks!Press(at) \/ ThreadMarks!Drag(at) \/ ThreadMarks!DoublePress(at) PROVE ReadInv'
  BY <1>8, ReadStays DEF ThreadMarks!Press, ThreadMarks!Drag, ThreadMarks!DoublePress,
           ThreadMarks!outside, ThreadMarks!rows
<1>9. CASE ThreadMarks!ToggleMark \/ ThreadMarks!Forget \/ ThreadMarks!Copy \/ ThreadMarks!AskDelete
  BY <1>9, ReadStays DEF ThreadMarks!ToggleMark, ThreadMarks!Forget, ThreadMarks!Copy,
           ThreadMarks!AskDelete, ThreadMarks!outside, ThreadMarks!rows
<1>10. CASE ThreadMarks!Confirm \/ ThreadMarks!Dismiss \/ ThreadMarks!Release \/ ThreadMarks!ClickAway
  BY <1>10, ReadStays DEF ThreadMarks!Confirm, ThreadMarks!Dismiss, ThreadMarks!Release,
           ThreadMarks!ClickAway, ThreadMarks!outside, ThreadMarks!rows
<1> QED
  BY <1>1, <1>2, <1>3, <1>4, <1>5, <1>6, <1>7, <1>8, <1>9, <1>10 DEF ThreadMarks!Next

-----------------------------------------------------------------------------
(* The invariant.                                                          *)
MarksInv ==
    ThreadMarks!TypeOK /\ CacheLaid /\ ThreadMarks!NothingCarriedOver /\ DragInv /\ AskInv /\ ReadInv

LEMMA MarksBegin == ThreadMarks!Init => MarksInv
<1> SUFFICES ASSUME ThreadMarks!Init PROVE MarksInv
  OBVIOUS
<1>1. ThreadMarks!NothingCarriedOver /\ DragInv /\ AskInv
  BY DEF ThreadMarks!Init, ThreadMarks!NothingCarriedOver, DragInv, ThreadMarks!DragIsSteady, AskInv
<1> QED  BY <1>1, MarksStart, ReadStart DEF MarksInv

LEMMA MarksKeep == MarksInv /\ (ThreadMarks!Next \/ UNCHANGED ThreadMarks!vars) => MarksInv'
<1>1. ASSUME MarksInv, ThreadMarks!Next PROVE MarksInv'
  <2>1. ThreadMarks!TypeOK /\ CacheLaid
    BY <1>1 DEF MarksInv
  <2>2. TypedStep
    BY <1>1, <2>1, OpensTyped, LoadsTyped, PagesTyped, ArrivesTyped, GoesTyped, AckTyped, MovesTyped,
       TogglesTyped, ForgetsTyped, AsksTyped, PressesTyped, DragsTyped, ReleasesTyped, PicksWholeTyped
       DEF ThreadMarks!Next
  <2> QED
    BY <1>1, <2>2, PlacedHere, DragHeld, AskedFor, ReadKept DEF MarksInv, TypedStep
<1>2. ASSUME MarksInv, UNCHANGED ThreadMarks!vars PROVE MarksInv'
  <2>1. UNCHANGED <<ThreadMarks!outside, v4, ThreadMarks!rows, ThreadMarks!picked, ThreadMarks!light, ThreadMarks!ask>>
    BY <1>2 DEF ThreadMarks!vars
  <2>2. ThreadMarks!TypeOK' /\ CacheLaid' /\ ThreadMarks!NothingCarriedOver' /\ AskInv'
    BY <1>2, <2>1 DEF MarksInv, ThreadMarks!outside, ThreadMarks!rows, ThreadMarks!picked,
             ThreadMarks!light, ThreadMarks!ask, ThreadMarks!TypeOK, CacheLaid,
             ThreadMarks!NothingCarriedOver, AskInv
  <2>3. DragInv'
    BY <1>2, <2>1, DragStays DEF MarksInv, ThreadMarks!light
  <2>4. ReadInv'
    BY <1>2, <2>1, ReadStays DEF MarksInv, ThreadMarks!outside, ThreadMarks!rows
  <2> QED  BY <2>2, <2>3, <2>4 DEF MarksInv
<1> QED  BY <1>1, <1>2

LEMMA MarksSay ==
  MarksInv => /\ ThreadMarks!TypeOK /\ ThreadMarks!NothingCarriedOver /\ ThreadMarks!WholeOrWithinOne /\ ThreadMarks!DragIsSteady
              /\ ThreadMarks!DividerWhereReadingStopped /\ ThreadMarks!DeletesWhatWasMeant
<1> SUFFICES ASSUME MarksInv PROVE ThreadMarks!WholeOrWithinOne
  BY DEF MarksInv, DragInv, ReadInv, AskInv, ThreadMarks!DeletesWhatWasMeant
<1>1. ThreadMarks!TypeOK /\ CacheLaid
  BY DEF MarksInv
<1>2. ASSUME v11 # <<>> PROVE ThreadMarks!WholeOrWithinOne
  <2>1. v11 \in [anchor : ThreadMarks!Cells, cursor : ThreadMarks!Cells] /\ Width \in Nat
    BY <1>1, <1>2, MarksTypes
  <2>2. ThreadMarks!RenderContent \in Spans /\ Laid(ThreadMarks!RenderContent)
    BY <1>1, BodyLaid
  <2> QED  BY <2>1, <2>2, ResolvesWhole DEF ThreadMarks!WholeOrWithinOne
<1> QED  BY <1>2 DEF ThreadMarks!WholeOrWithinOne

-----------------------------------------------------------------------------
(***************************************************************************)
(* The window of the thread.  As MCPanes has it: the mirror is v1, the     *)
(* newest id announced v2, what is gone v3, the feed v4, whether the chat  *)
(* is here v5, what is shown v6, hasMore v7, hasNewer v8, the forward      *)
(* cursor v9, loading v10, the calls v11, the jump's target v12 and the    *)
(* gestures v13.                                                           *)
(***************************************************************************)
(* Both models of the thread count and order alike.                        *)
LEMMA WindowOrder ==
  ASSUME NEW S
  PROVE  ThreadWindow!InOrder(S) = ThreadMarks!InOrder(S)
BY DEF ThreadWindow!InOrder, ThreadMarks!InOrder, ThreadWindow!Cardinality, ThreadMarks!Cardinality

(* A set of ids drawn in order has them all.                               *)
LEMMA InOrderShows ==
  ASSUME NEW S \in SUBSET ThreadWindow!Ids
  PROVE  /\ ThreadWindow!InOrder(S) \in Seq(ThreadWindow!Ids)
         /\ \A i \in DOMAIN ThreadWindow!InOrder(S) : ThreadWindow!InOrder(S)[i] \in S
<1>1. S \in SUBSET Nat /\ IsFiniteSet(S)
  <2>1. Newest \in Nat /\ S \in SUBSET (1 .. Newest)
    BY MarksAssumption DEF ThreadWindow!Ids
  <2>2. 1 .. Newest \subseteq Nat
    BY <2>1
  <2> QED  BY <2>1, <2>2, FewerIds
<1>2. PICK q : q = ThreadWindow!InOrder(S)
  OBVIOUS
<1>3. q \in Seq(S)
  BY <1>1, <1>2, WindowOrder, InOrderLists
<1>4. \A i \in DOMAIN q : q[i] \in S
  BY <1>3, ElementOfSeq
<1>5. q \in Seq(ThreadWindow!Ids)
  BY <1>3, SeqMonotonic
<1> QED  BY <1>2, <1>4, <1>5

(* What stands at the places that are kept stays.                          *)
LEMMA PlacesKeep ==
  ASSUME NEW q \in Seq(ThreadWindow!Ids), NEW places \in SUBSET DOMAIN q
  PROVE  /\ ThreadWindow!At(q, places) \in Seq(ThreadWindow!Ids)
         /\ \A i \in places : q[i] \in ThreadWindow!ToSet(ThreadWindow!At(q, places))
<1>1. Len(q) \in Nat /\ DOMAIN q = 1 .. Len(q)
  OBVIOUS
<1>2. places \in SUBSET Nat /\ IsFiniteSet(places)
  BY <1>1, FewerIds
<1>3. PICK order, n : order = ThreadMarks!InOrder(places) /\ n = Cardinality(places)
  OBVIOUS
<1>4. /\ order \in Seq(places) /\ Len(order) = n /\ n \in Nat
      /\ \A k \in places : \E i \in 1 .. n : order[i] = k
  BY <1>2, <1>3, InOrderLists
<1>5. ThreadWindow!Cardinality(places) = n
  BY <1>3 DEF ThreadWindow!Cardinality, Cardinality
<1>6. PICK part0 : part0 = [i \in 1 .. n |-> q[order[i]]]
  OBVIOUS
<1>7. ThreadWindow!At(q, places) = part0
  BY <1>3, <1>5, <1>6, WindowOrder DEF ThreadWindow!At
<1>8. \A i \in 1 .. n : order[i] \in places /\ q[order[i]] \in ThreadWindow!Ids
  BY <1>1, <1>4, ElementOfSeq
<1>9. part0 \in Seq(ThreadWindow!Ids) /\ DOMAIN part0 = 1 .. n
  <2>1. part0 \in [1 .. n -> ThreadWindow!Ids]
    BY <1>6, <1>8
  <2> QED  BY <1>4, <2>1, SeqDef
<1>10. ASSUME NEW k \in places PROVE q[k] \in ThreadWindow!ToSet(part0)
  <2>1. PICK i \in 1 .. n : order[i] = k
    BY <1>4
  <2>2. part0[i] = q[k]
    BY <1>6, <2>1
  <2> QED  BY <1>9, <2>2 DEF ThreadWindow!ToSet
<1> QED  BY <1>7, <1>9, <1>10

LEMMA RowsKept ==
  ASSUME NEW q \in Seq(ThreadWindow!Ids), NEW id \in Int
  PROVE  /\ ThreadWindow!UpTo(q, id) \in Seq(ThreadWindow!Ids)
         /\ ThreadWindow!Beyond(q, id) \in Seq(ThreadWindow!Ids)
         /\ ThreadWindow!Without(q, id) \in Seq(ThreadWindow!Ids)
         /\ \A k \in ThreadWindow!ToSet(q) :
               /\ k <= id => k \in ThreadWindow!ToSet(ThreadWindow!UpTo(q, id))
               /\ k > id => k \in ThreadWindow!ToSet(ThreadWindow!Beyond(q, id))
               /\ k # id => k \in ThreadWindow!ToSet(ThreadWindow!Without(q, id))
<1>1. PICK low, high, other : /\ low = {i \in DOMAIN q : q[i] <= id}
                              /\ high = {i \in DOMAIN q : q[i] > id}
                              /\ other = {i \in DOMAIN q : q[i] # id}
  OBVIOUS
<1>2. /\ ThreadWindow!UpTo(q, id) = ThreadWindow!At(q, low)
      /\ ThreadWindow!Beyond(q, id) = ThreadWindow!At(q, high)
      /\ ThreadWindow!Without(q, id) = ThreadWindow!At(q, other)
  BY <1>1 DEF ThreadWindow!UpTo, ThreadWindow!Beyond, ThreadWindow!Without
<1>3. {low, high, other} \subseteq SUBSET DOMAIN q
  BY <1>1
<1>4. \A k \in ThreadWindow!ToSet(q) : \E i \in DOMAIN q : q[i] = k
  BY DEF ThreadWindow!ToSet
<1>5. ASSUME NEW k \in ThreadWindow!ToSet(q)
      PROVE  /\ k <= id => k \in ThreadWindow!ToSet(ThreadWindow!At(q, low))
             /\ k > id => k \in ThreadWindow!ToSet(ThreadWindow!At(q, high))
             /\ k # id => k \in ThreadWindow!ToSet(ThreadWindow!At(q, other))
  <2>1. PICK i \in DOMAIN q : q[i] = k
    BY <1>4
  <2>2. (k <= id => i \in low) /\ (k > id => i \in high) /\ (k # id => i \in other)
    BY <1>1, <2>1
  <2> QED  BY <1>3, <2>1, <2>2, PlacesKeep
<1> QED  BY <1>2, <1>3, <1>5, PlacesKeep

LEMMA RowsJoined ==
  ASSUME NEW a \in Seq(ThreadWindow!Ids), NEW b \in Seq(ThreadWindow!Ids)
  PROVE  /\ a \o b \in Seq(ThreadWindow!Ids)
         /\ ThreadWindow!ToSet(a) \cup ThreadWindow!ToSet(b) \subseteq ThreadWindow!ToSet(a \o b)
<1>1. PICK c : c = a \o b
  OBVIOUS
<1>2. /\ c \in Seq(ThreadWindow!Ids) /\ Len(c) = Len(a) + Len(b)
      /\ \A i \in 1 .. Len(c) : c[i] = IF i <= Len(a) THEN a[i] ELSE b[i - Len(a)]
  BY <1>1, ConcatProperties
<1>3. ASSUME NEW i \in DOMAIN a PROVE a[i] \in ThreadWindow!ToSet(c)
  <2>1. i \in DOMAIN c /\ c[i] = a[i]
    BY <1>2
  <2> QED  BY <2>1 DEF ThreadWindow!ToSet
<1>4. ASSUME NEW i \in DOMAIN b PROVE b[i] \in ThreadWindow!ToSet(c)
  <2>1. Len(a) + i \in DOMAIN c /\ c[Len(a) + i] = b[i]
    BY <1>2
  <2> QED  BY <2>1 DEF ThreadWindow!ToSet
<1>5. ThreadWindow!ToSet(a) \subseteq ThreadWindow!ToSet(c) /\ ThreadWindow!ToSet(b) \subseteq ThreadWindow!ToSet(c)
  BY <1>3, <1>4 DEF ThreadWindow!ToSet
<1> QED  BY <1>1, <1>2, <1>5

(* A set of ids that is not empty has a highest and a lowest.              *)
LEMMA HighestIs ==
  ASSUME NEW S \in SUBSET ThreadWindow!Ids, S # {}
  PROVE  /\ ThreadWindow!Highest(S) \in S /\ \A k \in S : k <= ThreadWindow!Highest(S)
         /\ ThreadWindow!Lowest(S) \in S
<1>1. S \in SUBSET Nat /\ IsFiniteSet(S)
  <2>1. Newest \in Nat /\ S \in SUBSET (1 .. Newest)
    BY MarksAssumption DEF ThreadWindow!Ids
  <2>2. 1 .. Newest \subseteq Nat
    BY <2>1
  <2> QED  BY <2>1, <2>2, FewerIds
<1>2. PICK q, n : q = ThreadMarks!InOrder(S) /\ n = Cardinality(S)
  OBVIOUS
<1>3. /\ q \in Seq(S) /\ Len(q) = n /\ n \in Nat \ {0}
      /\ \A i, j \in 1 .. n : i < j => q[i] < q[j]
      /\ \A k \in S : \E i \in 1 .. n : q[i] = k
  BY <1>1, <1>2, InOrderLists, FS_EmptySet
<1>4. \A i \in 1 .. n : q[i] \in S /\ q[i] \in Nat
  BY <1>1, <1>3, ElementOfSeq
<1>5. ASSUME NEW k \in S PROVE q[1] <= k /\ k <= q[n]
  <2>1. PICK i \in 1 .. n : q[i] = k
    BY <1>3
  <2>2. (1 < i => q[1] < q[i]) /\ (i < n => q[i] < q[n])
    BY <1>3
  <2>3. i = 1 \/ 1 < i
    BY <1>3
  <2>4. i = n \/ i < n
    BY <1>3
  <2> QED  BY <1>3, <1>4, <2>1, <2>2, <2>3, <2>4
<1>6. q[1] \in S /\ q[n] \in S
  BY <1>3, <1>4
<1>7. \E m \in S : \A k \in S : k <= m
  BY <1>5, <1>6
<1>8. \E m \in S : \A k \in S : m <= k
  BY <1>5, <1>6
<1>9. ThreadWindow!Highest(S) \in S /\ \A k \in S : k <= ThreadWindow!Highest(S)
  BY <1>7, Zenon DEF ThreadWindow!Highest
<1>10. ThreadWindow!Lowest(S) \in S
  BY <1>8, Zenon DEF ThreadWindow!Lowest
<1> QED  BY <1>9, <1>10

-----------------------------------------------------------------------------
(* A call whose answer ends the loading.                                   *)
Awaited(c) == c.fresh /\ c.kind \in ThreadWindow!Loads

(* One such call at a time, while the pane loads, until an overlay takes   *)
(* its answer; none when the chat was left.                                *)
LoadsInv(here, loading, swallowed, calls) ==
    /\ \A c, d \in calls : Awaited(c) /\ Awaited(d) => c = d
    /\ loading <=> (swallowed \/ \E c \in calls : Awaited(c))
    /\ swallowed => \A c \in calls : ~Awaited(c)
    /\ ~here => \A c \in calls : ~c.fresh

(* What a call under way will bring, and where it will put it.             *)
BringsInv(c, forward, target) ==
    /\ c.kind = "jump" => /\ c.anchor \in ThreadWindow!Ids
                          /\ c.read /\ ~c.failed => c.anchor \in ThreadWindow!ToSet(c.rows)
    /\ c.kind = "newer" => \A k \in ThreadWindow!ToSet(c.rows) : c.anchor < k
    /\ Awaited(c) /\ c.kind = "newer" => c.anchor = forward
    /\ Awaited(c) /\ c.kind = "load" => target = 0

(* What a jump landed on is on screen and not above the cursor.            *)
LandedInv(here, shown, forward, target) ==
    target # 0 => here /\ target \in ThreadWindow!ToSet(shown) /\ target <= forward

WindowInv ==
    /\ ThreadWindow!TypeOK
    /\ LoadsInv(v5, v10, v15, v11)
    /\ \A c \in v11 : BringsInv(c, v9, v12)
    /\ LandedInv(v5, v6, v9, v12)

LEMMA WindowTypes ==
  /\ Newest \in Nat /\ Mirrored \in 0 .. Newest /\ ThreadWindow!Ids = 1 .. Newest
  /\ ThreadWindow!Ids \subseteq Nat /\ <<>> \in Seq(ThreadWindow!Ids)
  /\ Starts \subseteq SUBSET (1 .. Mirrored) /\ 1 .. Mirrored \subseteq ThreadWindow!Ids
<1>1. /\ Newest \in Nat /\ Mirrored \in 0 .. Newest /\ ThreadWindow!Ids = 1 .. Newest
      /\ Starts \subseteq SUBSET (1 .. Mirrored)
  BY MarksAssumption DEF ThreadWindow!Ids
<1> QED  BY <1>1

LEMMA CallTyped ==
  ASSUME NEW k \in ThreadWindow!Kinds, NEW anchor \in ThreadWindow!Ids \cup {0},
         NEW c, c = ThreadWindow!Call(k, anchor)
  PROVE  /\ c \in ThreadWindow!Calls /\ c.kind = k /\ c.anchor = anchor /\ c.fresh /\ ~c.read
         /\ ThreadWindow!ToSet(c.rows) = {}
<1>1. c.rows = <<>> /\ c.rows \in Seq(ThreadWindow!Ids)
  BY WindowTypes DEF ThreadWindow!Call
<1>2. ThreadWindow!ToSet(c.rows) = {}
  BY <1>1 DEF ThreadWindow!ToSet
<1> QED  BY <1>1, <1>2 DEF ThreadWindow!Call, ThreadWindow!Calls

(* The calls of some kinds are not waited for any more; nothing else of    *)
(* them changes.                                                           *)
LEMMA OutdatedIs ==
  ASSUME NEW kinds, v11 \subseteq ThreadWindow!Calls, NEW d \in ThreadWindow!Outdated(kinds)
  PROVE  /\ d \in ThreadWindow!Calls /\ (d.fresh => d.kind \notin kinds /\ d \in v11)
         /\ \E c \in v11 : /\ d.kind = c.kind /\ d.anchor = c.anchor /\ d.rows = c.rows
                           /\ d.read = c.read /\ d.failed = c.failed /\ (d.fresh => c.fresh)
<1>1. PICK c \in v11 : d = IF c.kind \in kinds THEN [c EXCEPT !.fresh = FALSE] ELSE c
  BY DEF ThreadWindow!Outdated
<1>2. c \in ThreadWindow!Calls
  OBVIOUS
<1>3. CASE c.kind \in kinds
  <2>1. d = [c EXCEPT !.fresh = FALSE]
    BY <1>1, <1>3
  <2> QED  BY <1>2, <2>1 DEF ThreadWindow!Calls
<1>4. CASE c.kind \notin kinds
  BY <1>1, <1>2, <1>4 DEF ThreadWindow!Calls
<1> QED  BY <1>3, <1>4

LEMMA StillAwaited ==
  ASSUME NEW kinds, v11 \subseteq ThreadWindow!Calls, NEW c \in v11, c.kind \notin kinds
  PROVE  c \in ThreadWindow!Outdated(kinds)
BY DEF ThreadWindow!Outdated

(* The types of the calls after a step that outdates some and adds one.    *)
LEMMA CallsTyped ==
  ASSUME v11 \subseteq ThreadWindow!Calls, NEW kinds, NEW d \in ThreadWindow!Calls,
         NEW S, S \subseteq ThreadWindow!Outdated(kinds) \cup {d}
  PROVE  S \subseteq ThreadWindow!Calls
BY OutdatedIs

LEMMA WindowStart == ThreadWindow!Init => WindowInv
<1> SUFFICES ASSUME ThreadWindow!Init PROVE WindowInv
  OBVIOUS
<1> USE DEF ThreadWindow!Init
<1>1. v1 \subseteq ThreadWindow!Ids /\ v2 \in Mirrored .. Newest
  BY WindowTypes
<1>2. v6 \in Seq(ThreadWindow!Ids) /\ v4 \in Seq(ThreadWindow!Events)
  BY WindowTypes
<1>3. {v5, v7, v8, v10, v15} \subseteq BOOLEAN /\ v16 \subseteq ThreadWindow!Ids
  <2>1. v5 \in BOOLEAN /\ v7 \in BOOLEAN /\ v8 \in BOOLEAN /\ v10 \in BOOLEAN /\ v15 \in BOOLEAN
    OBVIOUS
  <2> QED  BY <2>1
<1>4. ThreadWindow!TypeOK
  BY <1>1, <1>2, <1>3 DEF ThreadWindow!TypeOK
<1> QED  BY <1>4 DEF WindowInv, LoadsInv, LandedInv

LEMMA WindowTyped ==
  ASSUME v1' \in SUBSET ThreadWindow!Ids, v3' \in SUBSET ThreadWindow!Ids, v2' \in Mirrored .. Newest,
         v4' \in Seq(ThreadWindow!Events), v5' \in BOOLEAN, v7' \in BOOLEAN, v8' \in BOOLEAN,
         v10' \in BOOLEAN, v6' \in Seq(ThreadWindow!Ids), v9' \in ThreadWindow!Ids \cup {0},
         v12' \in ThreadWindow!Ids \cup {0}, v11' \subseteq ThreadWindow!Calls,
         v15' \in BOOLEAN, v16' \in SUBSET ThreadWindow!Ids
  PROVE  ThreadWindow!TypeOK'
<1>1. {v5', v7', v8', v10', v15'} \subseteq BOOLEAN
  OBVIOUS
<1>2. v1' \subseteq ThreadWindow!Ids /\ v3' \subseteq ThreadWindow!Ids /\ v16' \subseteq ThreadWindow!Ids
  OBVIOUS
<1> QED  BY <1>1, <1>2 DEF ThreadWindow!TypeOK, ThreadWindow!Ids, ThreadWindow!Events, ThreadWindow!Calls, ThreadWindow!Kinds

LEMMA WindowFields ==
  ASSUME ThreadWindow!TypeOK
  PROVE  /\ v1 \in SUBSET ThreadWindow!Ids /\ v3 \in SUBSET ThreadWindow!Ids /\ v2 \in Mirrored .. Newest
         /\ v4 \in Seq(ThreadWindow!Events) /\ v5 \in BOOLEAN /\ v7 \in BOOLEAN /\ v8 \in BOOLEAN
         /\ v10 \in BOOLEAN /\ v6 \in Seq(ThreadWindow!Ids) /\ v9 \in ThreadWindow!Ids \cup {0}
         /\ v12 \in ThreadWindow!Ids \cup {0} /\ v11 \subseteq ThreadWindow!Calls
         /\ v15 \in BOOLEAN /\ v16 \in SUBSET ThreadWindow!Ids
  BY DEF ThreadWindow!TypeOK

(* A call that is not awaited keeps what it brings wherever the pane goes; *)
(* one that is keeps it as long as cursor and target stay.                 *)
LEMMA BringsStill ==
  ASSUME WindowInv, NEW kinds, NEW d, d \in ThreadWindow!Outdated(kinds) \/ d \in v11,
         NEW forward, NEW target, Awaited(d) => forward = v9 /\ target = v12
  PROVE  BringsInv(d, forward, target)
<1>1. v11 \subseteq ThreadWindow!Calls /\ \A c \in v11 : BringsInv(c, v9, v12)
  BY WindowFields DEF WindowInv
<1>2. CASE d \in v11
  BY <1>1, <1>2 DEF BringsInv
<1>3. CASE d \in ThreadWindow!Outdated(kinds)
  <2>1. PICK c \in v11 : /\ d.kind = c.kind /\ d.anchor = c.anchor /\ d.rows = c.rows
                         /\ d.read = c.read /\ d.failed = c.failed /\ (d.fresh => c.fresh)
    BY <1>1, <1>3, OutdatedIs
  <2>2. BringsInv(c, v9, v12)
    BY <1>1
  <2> QED  BY <2>1, <2>2 DEF BringsInv, Awaited
<1> QED  BY <1>2, <1>3

(* The pane is opened or left: what was under way is not awaited any more. *)
LEMMA NoneAwaited ==
  ASSUME v11 \subseteq ThreadWindow!Calls, NEW d \in ThreadWindow!Outdated(ThreadWindow!Kinds)
  PROVE  ~d.fresh
<1>1. d \in ThreadWindow!Calls /\ (d.fresh => d.kind \notin ThreadWindow!Kinds)
  BY OutdatedIs
<1> QED  BY <1>1 DEF ThreadWindow!Calls

LEMMA EmptiedTyped ==
  ThreadWindow!Emptied => /\ v6' \in Seq(ThreadWindow!Ids) /\ v7' \in BOOLEAN /\ v8' \in BOOLEAN
                          /\ v9' \in ThreadWindow!Ids \cup {0}
  BY WindowTypes DEF ThreadWindow!Emptied

LEMMA OpenKeepsWindow == WindowInv /\ ThreadWindow!OpenChat => WindowInv'
<1> SUFFICES ASSUME WindowInv, ThreadWindow!OpenChat PROVE WindowInv'
  OBVIOUS
<1>1. PICK d : d = ThreadWindow!Call("load", 0)
  OBVIOUS
<1>2. /\ d \in ThreadWindow!Calls /\ d.kind = "load" /\ d.fresh /\ "load" \in ThreadWindow!Loads
  BY <1>1, CallTyped DEF ThreadWindow!Kinds, ThreadWindow!Loads
<1>3. /\ v5' = TRUE /\ v10' = TRUE /\ v12' = 0 /\ v15' = FALSE /\ ThreadWindow!Emptied
      /\ v11' = ThreadWindow!Outdated(ThreadWindow!Kinds) \cup {d}
      /\ UNCHANGED <<v1, v2, v3, v4, v16>>
  BY <1>1 DEF ThreadWindow!OpenChat, ThreadWindow!Ask, ThreadWindow!store
<1>4. v11 \subseteq ThreadWindow!Calls
  BY WindowFields DEF WindowInv
<1>5. ThreadWindow!TypeOK'
  BY <1>2, <1>3, <1>4, CallsTyped, EmptiedTyped, WindowFields, WindowTyped DEF WindowInv
<1>6. LoadsInv(v5', v10', v15', v11')
  BY <1>2, <1>3, <1>4, NoneAwaited DEF LoadsInv, Awaited
<1>7. ASSUME NEW c \in v11' PROVE BringsInv(c, v9', v12')
  <2>1. CASE c = d
    BY <1>2, <1>3, <2>1 DEF BringsInv
  <2>2. CASE c # d
    BY <1>3, <1>4, <2>2, NoneAwaited, BringsStill DEF Awaited
  <2> QED  BY <2>1, <2>2
<1> QED  BY <1>3, <1>5, <1>6, <1>7 DEF WindowInv, LandedInv

LEMMA LeaveKeepsWindow == WindowInv /\ ThreadWindow!LeaveChat => WindowInv'
<1> SUFFICES ASSUME WindowInv, ThreadWindow!LeaveChat PROVE WindowInv'
  OBVIOUS
<1>3. /\ v5' = FALSE /\ v10' = FALSE /\ v12' = 0 /\ v15' = FALSE /\ ThreadWindow!Emptied
      /\ v11' = ThreadWindow!Outdated(ThreadWindow!Kinds)
      /\ UNCHANGED <<v1, v2, v3, v4, v16>>
  BY DEF ThreadWindow!LeaveChat, ThreadWindow!store
<1>4. v11 \subseteq ThreadWindow!Calls
  BY WindowFields DEF WindowInv
<1>5. ThreadWindow!TypeOK'
  <2>1. v11' \subseteq ThreadWindow!Calls
    BY <1>3, <1>4, OutdatedIs
  <2> QED  BY <1>3, <2>1, EmptiedTyped, WindowFields, WindowTyped DEF WindowInv
<1>6. LoadsInv(v5', v10', v15', v11')
  BY <1>3, <1>4, NoneAwaited DEF LoadsInv, Awaited
<1>7. ASSUME NEW c \in v11' PROVE BringsInv(c, v9', v12')
  BY <1>3, <1>4, NoneAwaited, BringsStill DEF Awaited
<1> QED  BY <1>3, <1>5, <1>6, <1>7 DEF WindowInv, LandedInv

LEMMA JumpKeepsWindow ==
  ASSUME WindowInv, NEW id \in ThreadWindow!Ids, ThreadWindow!SearchJump(id)
  PROVE  WindowInv'
<1>1. PICK d : d = ThreadWindow!Call("jump", id)
  OBVIOUS
<1>2. /\ d \in ThreadWindow!Calls /\ d.kind = "jump" /\ "jump" \notin ThreadWindow!Loads
      /\ d.anchor = id /\ ~d.read
  BY <1>1, CallTyped DEF ThreadWindow!Kinds, ThreadWindow!Loads
<1>3. /\ v5' = TRUE /\ v10' = FALSE /\ v12' = 0 /\ v15' = FALSE /\ ThreadWindow!Emptied
      /\ v11' = ThreadWindow!Outdated(ThreadWindow!Kinds) \cup {d}
      /\ UNCHANGED <<v1, v2, v3, v4, v16>>
  BY <1>1 DEF ThreadWindow!SearchJump, ThreadWindow!Ask, ThreadWindow!store
<1>4. v11 \subseteq ThreadWindow!Calls
  BY WindowFields DEF WindowInv
<1>5. ThreadWindow!TypeOK'
  BY <1>2, <1>3, <1>4, CallsTyped, EmptiedTyped, WindowFields, WindowTyped DEF WindowInv
<1>6. LoadsInv(v5', v10', v15', v11')
  BY <1>2, <1>3, <1>4, NoneAwaited DEF LoadsInv, Awaited
<1>7. ASSUME NEW c \in v11' PROVE BringsInv(c, v9', v12')
  <2>1. CASE c = d
    BY <1>2, <2>1 DEF BringsInv
  <2>2. CASE c # d
    BY <1>3, <1>4, <2>2, NoneAwaited, BringsStill DEF Awaited
  <2> QED  BY <2>1, <2>2
<1> QED  BY <1>3, <1>5, <1>6, <1>7 DEF WindowInv, LandedInv

LEMMA GoToKeepsWindow ==
  ASSUME WindowInv, NEW id \in ThreadWindow!Ids, ThreadWindow!GoToMessage(id)
  PROVE  WindowInv'
<1>1. PICK d : d = ThreadWindow!Call("jump", id)
  OBVIOUS
<1>2. /\ d \in ThreadWindow!Calls /\ d.kind = "jump" /\ "jump" \notin ThreadWindow!Loads
      /\ d.anchor = id /\ ~d.read
  BY <1>1, CallTyped DEF ThreadWindow!Kinds, ThreadWindow!Loads
<1>3. /\ v5 = TRUE /\ UNCHANGED <<v1, v2, v3, v4, v5, v6, v7, v8, v9, v10, v12, v15, v16>>
      /\ v11' = ThreadWindow!Outdated({"jump"}) \cup {d}
  BY <1>1, WindowFields DEF WindowInv, ThreadWindow!GoToMessage, ThreadWindow!Ask, ThreadWindow!store,
     ThreadWindow!window, ThreadWindow!content
<1>4. v11 \subseteq ThreadWindow!Calls
  BY WindowFields DEF WindowInv
<1>5. ThreadWindow!TypeOK'
  BY <1>2, <1>3, <1>4, CallsTyped, WindowFields, WindowTyped DEF WindowInv
<1>6. LoadsInv(v5', v10', v15', v11')
  <2>1. \A c \in v11' : Awaited(c) => c \in v11
    BY <1>2, <1>3, <1>4, OutdatedIs DEF Awaited
  <2>2. \A c \in v11 : Awaited(c) => c \in v11'
    BY <1>2, <1>3, <1>4, StillAwaited DEF Awaited
  <2> QED  BY <1>3, <2>1, <2>2 DEF WindowInv, LoadsInv
<1>7. ASSUME NEW c \in v11' PROVE BringsInv(c, v9', v12')
  <2>1. CASE c = d
    BY <1>2, <2>1 DEF BringsInv
  <2>2. CASE c # d
    BY <1>3, <2>2, BringsStill
  <2> QED  BY <2>1, <2>2
<1> QED  BY <1>3, <1>5, <1>6, <1>7 DEF WindowInv, LandedInv

(* A page is asked for at either end while nothing loads.                  *)
LEMMA PageKeepsWindow ==
  ASSUME WindowInv, v5, ~v10, NEW kind \in {"older", "newer"}, NEW anchor \in ThreadWindow!Ids \cup {0},
         kind = "newer" => anchor = v9,
         v10' = TRUE, ThreadWindow!Ask({}, ThreadWindow!Call(kind, anchor)),
         UNCHANGED <<v1, v2, v3, v4, v5, v6, v7, v8, v9, v12, v15, v16>>
  PROVE  WindowInv'
<1>1. PICK d : d = ThreadWindow!Call(kind, anchor)
  OBVIOUS
<1>2. /\ d \in ThreadWindow!Calls /\ d.kind = kind /\ d.fresh /\ kind \in ThreadWindow!Loads
      /\ d.anchor = anchor /\ ~d.read /\ ThreadWindow!ToSet(d.rows) = {}
  BY <1>1, CallTyped DEF ThreadWindow!Kinds, ThreadWindow!Loads
<1>3. v11' = ThreadWindow!Outdated({}) \cup {d}
  BY <1>1 DEF ThreadWindow!Ask
<1>4. v11 \subseteq ThreadWindow!Calls
  BY WindowFields DEF WindowInv
<1>5. ThreadWindow!TypeOK'
  BY <1>2, <1>3, <1>4, CallsTyped, WindowFields, WindowTyped DEF WindowInv
<1>6. LoadsInv(v5', v10', v15', v11')
  <2>1. \A c \in ThreadWindow!Outdated({}) : c.fresh => c \in v11
    BY <1>4, OutdatedIs
  <2>2. \A c \in ThreadWindow!Outdated({}) : ~Awaited(c)
    BY <2>1 DEF WindowInv, LoadsInv, Awaited
  <2>3. ~v15 /\ v15' = v15
    BY DEF WindowInv, LoadsInv
  <2>4. d \in v11' /\ Awaited(d) /\ \A c \in v11' : Awaited(c) => c = d
    BY <1>2, <1>3, <2>2 DEF Awaited
  <2> QED  BY <2>3, <2>4 DEF LoadsInv
<1>7. ASSUME NEW c \in v11' PROVE BringsInv(c, v9', v12')
  <2>1. CASE c = d
    BY <1>2, <2>1 DEF BringsInv
  <2>2. CASE c # d
    BY <1>3, <2>2, BringsStill
  <2> QED  BY <2>1, <2>2
<1> QED  BY <1>5, <1>6, <1>7 DEF WindowInv, LandedInv

LEMMA PaginateKeepsWindow ==
  ASSUME WindowInv, ThreadWindow!PaginateOlder \/ ThreadWindow!PaginateNewer
  PROVE  WindowInv'
<1> USE DEF ThreadWindow!store, ThreadWindow!content
<1>1. CASE ThreadWindow!PaginateOlder
  <2>1. ThreadWindow!OldestID \in ThreadWindow!Ids
    <3>1. v6 \in Seq(ThreadWindow!Ids) /\ ThreadWindow!Shown # {}
      BY <1>1, WindowFields DEF WindowInv, ThreadWindow!PaginateOlder
    <3>2. ThreadWindow!Shown \in SUBSET ThreadWindow!Ids
      BY <3>1, ElementOfSeq DEF ThreadWindow!Shown, ThreadWindow!ToSet
    <3> QED  BY <3>1, <3>2, HighestIs DEF ThreadWindow!OldestID
  <2> QED  BY <1>1, <2>1, PageKeepsWindow DEF ThreadWindow!PaginateOlder
<1>2. CASE ThreadWindow!PaginateNewer
  <2>1. v9 \in ThreadWindow!Ids \cup {0}
    BY WindowFields DEF WindowInv
  <2> QED  BY <1>2, <2>1, PageKeepsWindow DEF ThreadWindow!PaginateNewer
<1> QED  BY <1>1, <1>2

LEMMA StoreKeepsWindow ==
  ASSUME WindowInv,
         \/ ThreadWindow!Arrive \/ ThreadWindow!Backfill \/ ThreadWindow!MissEvent
         \/ \E id \in ThreadWindow!Ids : ThreadWindow!DeleteMessage(id)
         \/ UNCHANGED <<v1, v2, v3, v4, v5, v6, v7, v8, v9, v10, v11, v12, v15, v16>>
  PROVE  WindowInv'
<1> USE DEF ThreadWindow!window, ThreadWindow!content
<1>1. UNCHANGED <<v5, v6, v7, v8, v9, v10, v11, v12, v15>>
  BY DEF ThreadWindow!Arrive, ThreadWindow!Backfill, ThreadWindow!DeleteMessage, ThreadWindow!MissEvent
<1>2. /\ v1' \in SUBSET ThreadWindow!Ids /\ v3' \in SUBSET ThreadWindow!Ids /\ v2' \in Mirrored .. Newest
      /\ v4' \in Seq(ThreadWindow!Events) /\ v16' \in SUBSET ThreadWindow!Ids
  <2>1. /\ v1 \in SUBSET ThreadWindow!Ids /\ v3 \in SUBSET ThreadWindow!Ids /\ v2 \in Mirrored .. Newest
        /\ v4 \in Seq(ThreadWindow!Events) /\ v16 \in SUBSET ThreadWindow!Ids
    BY WindowFields DEF WindowInv
  <2>2. CASE ThreadWindow!Arrive
    <3>1. v2 + 1 \in ThreadWindow!Ids /\ v2 + 1 \in Mirrored .. Newest
      BY <2>1, <2>2, WindowTypes DEF ThreadWindow!Arrive
    <3>2. v4' \in Seq(ThreadWindow!Events)
      <4>1. [kind |-> "received", id |-> v2 + 1] \in ThreadWindow!Events
        BY <3>1 DEF ThreadWindow!Events
      <4> QED  BY <2>1, <2>2, <4>1 DEF ThreadWindow!Arrive
    <3>3. v1' \in SUBSET ThreadWindow!Ids /\ v16' \in SUBSET ThreadWindow!Ids
      BY <2>1, <2>2, <3>1 DEF ThreadWindow!Arrive, ThreadWindow!Store
    <3> QED  BY <2>1, <2>2, <3>1, <3>2, <3>3 DEF ThreadWindow!Arrive
  <2>3. CASE ThreadWindow!Backfill
    <3>1. PICK ids \in SUBSET (ThreadWindow!Ids \ (v1 \cup v3)) : ThreadWindow!Store(ids)
      BY <2>3 DEF ThreadWindow!Backfill
    <3>2. v1' \in SUBSET ThreadWindow!Ids /\ v16' \in SUBSET ThreadWindow!Ids
      BY <2>1, <3>1 DEF ThreadWindow!Store
    <3> QED  BY <2>1, <2>3, <3>2 DEF ThreadWindow!Backfill
  <2>4. ASSUME NEW id \in ThreadWindow!Ids, ThreadWindow!DeleteMessage(id)
        PROVE  /\ v1' \in SUBSET ThreadWindow!Ids /\ v3' \in SUBSET ThreadWindow!Ids
               /\ v2' \in Mirrored .. Newest /\ v4' \in Seq(ThreadWindow!Events)
               /\ v16' \in SUBSET ThreadWindow!Ids
    <3>1. [kind |-> "deleted", id |-> id] \in ThreadWindow!Events
      BY DEF ThreadWindow!Events
    <3> QED  BY <2>1, <2>4, <3>1 DEF ThreadWindow!DeleteMessage
  <2>5. CASE ThreadWindow!MissEvent
    BY <2>1, <2>5 DEF ThreadWindow!MissEvent, ThreadWindow!store
  <2>6. CASE UNCHANGED <<v1, v2, v3, v4, v16>>
    BY <2>1, <2>6
  <2> QED  BY <2>2, <2>3, <2>4, <2>5, <2>6
<1>3. ThreadWindow!TypeOK'
  BY <1>1, <1>2, WindowFields, WindowTyped DEF WindowInv
<1> QED  BY <1>1, <1>3 DEF WindowInv, LoadsInv, BringsInv, LandedInv

-----------------------------------------------------------------------------
(* What a command reads.                                                   *)
LEMMA PageShows ==
  ASSUME NEW S \in SUBSET ThreadWindow!Ids, NEW n
  PROVE  /\ ThreadWindow!NewestOf(S, n) \in Seq(ThreadWindow!Ids)
         /\ ThreadWindow!OldestOf(S, n) \in Seq(ThreadWindow!Ids)
         /\ \A k \in ThreadWindow!ToSet(ThreadWindow!OldestOf(S, n)) : k \in S
<1>1. PICK T : T = {k \in S : ThreadWindow!Cardinality({j \in S : j > k}) < n}
  OBVIOUS
<1>2. PICK U : U = {k \in S : ThreadWindow!Cardinality({j \in S : j < k}) < n}
  OBVIOUS
<1>3. T \in SUBSET ThreadWindow!Ids /\ U \in SUBSET ThreadWindow!Ids /\ U \subseteq S
  BY <1>1, <1>2
<1>4. ThreadWindow!NewestOf(S, n) = ThreadWindow!InOrder(T)
  BY <1>1 DEF ThreadWindow!NewestOf
<1>5. ThreadWindow!OldestOf(S, n) = ThreadWindow!InOrder(U)
  BY <1>2 DEF ThreadWindow!OldestOf
<1>6. \A k \in ThreadWindow!ToSet(ThreadWindow!InOrder(U)) : k \in U
  BY <1>3, InOrderShows DEF ThreadWindow!ToSet
<1> QED  BY <1>3, <1>4, <1>5, <1>6, InOrderShows

LEMMA RowsRead ==
  ASSUME ThreadWindow!TypeOK, NEW c \in v11, c.kind = "jump" => c.anchor \in ThreadWindow!Ids
  PROVE  /\ ThreadWindow!Rows(c) \in Seq(ThreadWindow!Ids) /\ ThreadWindow!More(c) \in BOOLEAN
         /\ c.kind = "jump" => c.anchor \in ThreadWindow!ToSet(ThreadWindow!Rows(c))
         /\ c.kind = "newer" => \A k \in ThreadWindow!ToSet(ThreadWindow!Rows(c)) : c.anchor < k
<1>1. c.kind \in {"load", "older", "newer", "jump"} /\ v1 \in SUBSET ThreadWindow!Ids
  BY WindowFields DEF ThreadWindow!Calls, ThreadWindow!Kinds
<1>2. PICK low, high : low = ThreadWindow!Below(c.anchor) /\ high = ThreadWindow!Above(c.anchor)
  OBVIOUS
<1>3. /\ low \in SUBSET ThreadWindow!Ids /\ high \in SUBSET ThreadWindow!Ids
      /\ \A k \in high : c.anchor < k
  <2>1. c.anchor \in Int /\ \A k \in v1 : k \in Int
    BY <1>1, WindowFields, WindowTypes DEF ThreadWindow!Calls
  <2> QED  BY <1>1, <1>2, <2>1 DEF ThreadWindow!Below, ThreadWindow!Above
<1>4. CASE c.kind = "load"
  <2>1. ThreadWindow!Rows(c) = ThreadWindow!NewestOf(v1, Fetched) /\ ThreadWindow!More(c) \in BOOLEAN
    BY <1>4 DEF ThreadWindow!Rows, ThreadWindow!More
  <2> QED  BY <1>1, <1>4, <2>1, PageShows
<1>5. CASE c.kind = "older"
  <2>1. ThreadWindow!Rows(c) = ThreadWindow!NewestOf(low, Fetched) /\ ThreadWindow!More(c) \in BOOLEAN
    BY <1>2, <1>5 DEF ThreadWindow!Rows, ThreadWindow!More
  <2> QED  BY <1>3, <1>5, <2>1, PageShows
<1>6. CASE c.kind = "newer"
  <2>1. ThreadWindow!Rows(c) = ThreadWindow!OldestOf(high, Fetched) /\ ThreadWindow!More(c) \in BOOLEAN
    BY <1>2, <1>6 DEF ThreadWindow!Rows, ThreadWindow!More
  <2> QED  BY <1>3, <1>6, <2>1, PageShows
<1>7. CASE c.kind = "jump"
  <2>1. PICK a, b, d : /\ a = ThreadWindow!NewestOf(low, Around) /\ b = <<c.anchor>>
                       /\ d = ThreadWindow!OldestOf(high, Around)
    OBVIOUS
  <2>2. ThreadWindow!Rows(c) = (a \o b) \o d /\ ThreadWindow!More(c) \in BOOLEAN
    BY <1>2, <1>7, <2>1 DEF ThreadWindow!Rows, ThreadWindow!More
  <2>3. a \in Seq(ThreadWindow!Ids) /\ d \in Seq(ThreadWindow!Ids)
    BY <1>3, <2>1, PageShows
  <2>4. b \in Seq(ThreadWindow!Ids) /\ c.anchor \in ThreadWindow!ToSet(b)
    <3>1. b \in Seq(ThreadWindow!Ids) /\ 1 \in DOMAIN b /\ b[1] = c.anchor
      BY <1>7, <2>1
    <3> QED  BY <3>1 DEF ThreadWindow!ToSet
  <2>5. a \o b \in Seq(ThreadWindow!Ids) /\ c.anchor \in ThreadWindow!ToSet(a \o b)
    BY <2>3, <2>4, RowsJoined
  <2> QED  BY <1>7, <2>2, <2>3, <2>5, RowsJoined
<1> QED  BY <1>1, <1>4, <1>5, <1>6, <1>7

LEMMA ReadKeepsWindow ==
  ASSUME WindowInv, NEW c \in v11, ThreadWindow!ReadMirror(c)
  PROVE  WindowInv'
<1>1. /\ v11 \subseteq ThreadWindow!Calls /\ c \in ThreadWindow!Calls /\ ThreadWindow!TypeOK
      /\ BringsInv(c, v9, v12)
  BY WindowFields DEF WindowInv
<1>2. UNCHANGED <<v1, v2, v3, v4, v5, v6, v7, v8, v9, v10, v12, v15, v16>>
  BY DEF ThreadWindow!ReadMirror, ThreadWindow!store, ThreadWindow!window, ThreadWindow!content
<1>3. PICK d : /\ v11' = (v11 \ {c}) \cup {d}
               /\ \/ d = [c EXCEPT !.read = TRUE, !.failed = TRUE]
                  \/ d = [c EXCEPT !.read = TRUE, !.rows = ThreadWindow!Rows(c), !.more = ThreadWindow!More(c)]
  BY DEF ThreadWindow!ReadMirror
<1>4. /\ ThreadWindow!Rows(c) \in Seq(ThreadWindow!Ids) /\ ThreadWindow!More(c) \in BOOLEAN
      /\ c.kind = "jump" => c.anchor \in ThreadWindow!ToSet(ThreadWindow!Rows(c))
      /\ c.kind = "newer" => \A k \in ThreadWindow!ToSet(ThreadWindow!Rows(c)) : c.anchor < k
  <2>1. c.kind = "jump" => c.anchor \in ThreadWindow!Ids
    BY <1>1 DEF BringsInv
  <2> QED  BY <1>1, <2>1, RowsRead
<1>5. /\ d \in ThreadWindow!Calls /\ d.kind = c.kind /\ d.anchor = c.anchor /\ d.fresh = c.fresh /\ d.read
      /\ \/ d.failed /\ d.rows = c.rows
         \/ d.rows = ThreadWindow!Rows(c)
  BY <1>1, <1>3, <1>4 DEF ThreadWindow!Calls
<1>6. ThreadWindow!TypeOK'
  BY <1>1, <1>2, <1>3, <1>5, WindowFields, WindowTyped
<1>7. LoadsInv(v5', v10', v15', v11')
  <2>1. Awaited(d) <=> Awaited(c)
    BY <1>5 DEF Awaited
  <2>2. LoadsInv(v5, v10, v15, v11)
    BY DEF WindowInv
  <2> QED  BY <1>2, <1>3, <1>5, <2>1, <2>2 DEF LoadsInv
<1>8. ASSUME NEW e \in v11' PROVE BringsInv(e, v9', v12')
  <2>1. CASE e = d
    BY <1>1, <1>2, <1>4, <1>5, <2>1 DEF BringsInv, Awaited
  <2>2. CASE e # d
    BY <1>2, <1>3, <2>2, BringsStill
  <2> QED  BY <2>1, <2>2
<1> QED  BY <1>2, <1>6, <1>7, <1>8 DEF WindowInv

-----------------------------------------------------------------------------
(* What an answer does.                                                    *)

(* The answer of a call that is not waited for is dropped.                 *)
LEMMA StaleKeepsWindow ==
  ASSUME WindowInv, NEW c \in v11, ~ThreadWindow!Current(c), v11' = v11 \ {c},
         UNCHANGED <<v1, v2, v3, v4, v5, v6, v7, v8, v9, v10, v12, v15, v16>>
  PROVE  WindowInv'
<1>1. LoadsInv(v5, v10, v15, v11) /\ v11 \subseteq ThreadWindow!Calls /\ v5 \in BOOLEAN
  BY WindowFields DEF WindowInv
<1>2. ~Awaited(c)
  BY <1>1 DEF ThreadWindow!Current, Awaited, LoadsInv
<1>3. LoadsInv(v5', v10', v15', v11')
  BY <1>1, <1>2 DEF LoadsInv
<1>4. ThreadWindow!TypeOK'
  <2>1. v11' \subseteq ThreadWindow!Calls
    BY <1>1
  <2> QED  BY <2>1, WindowFields, WindowTyped DEF WindowInv
<1> QED  BY <1>3, <1>4 DEF WindowInv

(* A jump that found its message.                                          *)
LEMMA LandingKeepsWindow ==
  ASSUME WindowInv, NEW c \in v11, c.read, c.kind = "jump", ~c.failed, ThreadWindow!Current(c),
         ThreadWindow!LoadJumpWindow(c), v15' = FALSE, v11' = ThreadWindow!Outdated(ThreadWindow!Loads) \ {c},
         UNCHANGED <<v1, v2, v3, v4, v5, v16>>
  PROVE  WindowInv'
<1>1. /\ v11 \subseteq ThreadWindow!Calls /\ c \in ThreadWindow!Calls /\ v6 \in Seq(ThreadWindow!Ids)
      /\ v5 = TRUE
  BY WindowFields DEF WindowInv, ThreadWindow!Current
<1>2. PICK ids, top : ids = ThreadWindow!ToSet(c.rows) /\ top = ThreadWindow!Highest(ids)
  OBVIOUS
<1>3. c.rows \in Seq(ThreadWindow!Ids) /\ ids \in SUBSET ThreadWindow!Ids
  BY <1>1, <1>2, ElementOfSeq DEF ThreadWindow!Calls, ThreadWindow!ToSet
<1>4. c.anchor \in ids /\ c.anchor \in ThreadWindow!Ids
  BY <1>2 DEF WindowInv, BringsInv
<1>5. top \in ThreadWindow!Ids /\ c.anchor <= top
  BY <1>2, <1>3, <1>4, HighestIs
<1>6. /\ v6' = c.rows \o ThreadWindow!Beyond(v6, top) /\ v7' = TRUE /\ v8' = TRUE /\ v9' = top
      /\ v10' = FALSE /\ v12' = c.anchor
  BY <1>2 DEF ThreadWindow!LoadJumpWindow
<1>7. v6' \in Seq(ThreadWindow!Ids) /\ ids \subseteq ThreadWindow!ToSet(v6')
  <2>1. ThreadWindow!Beyond(v6, top) \in Seq(ThreadWindow!Ids)
    BY <1>1, <1>5, RowsKept, WindowTypes
  <2> QED  BY <1>2, <1>3, <1>6, <2>1, RowsJoined
<1>8. \A d \in v11' : d \in ThreadWindow!Calls /\ ~Awaited(d) /\ d \in ThreadWindow!Outdated(ThreadWindow!Loads)
  BY <1>1, OutdatedIs DEF Awaited
<1>9. ThreadWindow!TypeOK'
  BY <1>4, <1>5, <1>6, <1>7, <1>8, WindowFields, WindowTyped DEF WindowInv
<1>10. LoadsInv(v5', v10', v15', v11')
  BY <1>1, <1>6, <1>8 DEF LoadsInv
<1>11. ASSUME NEW d \in v11' PROVE BringsInv(d, v9', v12')
  BY <1>8, BringsStill
<1>12. LandedInv(v5', v6', v9', v12')
  BY <1>1, <1>4, <1>5, <1>6, <1>7 DEF LandedInv
<1> QED  BY <1>9, <1>10, <1>11, <1>12 DEF WindowInv

(* One that did not: the pane loads the end of the chat.                   *)
LEMMA ReloadKeepsWindow ==
  ASSUME WindowInv, NEW c \in v11, ThreadWindow!Current(c), ThreadWindow!Emptied, v10' = TRUE, v12' = 0, v15' = FALSE,
         v11' = (ThreadWindow!Outdated(ThreadWindow!Loads) \ {c}) \cup {ThreadWindow!Call("load", 0)},
         UNCHANGED <<v1, v2, v3, v4, v5, v16>>
  PROVE  WindowInv'
<1>1. v11 \subseteq ThreadWindow!Calls /\ v5 = TRUE
  BY WindowFields DEF WindowInv, ThreadWindow!Current
<1>2. PICK d : d = ThreadWindow!Call("load", 0)
  OBVIOUS
<1>3. /\ d \in ThreadWindow!Calls /\ d.kind = "load" /\ d.fresh /\ "load" \in ThreadWindow!Loads
  BY <1>2, CallTyped DEF ThreadWindow!Kinds, ThreadWindow!Loads
<1>4. \A e \in v11' : \/ e = d
                      \/ ~Awaited(e) /\ e \in ThreadWindow!Outdated(ThreadWindow!Loads)
  BY <1>1, <1>2, OutdatedIs DEF Awaited
<1>5. ThreadWindow!TypeOK'
  <2>1. v11' \subseteq ThreadWindow!Calls
    BY <1>1, <1>3, <1>4, OutdatedIs
  <2> QED  BY <2>1, EmptiedTyped, WindowFields, WindowTyped DEF WindowInv
<1>6. LoadsInv(v5', v10', v15', v11')
  <2>1. d \in v11' /\ Awaited(d)
    BY <1>2, <1>3 DEF Awaited
  <2> QED  BY <1>1, <1>4, <2>1 DEF LoadsInv
<1>7. ASSUME NEW e \in v11' PROVE BringsInv(e, v9', v12')
  <2>1. CASE e = d
    BY <1>3, <2>1 DEF BringsInv
  <2>2. CASE e # d
    BY <1>4, <2>2, BringsStill
  <2> QED  BY <2>1, <2>2
<1> QED  BY <1>5, <1>6, <1>7 DEF WindowInv, LandedInv

(* A page: no row goes but to make room for the page of a load.            *)
LEMMA AnswerPlaces ==
  ASSUME WindowInv, NEW c \in v11, ThreadWindow!Current(c), c.kind # "jump",
         CASE c.failed -> ThreadWindow!LoadFailed(c)
           [] ~c.failed /\ c.kind = "load" -> ThreadWindow!ApplyLoaded(c)
           [] ~c.failed /\ c.kind = "older" -> ThreadWindow!ApplyPagination(c)
           [] ~c.failed /\ c.kind = "newer" -> ThreadWindow!ApplyPaginationNewer(c)
  PROVE  /\ v6' \in Seq(ThreadWindow!Ids) /\ v7' \in BOOLEAN /\ v8' \in BOOLEAN
         /\ v9' \in ThreadWindow!Ids \cup {0} /\ v10' = FALSE /\ v12' = v12
         /\ LandedInv(v5, v6', v9', v12)
<1>1. /\ c \in ThreadWindow!Calls /\ v6 \in Seq(ThreadWindow!Ids) /\ v9 \in ThreadWindow!Ids \cup {0}
      /\ v7 \in BOOLEAN /\ v8 \in BOOLEAN /\ v12 \in ThreadWindow!Ids \cup {0}
      /\ LandedInv(v5, v6, v9, v12) /\ BringsInv(c, v9, v12)
  BY WindowFields DEF WindowInv
<1>2. /\ c.rows \in Seq(ThreadWindow!Ids) /\ c.more \in BOOLEAN /\ c.failed \in BOOLEAN
      /\ c.kind \in {"load", "older", "newer"} /\ Awaited(c)
  BY <1>1 DEF ThreadWindow!Calls, ThreadWindow!Kinds, ThreadWindow!Current, Awaited, ThreadWindow!Loads
<1>3. CASE c.failed
  BY <1>1, <1>3 DEF ThreadWindow!LoadFailed, ThreadWindow!content
<1>4. CASE ~c.failed /\ c.kind = "load"
  <2>1. ThreadWindow!ApplyLoaded(c)
    BY <1>4
  <2>2. v12 = 0
    BY <1>1, <1>2, <1>4 DEF BringsInv
  <2> QED  BY <1>2, <2>1, <2>2 DEF ThreadWindow!ApplyLoaded, LandedInv
<1>5. CASE ~c.failed /\ c.kind = "older"
  <2>1. ThreadWindow!ApplyPagination(c)
    BY <1>5
  <2>2. v6' = c.rows \o v6 /\ v7' \in BOOLEAN /\ v10' = FALSE /\ UNCHANGED <<v8, v9, v12>>
    BY <1>2, <2>1 DEF ThreadWindow!ApplyPagination
  <2>3. v6' \in Seq(ThreadWindow!Ids) /\ ThreadWindow!ToSet(v6) \subseteq ThreadWindow!ToSet(v6')
    BY <1>1, <1>2, <2>2, RowsJoined
  <2> QED  BY <1>1, <2>2, <2>3 DEF LandedInv
<1>6. CASE ~c.failed /\ c.kind = "newer"
  <2>1. ThreadWindow!ApplyPaginationNewer(c)
    BY <1>6
  <2>2. CASE c.rows = <<>>
    BY <1>1, <2>1, <2>2 DEF ThreadWindow!ApplyPaginationNewer
  <2>3. CASE c.rows # <<>>
    <3>1. PICK ids, top : ids = ThreadWindow!ToSet(c.rows) /\ top = ThreadWindow!Highest(ids)
      OBVIOUS
    <3>2. ids \in SUBSET ThreadWindow!Ids /\ ids # {}
      <4>1. \A i \in 1 .. Len(c.rows) : c.rows[i] \in ThreadWindow!Ids
        BY <1>2, ElementOfSeq
      <4>2. 1 \in DOMAIN c.rows /\ DOMAIN c.rows = 1 .. Len(c.rows)
        BY <1>2, <2>3
      <4> QED  BY <3>1, <4>1, <4>2 DEF ThreadWindow!ToSet
    <3>3. top \in ids /\ top \in ThreadWindow!Ids
      BY <3>1, <3>2, HighestIs
    <3>4. c.anchor = v9 /\ v9 < top
      BY <1>1, <1>2, <1>6, <3>1, <3>3 DEF BringsInv
    <3>5. PICK low, high : low = ThreadWindow!UpTo(v6, v9) /\ high = ThreadWindow!Beyond(v6, top)
      OBVIOUS
    <3>6. /\ v6' = (low \o c.rows) \o high /\ v9' = top /\ v8' = c.more /\ v10' = FALSE
          /\ UNCHANGED <<v7, v12>>
      BY <2>1, <2>3, <3>1, <3>5 DEF ThreadWindow!ApplyPaginationNewer
    <3>7. v9 \in Int /\ top \in Int /\ v12 \in Int
      BY <1>1, <3>3, WindowTypes
    <3>8. /\ low \in Seq(ThreadWindow!Ids) /\ high \in Seq(ThreadWindow!Ids)
          /\ \A k \in ThreadWindow!ToSet(v6) : k <= v9 => k \in ThreadWindow!ToSet(low)
      BY <1>1, <3>5, <3>7, RowsKept
    <3>9. /\ v6' \in Seq(ThreadWindow!Ids) /\ ThreadWindow!ToSet(low) \subseteq ThreadWindow!ToSet(v6')
      <4>1. /\ low \o c.rows \in Seq(ThreadWindow!Ids)
            /\ ThreadWindow!ToSet(low) \subseteq ThreadWindow!ToSet(low \o c.rows)
        BY <1>2, <3>8, RowsJoined
      <4> QED  BY <3>6, <3>8, <4>1, RowsJoined
    <3>10. v12 # 0 => /\ v5 /\ v12 \in ThreadWindow!ToSet(v6') /\ v12 <= top
      BY <1>1, <3>4, <3>7, <3>8, <3>9 DEF LandedInv
    <3> QED  BY <1>1, <1>2, <3>3, <3>6, <3>9, <3>10 DEF LandedInv
  <2> QED  BY <2>2, <2>3
<1> QED  BY <1>2, <1>3, <1>4, <1>5, <1>6

LEMMA AnswerKeepsWindow ==
  ASSUME WindowInv, NEW c \in v11, ThreadWindow!Apply(c)
  PROVE  WindowInv'
<1>1. c.read /\ UNCHANGED <<v1, v2, v3, v4, v5, v16>>
  BY DEF ThreadWindow!Apply, ThreadWindow!store
<1>2. CASE ~ThreadWindow!Current(c)
  <2>1. v11' = v11 \ {c} /\ UNCHANGED <<v6, v7, v8, v9, v10, v12, v15>>
    BY <1>2 DEF ThreadWindow!Apply, ThreadWindow!content
  <2> QED  BY <1>1, <1>2, <2>1, StaleKeepsWindow
<1>3. CASE ThreadWindow!Current(c) /\ c.kind = "jump"
  <2>1. CASE ~c.failed
    BY <1>1, <1>3, <2>1, LandingKeepsWindow DEF ThreadWindow!Apply
  <2>2. CASE c.failed
    BY <1>1, <1>3, <2>2, ReloadKeepsWindow DEF ThreadWindow!Apply
  <2> QED  BY <2>1, <2>2
<1>4. CASE ThreadWindow!Current(c) /\ c.kind # "jump"
  <2>1. v11 \subseteq ThreadWindow!Calls /\ c \in ThreadWindow!Calls /\ LoadsInv(v5, v10, v15, v11) /\ v5 \in BOOLEAN
    BY WindowFields DEF WindowInv
  <2>2. /\ v11' = v11 \ {c} /\ v15' = v15 /\ v6' \in Seq(ThreadWindow!Ids) /\ v7' \in BOOLEAN /\ v8' \in BOOLEAN
        /\ v9' \in ThreadWindow!Ids \cup {0} /\ v10' = FALSE /\ v12' = v12
        /\ LandedInv(v5, v6', v9', v12)
    BY <1>4, AnswerPlaces DEF ThreadWindow!Apply
  <2>3. Awaited(c)
    BY <1>4, <2>1 DEF ThreadWindow!Calls, ThreadWindow!Kinds, ThreadWindow!Current, Awaited, ThreadWindow!Loads
  <2>4. \A d \in v11' : d \in v11 /\ ~Awaited(d)
    BY <2>1, <2>2, <2>3 DEF LoadsInv
  <2>5. LoadsInv(v5', v10', v15', v11')
    <3>1. ~v15 /\ (~v5 => \A d \in v11 : ~d.fresh)
      BY <2>1, <2>3 DEF LoadsInv
    <3>2. ~v15' /\ ~v10'
      BY <2>2, <3>1
    <3> QED  BY <1>1, <2>4, <3>1, <3>2 DEF LoadsInv
  <2>6. ASSUME NEW d \in v11' PROVE BringsInv(d, v9', v12')
    BY <2>4, BringsStill
  <2>7. ThreadWindow!TypeOK'
    <3>1. v11' \subseteq ThreadWindow!Calls
      BY <2>1, <2>4
    <3> QED  BY <1>1, <2>2, <3>1, WindowFields, WindowTyped DEF WindowInv
  <2> QED  BY <1>1, <2>2, <2>5, <2>6, <2>7 DEF WindowInv
<1> QED  BY <1>2, <1>3, <1>4

(* An answer an overlay took: what waited for it waits on.                 *)
LEMMA SwallowKeepsWindow ==
  ASSUME WindowInv, NEW c \in v11, ThreadWindow!Swallow(c)
  PROVE  WindowInv'
<1>1. /\ LoadsInv(v5, v10, v15, v11) /\ v11 \subseteq ThreadWindow!Calls /\ c \in ThreadWindow!Calls
      /\ v5 \in BOOLEAN /\ v15 \in BOOLEAN
  BY WindowFields DEF WindowInv
<1>2. /\ c.kind # "jump" /\ v11' = v11 \ {c} /\ v15' = (v15 \/ ThreadWindow!Current(c))
      /\ UNCHANGED <<v1, v2, v3, v4, v5, v6, v7, v8, v9, v10, v12, v16>>
  BY DEF ThreadWindow!Swallow, ThreadWindow!store, ThreadWindow!content
<1>3. ThreadWindow!Current(c) <=> Awaited(c)
  <2>1. c.kind \in ThreadWindow!Loads /\ c.fresh \in BOOLEAN
    BY <1>1, <1>2 DEF ThreadWindow!Calls, ThreadWindow!Kinds, ThreadWindow!Loads
  <2>2. c.fresh => v5
    BY <1>1 DEF LoadsInv
  <2> QED  BY <2>1, <2>2 DEF ThreadWindow!Current, Awaited
<1>4. LoadsInv(v5', v10', v15', v11')
  <2>1. CASE Awaited(c)
    <3>1. (\A d \in v11' : ~Awaited(d)) /\ v15' /\ v10'
      BY <1>1, <1>2, <1>3, <2>1 DEF LoadsInv
    <3> QED  BY <1>1, <1>2, <3>1 DEF LoadsInv
  <2>2. CASE ~Awaited(c)
    <3>1. v15' = v15
      BY <1>1, <1>2, <1>3, <2>2
    <3> QED  BY <1>1, <1>2, <2>2, <3>1 DEF LoadsInv
  <2> QED  BY <2>1, <2>2
<1>5. ThreadWindow!TypeOK'
  <2>1. v11' \subseteq ThreadWindow!Calls
    BY <1>1, <1>2
  <2>2. v15' \in BOOLEAN
    BY <1>1, <1>2
  <2> QED  BY <1>2, <2>1, <2>2, WindowFields, WindowTyped DEF WindowInv
<1> QED  BY <1>2, <1>4, <1>5 DEF WindowInv

-----------------------------------------------------------------------------
(* What an event does.                                                     *)
LEMMA RowPlaced ==
  ASSUME v6 \in Seq(ThreadWindow!Ids), NEW id \in ThreadWindow!Ids
  PROVE  /\ ThreadWindow!InsertByDate(id) \in Seq(ThreadWindow!Ids)
         /\ ThreadWindow!ToSet(v6) \subseteq ThreadWindow!ToSet(ThreadWindow!InsertByDate(id))
<1>1. PICK low, high, row : /\ low = ThreadWindow!UpTo(v6, id - 1) /\ high = ThreadWindow!Beyond(v6, id)
                            /\ row = <<id>>
  OBVIOUS
<1>2. ThreadWindow!InsertByDate(id) = (low \o row) \o high
  BY <1>1 DEF ThreadWindow!InsertByDate
<1>3. id \in Int /\ id - 1 \in Int
  BY WindowTypes
<1>4. /\ low \in Seq(ThreadWindow!Ids) /\ high \in Seq(ThreadWindow!Ids)
      /\ \A k \in ThreadWindow!ToSet(v6) : /\ k <= id - 1 => k \in ThreadWindow!ToSet(low)
                                           /\ k > id => k \in ThreadWindow!ToSet(high)
  BY <1>1, <1>3, RowsKept
<1>5. row \in Seq(ThreadWindow!Ids) /\ id \in ThreadWindow!ToSet(row)
  <2>1. row \in Seq(ThreadWindow!Ids) /\ 1 \in DOMAIN row /\ row[1] = id
    BY <1>1
  <2> QED  BY <2>1 DEF ThreadWindow!ToSet
<1>6. \A k \in ThreadWindow!ToSet(v6) : k \in Int
  BY ElementOfSeq, WindowTypes DEF ThreadWindow!ToSet
<1>7. /\ low \o row \in Seq(ThreadWindow!Ids)
      /\ ThreadWindow!ToSet(low) \cup ThreadWindow!ToSet(row) \subseteq ThreadWindow!ToSet(low \o row)
  BY <1>4, <1>5, RowsJoined
<1>8. /\ (low \o row) \o high \in Seq(ThreadWindow!Ids)
      /\ ThreadWindow!ToSet(low \o row) \cup ThreadWindow!ToSet(high)
           \subseteq ThreadWindow!ToSet((low \o row) \o high)
  BY <1>4, <1>7, RowsJoined
<1>9. ASSUME NEW k \in ThreadWindow!ToSet(v6) PROVE k \in ThreadWindow!ToSet((low \o row) \o high)
  <2>1. k <= id - 1 \/ k = id \/ k > id
    BY <1>3, <1>6
  <2> QED  BY <1>4, <1>5, <1>7, <1>8, <2>1
<1> QED  BY <1>2, <1>8, <1>9

LEMMA EventKeepsWindow == WindowInv /\ ThreadWindow!HandleEvent => WindowInv'
<1> SUFFICES ASSUME WindowInv, ThreadWindow!HandleEvent PROVE WindowInv'
  OBVIOUS
<1>1. /\ v4 \in Seq(ThreadWindow!Events) /\ v6 \in Seq(ThreadWindow!Ids) /\ v11 \subseteq ThreadWindow!Calls
      /\ v12 \in ThreadWindow!Ids \cup {0} /\ LandedInv(v5, v6, v9, v12)
  BY WindowFields DEF WindowInv
<1>2. /\ v4 # <<>> /\ v4' = Tail(v4)
      /\ UNCHANGED <<v1, v2, v3, v5, v7, v8, v9, v10, v11, v15, v16>>
  BY DEF ThreadWindow!HandleEvent, ThreadWindow!store
<1>3. PICK id \in ThreadWindow!Ids : id = Head(v4).id
  <2>1. Head(v4) \in ThreadWindow!Events
    BY <1>1, <1>2
  <2> QED  BY <2>1 DEF ThreadWindow!Events
<1>4. v4' \in Seq(ThreadWindow!Events)
  BY <1>1, <1>2
<1>5. /\ v6' \in Seq(ThreadWindow!Ids) /\ v12' \in {0, v12}
      /\ v12' # 0 => \A k \in ThreadWindow!ToSet(v6) : k = v12 => k \in ThreadWindow!ToSet(v6')
  <2>1. CASE UNCHANGED <<v6, v12>>
    BY <1>1, <2>1
  <2>2. CASE ThreadWindow!ApplyIncoming(id)
    <3>1. ThreadWindow!ToSet(v6) \subseteq ThreadWindow!ToSet(v6') /\ v6' \in Seq(ThreadWindow!Ids) /\ v12' = v12
      BY <1>1, <2>2, RowPlaced DEF ThreadWindow!ApplyIncoming
    <3> QED  BY <3>1
  <2>3. CASE ThreadWindow!ApplyDeleted(id)
    <3>1. v6' = ThreadWindow!Without(v6, id) /\ v12' = (IF v12 = id THEN 0 ELSE v12)
      BY <2>3 DEF ThreadWindow!ApplyDeleted
    <3>2. id \in Int
      BY WindowTypes
    <3> QED  BY <1>1, <3>1, <3>2, RowsKept
  <2> QED  BY <1>3, <2>1, <2>2, <2>3 DEF ThreadWindow!HandleEvent
<1>6. ThreadWindow!TypeOK'
  BY <1>1, <1>2, <1>4, <1>5, WindowFields, WindowTyped DEF WindowInv
<1>7. LoadsInv(v5', v10', v15', v11')
  BY <1>2 DEF WindowInv
<1>8. ASSUME NEW c \in v11' PROVE BringsInv(c, v9', v12')
  BY <1>2, <1>5 DEF WindowInv, BringsInv
<1>9. LandedInv(v5', v6', v9', v12')
  BY <1>1, <1>2, <1>5 DEF LandedInv
<1> QED  BY <1>6, <1>7, <1>8, <1>9 DEF WindowInv

LEMMA WindowStep ==
  ASSUME WindowInv,
         ThreadWindow!Next \/ UNCHANGED <<v1, v2, v3, v4, v5, v6, v7, v8, v9, v10, v11, v12, v15, v16>>
  PROVE  WindowInv'
BY StoreKeepsWindow, OpenKeepsWindow, LeaveKeepsWindow, JumpKeepsWindow, GoToKeepsWindow,
   PaginateKeepsWindow, ReadKeepsWindow, AnswerKeepsWindow, SwallowKeepsWindow, EventKeepsWindow
   DEF ThreadWindow!Next, ThreadWindow!RunCommand

-----------------------------------------------------------------------------
(***************************************************************************)
(* The pane of the run: the composer, the screen, the sends or the marks.  *)
(***************************************************************************)
PanesInv ==
    /\ TypeOK
    /\ part = "screen" => ScreenInv
    /\ part = "send" => SendInv
    /\ part = "marks" => MarksInv
    /\ part = "window" => WindowInv

LEMMA PanesStart == MCInit => PanesInv
  BY InitTypeOK, ScreenStart, SendStart, MarksBegin, WindowStart DEF MCInit, PanesInv

LEMMA ComposerSteps ==
  TypeOK /\ [MCNext]_state => [Next]_composerVars
  BY DEF MCNext, MCSteps, state

LEMMA PanesStep ==
  PanesInv /\ [MCNext]_state => PanesInv' /\ LateAnswersStay
<1> SUFFICES ASSUME PanesInv, [MCNext]_state
             PROVE  PanesInv' /\ LateAnswersStay
  OBVIOUS
<1>1. TypeOK'
  BY ComposerSteps, NextTypeOK DEF PanesInv
<1>2. part' = part
  BY DEF MCNext, state
<1>3. CASE part = "screen" /\ MCNext
  <2>1. Screen!Next
    BY <1>3 DEF MCNext, MCSteps
  <2>2. ScreenInv' /\ Screen!LateAnswersStay
    BY <1>3, <2>1, ScreenStep DEF PanesInv
  <2> QED
    BY <1>1, <1>2, <1>3, <2>2 DEF PanesInv, LateAnswersStay
<1>4. CASE part = "screen" /\ UNCHANGED state
  <2>1. UNCHANGED <<v1, v2, v3, v4, v5, v6, v7, v8, v9, v10, v11, v12>>
    BY <1>4 DEF state
  <2>2. Shape' /\ OnTheirWay' /\ Screen!ReactionHasItsPicker'
    BY <1>4, <2>1, Apart, ForwardsStay DEF PanesInv, Shape, Screen!ReactionHasItsPicker
  <2>3. MailOK(answers', open')
    BY <1>4, <2>1, Apart DEF PanesInv, answers, open
  <2>4. ScreenInv'
    BY <2>2, <2>3, Together
  <2> QED
    BY <1>1, <1>2, <1>4, <2>1, <2>4 DEF PanesInv, LateAnswersStay, Screen!LateAnswersStay
<1>5. CASE part = "send"
  <2>1. SendInv
    BY <1>5 DEF PanesInv
  <2>2. SendView!Next \/ UNCHANGED <<v1, v2, v3, v4, v5, v6, v7, v8, v9, v10, v11, v12, v13,
                                    v14, v15, v16, v17, v18>>
    BY <1>5 DEF MCNext, MCSteps, state
  <2>3. SendInv'
    BY <2>1, <2>2, SendStep, SendIdle
  <2> QED
    BY <1>1, <1>2, <1>5, <2>3 DEF PanesInv, LateAnswersStay
<1>6. CASE part = "marks"
  <2>1. ThreadMarks!Next \/ UNCHANGED ThreadMarks!vars
    BY <1>6 DEF MCNext, MCSteps, state, ThreadMarks!vars, ThreadMarks!outside, ThreadMarks!rows,
                ThreadMarks!picked, ThreadMarks!light, ThreadMarks!ask
  <2>2. MarksInv'
    BY <1>6, <2>1, MarksKeep DEF PanesInv
  <2> QED
    BY <1>1, <1>2, <1>6, <2>2 DEF PanesInv, LateAnswersStay
<1>7. CASE part = "window"
  <2>1. ThreadWindow!Next \/ UNCHANGED <<v1, v2, v3, v4, v5, v6, v7, v8, v9, v10, v11, v12, v15, v16>>
    BY <1>7 DEF MCNext, MCSteps, state
  <2>2. WindowInv'
    BY <1>7, <2>1, WindowStep DEF PanesInv
  <2> QED
    BY <1>1, <1>2, <1>7, <2>2 DEF PanesInv, LateAnswersStay
<1>8. CASE part \notin {"screen", "send", "marks", "window"}
  BY <1>1, <1>2, <1>8 DEF PanesInv, LateAnswersStay
<1> QED
  BY <1>3, <1>4, <1>5, <1>6, <1>7, <1>8

(* The composer and the thread are on one chat, a scroll that waits for a  *)
(* load waits for it, a forward goes once and never back to its own chat,  *)
(* and a reaction waits only with its picker: whatever picks, handles,     *)
(* jumps, overlays and late answers come between (ui/app/update.go).       *)
THEOREM OneChatIsOnScreen == MCSpec => []OneChatOnScreen
<1>1. PanesInv => OneChatOnScreen
  BY DEF PanesInv, ScreenInv, OneChatOnScreen, ComposerFollowsThread, ScrollIsForThisChat,
         ForwardedOnce, ReactionHasItsPicker
<1> QED
  BY PanesStart, PanesStep, <1>1, PTL DEF MCSpec

(* A send has one row, of its own chat, that claims what was published and *)
(* can be found when its echo comes; until its chat is opened again no     *)
(* message is shown twice and no row is left pending, in whatever order    *)
(* results, events and pages come (applyIncoming, applySent, ApplyLoaded). *)
THEOREM SendsAreShownOnce == MCSpec => []SendsShownOnce
<1>1. PanesInv => SendsShownOnce
  BY SendSays DEF PanesInv, SendInv, SendsShownOnce, PillTruthful, HeldRowRemovable,
         NoDoubleRowOnFirstVisit, NoStuckPendingOnFirstVisit
<1> QED
  BY PanesStart, PanesStep, <1>1, PTL DEF MCSpec

(* Cursor, marks, selection, divider and prompt stay with the messages     *)
(* they were put on while pages, arrivals, deletions and drags come        *)
(* between: nothing is carried to another chat, a drag copies whole        *)
(* messages or part of one, the divider is above the first unread message, *)
(* a prompt deletes what it asked about (marks.go, selection.go,           *)
(* unread.go).                                                             *)
THEOREM TheMarksStayPut == MCSpec => []MarksStayPut
<1>1. PanesInv => MarksStayPut
  BY MarksSay DEF PanesInv, MarksStayPut, NothingCarriedOver, WholeOrWithinOne, DragIsSteady,
         DividerWhereReadingStopped, DeletesWhatWasMeant
<1> QED
  BY PanesStart, PanesStep, <1>1, PTL DEF MCSpec

(* A pane that says it loads has a call of its generation under way, or an *)
(* overlay has taken the answer: it does not wait for one that was dropped *)
(* as outdated (model.go, loading, loadGen).                               *)
THEOREM LoadsAreAnswered == MCSpec => []LoadingHasItsCall
<1>1. PanesInv => LoadingHasItsCall
  BY DEF PanesInv, WindowInv, LoadsInv, Awaited, LoadingHasItsCall, ThreadWindow!LoadingHasItsCall
<1> QED
  BY PanesStart, PanesStep, <1>1, PTL DEF MCSpec

(* What a jump landed on stays loaded until the pane is opened on          *)
(* something else or the message is deleted: no slower load and no page    *)
(* takes it away (model.go, LoadJumpWindow; update.go,                     *)
(* applyPaginationNewer).                                                  *)
THEOREM JumpsAreKept == MCSpec => []JumpStays
<1>1. PanesInv => JumpStays
  BY DEF PanesInv, WindowInv, LandedInv, JumpStays, ThreadWindow!JumpStays, ThreadWindow!Shown
<1> QED
  BY PanesStart, PanesStep, <1>1, PTL DEF MCSpec

(* Only the user changes chats or takes words away: a late answer neither  *)
(* moves the thread nor empties the box, and edits and drafts give back    *)
(* what they displaced (jumpGen, cancelEdit, restoreDraft).                *)
THEOREM TheScreenIsTheUsers == MCSpec => ScreenIsTheUsers
<1>1. TypeOK /\ [Next]_composerVars => EditGivesBack /\ DraftWaits /\ OnlyTheUserTakesWords
  <2>1. TypeOK /\ UNCHANGED composerVars => EditGivesBack /\ DraftWaits /\ OnlyTheUserTakesWords
    BY DEF composerVars, pane, EditGivesBack, DraftWaits, OnlyTheUserTakesWords
  <2> QED  BY <2>1, EditStep, DraftStep, AnswerStep
<1>2. PanesInv /\ [MCNext]_state =>
        [LateAnswersStay /\ EditGivesBack /\ DraftWaits /\ OnlyTheUserTakesWords]_state
  BY <1>1, ComposerSteps, PanesStep DEF PanesInv
<1> QED
  BY PanesStart, PanesStep, <1>2, PTL DEF MCSpec, ScreenIsTheUsers
=============================================================================
