----------------------------- MODULE KeysProofs -----------------------------
(***************************************************************************)
(* Theorems about Keys, for any files and any keys.  A program that runs   *)
(* has a keymap that was accepted (Accepted); what DetectConflicts says of *)
(* the keymap as a whole is then narrowed to the actions that are live     *)
(* where the key is pressed.  What an overlay was put up for and what waits *)
(* for its pick agree (OverlaysAreTheirs), whatever a handle looked up     *)
(* before does to them when its answer comes.                              *)
(***************************************************************************)
EXTENDS Keys, FiniteSetTheorems, WellFoundedInduction, TLAPS

Accepted == up \/ did # <<>> => Loads(file)

KeysInv == KeysReach /\ Accepted

Handled == UNION {Order[i] : i \in DOMAIN Order}

-----------------------------------------------------------------------------
(* The actions.                                                            *)

LEMMA Orders ==
    /\ DOMAIN Order = 1 .. 19
    /\ \A i \in 1 .. 19 : Order[i] \subseteq BindingFields \cup {"quick_chat"}
<1>1. DOMAIN Order = 1 .. 19
  BY DEF Order
<1>2. ASSUME NEW i \in 1 .. 19 PROVE Order[i] \subseteq BindingFields \cup {"quick_chat"}
  BY DEF Order, BindingFields, Default, ChatActions, MessageActions, Composer
<1> QED
  BY <1>1, <1>2

LEMMA FiveAreFinite ==
  ASSUME NEW a, NEW b, NEW c, NEW d, NEW e
  PROVE  IsFiniteSet({a, b, c, d, e})
<1>1. IsFiniteSet({} \cup {a})
  BY FS_EmptySet, FS_AddElement, Zenon
<1>2. IsFiniteSet(({} \cup {a}) \cup {b})
  BY <1>1, FS_AddElement, Zenon
<1>3. IsFiniteSet((({} \cup {a}) \cup {b}) \cup {c})
  BY <1>2, FS_AddElement, Zenon
<1>4. IsFiniteSet(((({} \cup {a}) \cup {b}) \cup {c}) \cup {d})
  BY <1>3, FS_AddElement, Zenon
<1>5. IsFiniteSet((((({} \cup {a}) \cup {b}) \cup {c}) \cup {d}) \cup {e})
  BY <1>4, FS_AddElement, Zenon
<1>6. (((({} \cup {a}) \cup {b}) \cup {c}) \cup {d}) \cup {e} = {a, b, c, d, e}
  OBVIOUS
<1> QED
  BY <1>5, <1>6

LEMMA ActionsAreFinite == IsFiniteSet(BindingFields)
<1> DEFINE A == {"send", "newline", "reply", "open_editor", "toggle_help"}
           B == {"focus_next", "focus_prev", "next_chat", "prev_chat", "scroll_up"}
           C == {"scroll_down", "search", "open_palette", "download", "open_media"}
           D == {"attach", "next_folder", "prev_folder", "show_image", "mark_message"}
           E == {"copy_message", "copy_link", "press_button", "edit_message", "delete_msg"}
           F == {"forward_message", "react_message", "jump_to_reply", "jump_back", "emoji_picker"}
           G == {"complete_emoji", "mute_chat", "pin_chat", "toggle_unread", "quit"}
           All == A \cup B \cup C \cup D \cup E \cup F \cup G
<1>1. BindingFields \subseteq All
  BY DEF BindingFields, Default
<1>2. IsFiniteSet(All)
  <2>1. /\ IsFiniteSet(A) /\ IsFiniteSet(B) /\ IsFiniteSet(C) /\ IsFiniteSet(D)
        /\ IsFiniteSet(E) /\ IsFiniteSet(F) /\ IsFiniteSet(G)
    BY FiveAreFinite
  <2> HIDE DEF A, B, C, D, E, F, G
  <2>2. IsFiniteSet(A \cup B)
    BY <2>1, FS_Union
  <2>3. IsFiniteSet(A \cup B \cup C)
    BY <2>1, <2>2, FS_Union
  <2>4. IsFiniteSet(A \cup B \cup C \cup D)
    BY <2>1, <2>3, FS_Union
  <2>5. IsFiniteSet(A \cup B \cup C \cup D \cup E)
    BY <2>1, <2>4, FS_Union
  <2>6. IsFiniteSet(A \cup B \cup C \cup D \cup E \cup F)
    BY <2>1, <2>5, FS_Union
  <2> QED
    BY <2>1, <2>6, FS_Union
<1> QED
  BY <1>1, <1>2, FS_Subset

LEMMA NatLeast ==
  ASSUME NEW T \in SUBSET Nat, T # {}
  PROVE  \E x \in T : \A y \in T : ~(y < x)
<1> DEFINE R == OpToRel(<, Nat)
<1>1. IsWellFoundedOn(R, Nat)
  BY NatLessThanWellFounded
<1>2. \A x, y \in Nat : x < y => <<x, y>> \in R
  BY DEF OpToRel
<1> HIDE DEF R
<1>3. PICK x \in T : \A y \in T : <<y, x>> \notin R
  BY <1>1, WFMin
<1>4. \A y \in T : ~(y < x)
  BY <1>2, <1>3, Zenon
<1> QED
  BY <1>4

-----------------------------------------------------------------------------
(* The handlers.                                                           *)

LEMMA KeymapIs ==
  ASSUME TypeOK, Loads(file)
  PROVE  /\ keymap = Apply(file)
         /\ \A k : ~(Cardinality(Owners(keymap, k)) > 1 /\ Owners(keymap, k) \notin Coexisting)
<1>1. keymap = Apply(file)
  BY DEF TypeOK, keymap, Loaded
<1>2. ASSUME NEW k, Cardinality(Owners(keymap, k)) > 1, Owners(keymap, k) \notin Coexisting
      PROVE  FALSE
  <2>1. k \notin UNION {keymap[b] : b \in BindingFields}
    BY <1>1, <1>2 DEF Loads, DetectConflicts
  <2>2. Owners(keymap, k) = {}
    BY <2>1 DEF Owners
  <2> QED
    BY <1>2, <2>2, FS_EmptySet
<1> QED
  BY <1>1, <1>2

LEMMA ContendersAre ==
  ASSUME NEW k, NEW idle \in BOOLEAN
  PROVE  /\ Contenders(k, idle) \subseteq BindingFields \cup {"quick_chat"}
         /\ \A b \in Contenders(k, idle) : b \in Handled /\ Answers(b, k) /\ Live(b)
<1>1. Handled \subseteq BindingFields \cup {"quick_chat"}
  BY Orders DEF Handled
<1> QED
  BY <1>1 DEF Contenders, Handled

(* The key is the focused pane's, or the first handler's that wants it.    *)
LEMMA TakerContends ==
  ASSUME NEW k, NEW idle \in BOOLEAN
  PROVE  IF Contenders(k, idle) = {} THEN Taker(k, idle) = "pane"
                                     ELSE Taker(k, idle) \in Contenders(k, idle)
<1> DEFINE takers == Contenders(k, idle)
           Wants(i) == Order[i] \cap takers # {}
           first == CHOOSE i \in DOMAIN Order :
                       Wants(i) /\ \A j \in 1 .. i - 1 : Order[j] \cap takers = {}
<1>1. CASE takers = {}
  BY <1>1 DEF Taker
<1>2. CASE takers # {}
  <2>1. PICK i \in 1 .. 19 : Wants(i)
    BY <1>2, ContendersAre, Orders DEF Handled
  <2>2. \E n \in 1 .. 19 : Wants(n) /\ \A j \in 1 .. n - 1 : ~Wants(j)
    <3> HIDE DEF Wants
    <3>1. {n \in Nat : n \in 1 .. 19 /\ Wants(n)} # {}
      BY <2>1
    <3>2. PICK n \in {m \in Nat : m \in 1 .. 19 /\ Wants(m)} :
            \A m \in {x \in Nat : x \in 1 .. 19 /\ Wants(x)} : ~(m < n)
      BY <3>1, NatLeast
    <3>3. \A j \in 1 .. n - 1 : ~Wants(j)
      BY <3>2
    <3> QED  BY <3>2, <3>3
  <2>3. first \in 1 .. 19 /\ Wants(first)
    BY <2>2, Orders
  <2>4. (CHOOSE b \in Order[first] : b \in takers) \in takers
    BY <2>3
  <2> QED
    BY <1>2, <2>4 DEF Taker
<1> QED
  BY <1>1, <1>2

-----------------------------------------------------------------------------
(* Of two actions on one key at most one is live, but for the pair that    *)
(* resolves by the order of handlers.                                      *)
LEMMA LiveApart ==
  ASSUME TypeOK
  PROVE  /\ ~(Live("jump_to_reply") /\ Live("pin_chat"))
         /\ ~(Live("press_button") /\ Live("send"))
BY DEF Live, ChatActions, MessageActions, Composer

LEMMA AtMostOne ==
  ASSUME NEW S, IsFiniteSet(S), \A x, y \in S : x = y
  PROVE  Cardinality(S) <= 1
<1>1. CASE S = {}
  BY <1>1, FS_EmptySet
<1>2. ASSUME NEW x \in S PROVE Cardinality(S) <= 1
  <2>1. S = {x}
    BY <1>2
  <2> QED  BY <2>1, FS_Singleton
<1> QED
  BY <1>1, <1>2

LEMMA MappedAnswer ==
  ASSUME TypeOK, Loads(file), NEW k, NEW idle \in BOOLEAN
  PROVE  LET mapped == Contenders(k, idle) \ {"quick_chat"}
         IN  Cardinality(mapped) <= 1 \/ mapped = {"complete_emoji", "focus_next"}
<1> DEFINE mapped == Contenders(k, idle) \ {"quick_chat"}
           owners == Owners(keymap, k)
<1> SUFFICES Cardinality(mapped) <= 1 \/ mapped = {"complete_emoji", "focus_next"}
  OBVIOUS
<1>1. mapped \subseteq owners /\ \A b \in mapped : Live(b)
  BY ContendersAre DEF Answers, Owners
<1>2. IsFiniteSet(owners) /\ IsFiniteSet(mapped)
  <2>1. owners \in SUBSET BindingFields
    BY DEF Owners
  <2>2. IsFiniteSet(owners)
    BY <2>1, ActionsAreFinite, FS_Subset
  <2> QED  BY <1>1, <2>2, FS_Subset
<1> HIDE DEF mapped
<1>3. CASE Cardinality(owners) <= 1
  <2>1. \A x, y \in owners : x = y
    <3>1. CASE owners = {}  BY <3>1
    <3>2. CASE owners # {}
      <4>1. Cardinality(owners) = 1
        <5>1. Cardinality(owners) \in Nat /\ Cardinality(owners) # 0
          BY <1>2, <3>2, FS_EmptySet, FS_CardinalityType
        <5> QED  BY <5>1, <1>3
      <4> QED  BY <4>1, <1>2, FS_Singleton
    <3> QED  BY <3>1, <3>2
  <2> QED  BY <2>1, <1>1, <1>2, AtMostOne
<1>4. CASE owners \in Coexisting
  <2>1. CASE owners = {"complete_emoji", "focus_next"}
    <3>1. CASE mapped = {"complete_emoji", "focus_next"}
      BY <3>1
    <3>2. CASE mapped # {"complete_emoji", "focus_next"}
      <4>1. \A x, y \in mapped : x = y
        BY <1>1, <2>1, <3>2
      <4> QED  BY <4>1, <1>2, AtMostOne
    <3> QED  BY <3>1, <3>2
  <2>2. CASE owners # {"complete_emoji", "focus_next"}
    <3>1. \A x, y \in mapped : x = y
      BY <1>1, <1>4, <2>2, LiveApart DEF Coexisting
    <3> QED  BY <3>1, <1>2, AtMostOne
  <2> QED  BY <2>1, <2>2
<1>5. Cardinality(owners) <= 1 \/ owners \in Coexisting
  <2>1. Cardinality(owners) \in Nat
    BY <1>2, FS_CardinalityType
  <2> QED  BY <2>1, KeymapIs
<1> QED
  BY <1>3, <1>4, <1>5

-----------------------------------------------------------------------------
(* Text.  Where text is typed the live actions are the ones the property   *)
(* names; with no printable key on any of them nobody wants a character.   *)
LEMMA TextIsFree ==
  ASSUME TypeOK, Typing, NEW k, NEW idle \in BOOLEAN, Printable(k),
         \A b \in {"focus_next", "focus_prev", "next_chat", "prev_chat", "quit", "complete_emoji",
                   "open_palette", "emoji_picker", "attach", "scroll_up", "scroll_down"} \cup Composer :
            \A h \in keymap[b] : ~Printable(h)
  PROVE  Contenders(k, idle) = {}
<1> SUFFICES ASSUME NEW b \in Contenders(k, idle) PROVE FALSE
  OBVIOUS
<1>1. b \in Handled /\ Answers(b, k) /\ Live(b)
  BY ContendersAre
<1>2. b # "quick_chat"
  BY <1>1 DEF Answers, QuickKeys, Key, Printable
<1>3. b \notin {"focus_next", "focus_prev", "next_chat", "prev_chat", "quit", "complete_emoji",
                "open_palette", "emoji_picker", "attach", "scroll_up", "scroll_down"} \cup Composer
  BY <1>1, <1>2 DEF Answers
<1>4. b \in {"next_folder", "prev_folder", "download", "toggle_help", "open_media", "search"}
             \cup ChatActions \cup MessageActions
  BY <1>1, <1>2, <1>3 DEF Handled, Order
<1> QED
  BY <1>1, <1>4 DEF Live, Typing, ChatActions, MessageActions, Composer

-----------------------------------------------------------------------------
(* The steps.                                                              *)

LEMMA NotedWell ==
  ASSUME KeysInv, NEW k \in Pressed, NEW idle \in BOOLEAN, Loads(file), file' = file,
         NEW by \in BindingFields \cup {"pane", "text", "overlay", "quick_chat", "mark"},
         Note(k, by, idle),
         Typing /\ Printable(k) /\ Contenders(k, idle) = {} => by = "text"
  PROVE  did' \in Took /\ OneAnswer' /\ NothingTypedIsStolen'
<1> USE DEF KeysInv, KeysReach
<1>1. did' \in Took
  BY ContendersAre DEF Note, Took, TypeOK, Typing
<1>2. did'.contenders = Contenders(k, idle) /\ did'.by = by /\ did'.key = k /\ did'.typing = Typing
  BY DEF Note
<1>3. OneAnswer'
  BY <1>2, MappedAnswer DEF OneAnswer
<1>4. keymap' = keymap
  BY DEF keymap
<1>5. NothingTypedIsStolen'
  BY <1>2, <1>4, TextIsFree DEF NothingTypedIsStolen
<1> QED
  BY <1>1, <1>3, <1>5

LEMMA StepIsAPane ==
  ASSUME TypeOK, NEW dir \in {1, -1}
  PROVE  Step(dir) \in {"chats", "input", "thread"}
<1>1. \E n \in 1 .. 3 : Panes[n] = focus
  BY DEF TypeOK, Panes
<1> DEFINE i == CHOOSE n \in 1 .. 3 : Panes[n] = focus
<1>2. i \in 1 .. 3
  BY <1>1
<1> HIDE DEF i
<1>3. ((i - 1 + dir) % 3) + 1 \in 1 .. 3
  <2>1. \A x \in Int : x % 3 \in 0 .. 2
    OBVIOUS
  <2>2. i - 1 + dir \in Int
    BY <1>2
  <2> DEFINE d == i - 1 + dir
  <2>3. d % 3 \in 0 .. 2
    BY <2>1, <2>2
  <2> HIDE DEF d
  <2>4. (d % 3) + 1 \in 1 .. 3
    BY <2>3
  <2> QED  BY <2>4 DEF d
<1>4. Panes[((i - 1 + dir) % 3) + 1] \in {"chats", "input", "thread"}
  BY <1>3 DEF Panes
<1> QED
  BY <1>4 DEF Step, i

LEMMA OpensAre ==
  /\ DOMAIN Opens = {"toggle_help", "search", "open_palette", "attach", "emoji_picker",
                     "react_message", "forward_message", "delete_msg"}
  /\ \A b \in DOMAIN Opens : Opens[b] \in Overlays \ {"none"}
  /\ Opens["react_message"] = "emoji" /\ Opens["emoji_picker"] = "emoji"
  /\ Opens["forward_message"] = "palette" /\ Opens["open_palette"] = "palette"
  /\ Opens["search"] = "search"
BY DEF Opens, Overlays

(* A binding opens its overlay only where it is live, outside the filter.   *)
LEMMA PerformKeeps ==
  ASSUME KeysInv, overlay = "none", NEW b, Live(b), Perform(b)
  PROVE  /\ up' \in BOOLEAN /\ focus' \in {"chats", "input", "thread"}
         /\ {filtering, chatOpen, code}' \subseteq BOOLEAN /\ overlay' \in Overlays
         /\ pending' \subseteq {"forward", "react"} /\ asked' \in Nat
         /\ OverlaysAreTheirs'
<1> USE DEF KeysInv, KeysReach
<1>1. CASE UNCHANGED <<up, filtering, place, overlay, opened, pending, asked>>
  BY <1>1 DEF TypeOK, OverlaysAreTheirs, place
<1>2. CASE Act(b)
  <2>1. focus' \in {"chats", "input", "thread"}
    BY <1>2, StepIsAPane DEF Act, TypeOK
  <2>2. overlay' \in Overlays
    BY <1>2, OpensAre DEF Act, TypeOK
  <2>3. /\ up' \in BOOLEAN /\ {filtering, chatOpen, code}' \subseteq BOOLEAN
        /\ asked' \in Nat /\ pending' \subseteq {"forward", "react"}
    BY <1>2 DEF Act, TypeOK, Purpose
  <2>4. "react" \notin pending
    BY DEF OverlaysAreTheirs
  <2>5. ASSUME b \in DOMAIN Opens /\ (b = "attach" => chatOpen) PROVE OverlaysAreTheirs'
    <3>1. overlay' = Opens[b] /\ opened' = b /\ filtering' = filtering
      BY <1>2, <2>5 DEF Act
    <3>2. ~filtering
      BY <2>5, OpensAre DEF Live, ChatActions, MessageActions, Composer
    <3>3. "react" \in pending' <=> b = "react_message"
      BY <1>2, <2>4 DEF Act, Purpose
    <3>4. b = "forward_message" => "forward" \in pending'
      BY <1>2 DEF Act, Purpose
    <3>5. overlay' # "none"
      BY <3>1, <2>5, OpensAre
    <3> QED  BY <2>5, <3>1, <3>2, <3>3, <3>4, <3>5 DEF OverlaysAreTheirs
  <2>6. ASSUME ~(b \in DOMAIN Opens /\ (b = "attach" => chatOpen)) PROVE OverlaysAreTheirs'
    <3>1. overlay' = "none"
      BY <1>2, <2>6 DEF Act
    <3>2. "react" \notin pending'
      BY <1>2, <2>4, <2>6, OpensAre DEF Act, Purpose
    <3> QED  BY <3>1, <3>2 DEF OverlaysAreTheirs
  <2> QED  BY <2>1, <2>2, <2>3, <2>5, <2>6
<1> QED
  BY <1>1, <1>2 DEF Perform

LEMMA PressesReach ==
  ASSUME KeysInv, NEW k \in Pressed, NEW idle \in BOOLEAN, PressKey(k, idle)
  PROVE  KeysInv'
<1> USE DEF KeysInv, KeysReach
<1>1. up /\ file' = file /\ Loads(file)
  BY DEF PressKey, Tally, Accepted
<1>2. Accepted'
  <2>1. Loads(file)'
    BY <1>1 DEF Loads, DetectConflicts, Apply, Owners
  <2> QED  BY <2>1 DEF Accepted
<1> DEFINE b == Taker(k, idle)
           own == IF Typing /\ Printable(k) THEN "text"
                  ELSE IF focus = "thread" /\ k = Key({}, "space") THEN "mark" ELSE "pane"
<1>3. b = "pane" \/ b \in Contenders(k, idle)
  BY TakerContends
<1>4. "pane" \notin Contenders(k, idle)
  BY ContendersAre DEF BindingFields, Default
<1> HIDE DEF b
<1>5. CASE b = "pane"
  <2>1. Delegate(k) /\ Note(k, own, idle)
    BY <1>5 DEF PressKey, b
  <2>2. did' \in Took /\ OneAnswer' /\ NothingTypedIsStolen'
    BY <2>1, <1>1, NotedWell
  <2>3. TypeOK'
    BY <2>1, <2>2, <1>1 DEF Delegate, TypeOK, Overlays
  <2>4. OverlaysAreTheirs'
    BY <2>1 DEF Delegate, PressKey, OverlaysAreTheirs
  <2> QED  BY <2>2, <2>3, <2>4, <1>2
<1>6. CASE b # "pane"
  <2>1. Perform(b) /\ Note(k, b, idle)
    BY <1>6 DEF PressKey, b
  <2>2. b \in Contenders(k, idle) /\ b \in BindingFields \cup {"quick_chat"}
    BY <1>3, <1>6, ContendersAre
  <2>3. did' \in Took /\ OneAnswer' /\ NothingTypedIsStolen'
    BY <2>1, <2>2, <1>1, NotedWell
  <2>4. overlay = "none" /\ Live(b)
    BY <2>2, ContendersAre DEF PressKey
  <2>5. TypeOK' /\ OverlaysAreTheirs'
    BY <2>1, <2>3, <2>4, <1>1, PerformKeeps DEF TypeOK
  <2> QED  BY <2>3, <2>5, <1>2
<1> QED
  BY <1>5, <1>6

LEMMA PressesUnderReach ==
  ASSUME KeysInv, NEW k \in Pressed, PressUnder(k)
  PROVE  KeysInv'
<1> USE DEF KeysInv, KeysReach
<1>1. /\ did'.contenders = {} /\ did'.by = "overlay" /\ file' = file /\ up
      /\ overlay # "none" /\ up' = up /\ filtering' = filtering
      /\ opened' = IF overlay' = "none" THEN "none" ELSE opened
  BY DEF PressUnder, Tally
<1>2. Accepted'
  BY <1>1 DEF Accepted, Loads, DetectConflicts, Apply, Owners
<1>3. OneAnswer'
  BY <1>1, FS_EmptySet DEF OneAnswer
<1>4. NothingTypedIsStolen'
  BY <1>1 DEF NothingTypedIsStolen
<1>5. did' \in Took
  BY DEF PressUnder, TypeOK, Took, Typing
<1>6. CASE Choose(k)
  <2>1. overlay' = "none" /\ pending' \subseteq pending /\ asked' \in Nat
    BY <1>6 DEF Choose, ChatPicked, EmojiPicked, GoTo, place, TypeOK
  <2>2. focus' \in {"chats", "input", "thread"} /\ {chatOpen, code}' \subseteq BOOLEAN
    BY <1>6 DEF Choose, ChatPicked, EmojiPicked, GoTo, place, TypeOK
  <2>3. "react" \notin pending'
    <3>1. CASE opened = "react_message"
      <4>1. overlay = "emoji"
        BY <1>1, <3>1, OpensAre DEF OverlaysAreTheirs
      <4> QED  BY <1>6, <4>1 DEF Choose, EmojiPicked
    <3>2. CASE opened # "react_message"
      BY <3>2, <2>1 DEF OverlaysAreTheirs
    <3> QED  BY <3>1, <3>2
  <2> QED  BY <1>1, <1>2, <1>3, <1>4, <1>5, <2>1, <2>2, <2>3 DEF TypeOK, OverlaysAreTheirs, Overlays
<1>7. CASE Dismiss(k)
  <2>1. overlay' = "none" /\ pending' \subseteq pending /\ asked' = asked /\ place' = place
    BY <1>7 DEF Dismiss
  <2>2. "react" \notin pending'
    <3>1. CASE opened = "react_message"
      <4>1. overlay = "emoji"
        BY <1>1, <3>1, OpensAre DEF OverlaysAreTheirs
      <4> QED  BY <1>7, <4>1 DEF Dismiss
    <3>2. CASE opened # "react_message"
      BY <3>2, <2>1 DEF OverlaysAreTheirs
    <3> QED  BY <3>1, <3>2
  <2> QED  BY <1>1, <1>2, <1>3, <1>4, <1>5, <2>1, <2>2 DEF TypeOK, OverlaysAreTheirs, Overlays, place
<1>8. CASE UNCHANGED <<place, overlay, pending, asked>>
  BY <1>1, <1>2, <1>3, <1>4, <1>5, <1>8 DEF TypeOK, OverlaysAreTheirs, place
<1> QED
  BY <1>6, <1>7, <1>8 DEF PressUnder

LEMMA ResolvesReach ==
  ASSUME KeysInv, Resolve
  PROVE  KeysInv'
<1> USE DEF KeysInv, KeysReach
<1>1. UNCHANGED <<file, up, filtering, did>> /\ asked' \in Nat
  BY DEF Resolve, TypeOK
<1>2. Accepted' /\ OneAnswer' /\ NothingTypedIsStolen'
  BY <1>1 DEF Accepted, OneAnswer, NothingTypedIsStolen, Loads, DetectConflicts, Apply, Owners,
     keymap, Loaded
<1>3. CASE UNCHANGED <<place, overlay, opened, pending>>
  BY <1>1, <1>2, <1>3 DEF TypeOK, OverlaysAreTheirs, place
<1>4. CASE /\ ChatPicked
           /\ overlay' = IF overlay = "palette" THEN "none" ELSE overlay
           /\ opened' = IF overlay = "palette" THEN "none" ELSE opened
  <2>1. /\ pending' \subseteq pending /\ ("react" \in pending' <=> "react" \in pending)
        /\ focus' \in {"chats", "input", "thread"} /\ {chatOpen, code}' \subseteq BOOLEAN
    BY <1>4 DEF ChatPicked, GoTo, place, TypeOK
  <2>2. overlay = "palette" => opened # "react_message"
    BY OpensAre DEF OverlaysAreTheirs
  <2>3. overlay # "palette" /\ overlay # "none" => opened # "forward_message"
    BY OpensAre DEF OverlaysAreTheirs
  <2>4. OverlaysAreTheirs'
    BY <1>1, <1>4, <2>1, <2>2, <2>3 DEF OverlaysAreTheirs
  <2> QED  BY <1>1, <1>2, <1>4, <2>1, <2>4 DEF TypeOK, Overlays
<1> QED
  BY <1>3, <1>4 DEF Resolve

LEMMA PressesKeepToThePurpose ==
  ASSUME KeysInv, NEW k \in Pressed, PressUnder(k)
  PROVE  ModalTakesAll
<1> USE DEF KeysInv, KeysReach
<1>1. /\ did'.key = k /\ overlay # "none" /\ UNCHANGED <<up, filtering>>
  BY DEF PressUnder
<1>2. CASE Choose(k)
  <2>1. overlay' = "none" /\ k.base = "enter"
    BY <1>2 DEF Choose
  <2>2. (focus' # focus \/ chatOpen' # chatOpen) => opened \in {"open_palette", "emoji_picker", "search"}
    <3>1. CASE overlay = "palette"
      <4>1. opened \in {"open_palette", "forward_message"}
        BY <1>1, <3>1 DEF OverlaysAreTheirs, Opens
      <4>2. CASE opened = "forward_message"
        <5>1. "forward" \in pending
          BY <1>1, <4>2 DEF OverlaysAreTheirs
        <5> QED  BY <1>2, <3>1, <5>1 DEF Choose, ChatPicked, place
      <4> QED  BY <4>1, <4>2
    <3>2. CASE overlay = "emoji"
      <4>1. opened \in {"emoji_picker", "react_message"}
        BY <1>1, <3>2 DEF OverlaysAreTheirs, Opens
      <4>2. CASE opened = "react_message"
        <5>1. "react" \in pending
          BY <1>1, <4>2 DEF OverlaysAreTheirs
        <5> QED  BY <1>2, <3>2, <5>1 DEF Choose, EmojiPicked, place
      <4> QED  BY <4>1, <4>2
    <3>3. CASE overlay = "search"
      BY <1>1, <3>3 DEF OverlaysAreTheirs, Opens
    <3>4. CASE overlay = "attach"
      BY <1>2, <3>4 DEF Choose, place
    <3> QED  BY <1>2, <3>1, <3>2, <3>3, <3>4 DEF Choose
  <2>3. opened = "emoji_picker" => focus' = "input" /\ chatOpen' = chatOpen
    BY <1>1, <1>2, OpensAre DEF OverlaysAreTheirs, Choose, EmojiPicked
  <2>4. opened = "search" => focus' = focus /\ chatOpen'
    BY <1>1, <1>2, OpensAre DEF OverlaysAreTheirs, Choose, GoTo
  <2> QED  BY <1>1, <2>1, <2>2, <2>3, <2>4 DEF ModalTakesAll
<1>3. CASE ~Choose(k)
  <2>1. place' = place /\ overlay' \in {overlay, "none"}
    BY <1>3 DEF PressUnder, Dismiss
  <2>2. k.base = "enter" => overlay' = overlay \/ overlay = "confirm"
    BY <1>3 DEF PressUnder, Dismiss, Dismisses, Key
  <2>3. overlay = "confirm" => opened = "delete_msg"
    BY <1>1 DEF OverlaysAreTheirs, Opens
  <2> QED  BY <1>1, <2>1, <2>2, <2>3 DEF ModalTakesAll, place
<1> QED
  BY <1>2, <1>3

LEMMA KeysInvStarts == Init => KeysInv
<1> SUFFICES ASSUME Init PROVE KeysInv
  OBVIOUS
<1>1. TypeOK /\ OverlaysAreTheirs
  BY DEF Init, TypeOK, OverlaysAreTheirs, Overlays, Loads
<1>2. did = <<>> /\ (up => Loads(file))
  BY DEF Init
<1> QED
  BY <1>1, <1>2 DEF KeysInv, KeysReach, OneAnswer, NothingTypedIsStolen, Accepted

LEMMA KeysInvKept == KeysInv /\ [Next]_vars => KeysInv'
<1> SUFFICES ASSUME KeysInv, [Next]_vars PROVE KeysInv'
  OBVIOUS
<1>1. CASE UNCHANGED vars
  BY <1>1 DEF vars, KeysInv, KeysReach, TypeOK, OneAnswer, NothingTypedIsStolen, Accepted,
     Loads, DetectConflicts, Apply, Owners, keymap, Loaded, OverlaysAreTheirs, place
<1> QED
  BY <1>1, PressesReach, PressesUnderReach, ResolvesReach DEF Next

(* Whatever files there are and whatever is pressed: with a keymap that    *)
(* was accepted no key has two actions that could answer it where it is    *)
(* pressed, but for the pair the order of handlers resolves, and a         *)
(* character typed into a field is text.                                   *)
THEOREM KeysReachTheirTaker == Spec => []KeysReach
<1>1. Init => KeysInv
  BY KeysInvStarts
<1>2. KeysInv /\ [Next]_vars => KeysInv'
  BY KeysInvKept
<1>3. KeysInv => KeysReach
  BY DEF KeysInv
<1> QED
  BY <1>1, <1>2, <1>3, PTL DEF Spec

(* No key pressed under an overlay reaches a pane: it quits nothing, types *)
(* into no filter, and what its pick moves is what the overlay was put up  *)
(* for, a forward and a reaction moving nothing.                           *)
THEOREM OverlaysTakeTheirKeys == Spec => [][ModalTakesAll]_vars
<1>1. Init => KeysInv
  BY KeysInvStarts
<1>2. KeysInv /\ [Next]_vars => KeysInv'
  BY KeysInvKept
<1>3. KeysInv /\ [Next]_vars => [ModalTakesAll]_vars
  <2> SUFFICES ASSUME KeysInv, Next PROVE ModalTakesAll
    BY DEF vars, ModalTakesAll
  <2>1. ASSUME NEW k \in Pressed, PressUnder(k) PROVE ModalTakesAll
    BY <2>1, PressesKeepToThePurpose
  <2>2. ASSUME NEW k \in Pressed, NEW idle \in BOOLEAN, PressKey(k, idle) PROVE ModalTakesAll
    BY <2>2 DEF PressKey, ModalTakesAll
  <2>3. CASE Resolve
    BY <2>3 DEF Resolve, ModalTakesAll
  <2> QED
    BY <2>1, <2>2, <2>3 DEF Next
<1> QED
  BY <1>1, <1>2, <1>3, PTL DEF Spec
=============================================================================
