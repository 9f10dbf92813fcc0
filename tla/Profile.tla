------------------------------ MODULE Profile ------------------------------
(***************************************************************************)
(* The profile menu: six entries that are answered in a chain of prompts,  *)
(* confirmed by the PIN and stored.                                        *)
(*                                                                         *)
(* An answer to an entry that the user never set goes to a buffer and is   *)
(* stored with all the others once the PIN is right; an answer to an entry *)
(* he has set goes to DATA_TEMPORARY_VALUE and is copied from there.  The  *)
(* buffer belongs to the handlers and hence to all the sessions of a       *)
(* process.  A step is one USSD request; handlers and scripts are          *)
(* operators on w = [me |-> the user's row, buffer |-> the buffer].        *)
(***************************************************************************)
EXTENDS Integers, Sequences, SequencesExt

CONSTANTS
  User,         \* sessions served by one process
  Text,         \* what a user may answer to a prompt
  Starts,       \* Starts[u]: the prompts that u chooses on the profile menu
  MaxAnswers,   \* bound: answers to the prompts, by all the users
  MaxTries      \* bound: entries of a wrong PIN, by all the users

ASSUME BoundsAssumption == MaxAnswers \in Nat /\ MaxTries \in Nat

\* The entries, in the order of the prompts and of the buffer.
Order == <<"first_name", "family_name", "gender", "yob", "location", "offerings">>
Field == ToSet(Order)
Index(f) == CHOOSE i \in DOMAIN Order : Order[i] = f

ASSUME TextAssumption == Text # {}

ASSUME StartsAssumption == Starts \in [User -> SUBSET Field]

\* profileFlagNames of insertProfileItems: not in the order of the data keys.
FlagOrder == <<"first_name", "family_name", "yob", "gender", "location", "offerings">>

\* An input: who typed it, the prompt it answers ("menu": a choice), its text.
None == [by |-> "nobody", for |-> "menu", text |-> "0"]
Answer == [by : User, for : Field \cup {"menu"}, text : Text] \cup {None}
Typed(u, f, t) == [by |-> u, for |-> f, text |-> t]
Choice(u) == Typed(u, "menu", CHOOSE t \in Text : TRUE)

\* A frame of the menu stack: a node, and for set_male, set_female and
\* set_unspecified (one node here, set_gender) the choice that led to it.  The
\* prompt of a field has the name of the field.
Node == Field \cup {"edit_profile", "view_profile", "set_gender", "pin_entry",
                    "incorrect_pin", "incorrect_date_format",
                    "update_profile_items", "profile_update_success"}
Frame == [node : Node, input : Answer]

VARIABLES
  row,      \* row[u]: the entries, flags and menu stack of u
  buffer,   \* h.profile.ProfileItems
  answers,  \* answers so far
  tries     \* entries of a wrong PIN so far

vars == <<row, buffer, answers, tries>>

\* An empty path is a session that is over, or in front of the profile menu.
\* loaded: the fields whose save handler is cached in a frame of the path.
\* last: what the user answered last in this visit.
\* failed: the handler error that ended the session.
Row == [stored : [Field -> Answer], temp : Answer, set : SUBSET Field,
        allow : BOOLEAN, wrong : BOOLEAN, path : Seq(Frame),
        loaded : SUBSET {"location", "offerings"}, last : Answer,
        failed : {"no", "data", "node", "year"}]

TypeOK ==
  /\ row \in [User -> Row]
  /\ buffer \in Seq(Answer) /\ Len(buffer) <= Len(Order)
  /\ answers \in 0 .. MaxAnswers /\ tries \in 0 .. MaxTries

Init ==
  /\ row = [u \in User |->
             [stored |-> [f \in Field |-> None], temp |-> None, set |-> {},
              allow |-> FALSE, wrong |-> FALSE, path |-> <<>>, loaded |-> {},
              last |-> None, failed |-> "no"]]
  /\ buffer = <<>> /\ answers = 0 /\ tries = 0

-----------------------------------------------------------------------------
(* The menu stack *)

Top(s) == Last(s.path)
At(s, n) == s.path # <<>> /\ Top(s).node = n

Push(w, n, in) == [w EXCEPT !.me.path = Append(@, [node |-> n, input |-> in])]

\* Leaving a frame drops what was cached in it.
Pop(w) ==
  LET rest == Front(w.me.path)
  IN  [w EXCEPT !.me.path = rest,
                !.me.loaded = {f \in @ : \E i \in DOMAIN rest : rest[i].node = f}]

\* A handler error, or a node without code, ends the session.
Fail(w, why) == [w EXCEPT !.me.path = <<>>, !.me.loaded = {}, !.me.failed = why]
Failed(w) == w.me.failed # "no"

-----------------------------------------------------------------------------
(* Handlers *)

\* Faulty variants (here and below) only serve to see the properties fail.
InsertOrShiftInserts(b, i, v) ==
  IF i <= Len(b) THEN Append(SubSeq(b, 1, i - 1), v) \o SubSeq(b, i, Len(b))
  ELSE Append(b \o [j \in 1 .. (i - 1 - Len(b)) |-> None], v)

\* Profile.InsertOrShift: an insertion in the middle cuts off the rest.
InsertOrShift(b, i, v) ==
  IF i <= Len(b) THEN Append(SubSeq(b, 1, i - 1), v)
  ELSE Append(b \o [j \in 1 .. (i - 1 - Len(b)) |-> None], v)

\* SaveFirstname .. SaveOfferings: with flag_allow_update the temporary value is
\* stored, otherwise the input goes to the temporary value or to the buffer.
Save(w, f, in) ==
  IF w.me.allow
  THEN IF w.me.temp = None THEN Fail(w, "data")
       ELSE [w EXCEPT !.me.stored[f] = w.me.temp, !.me.set = @ \cup {f}]
  ELSE IF f \in w.me.set THEN [w EXCEPT !.me.temp = in]
  ELSE [w EXCEPT !.buffer = InsertOrShift(@, Index(f), in)]

\* GetCurrentProfileInfo: the flag of an entry that is in the store.
GetCurrentProfileInfo(w, f) ==
  IF w.me.stored[f] = None THEN w ELSE [w EXCEPT !.me.set = @ \cup {f}]

UpdateAllRegardless(w) ==
  LET fresh == {i \in DOMAIN w.buffer : w.buffer[i] # None}
  IN  [w EXCEPT
        !.me.stored = [f \in Field |->
           IF Index(f) \in fresh THEN w.buffer[Index(f)] ELSE @[f]],
        !.me.set = @ \cup {FlagOrder[i] : i \in fresh}]

UpdateAllFlagsPadding(w) ==
  LET fresh == {i \in DOMAIN w.buffer : FlagOrder[i] \notin w.me.set}
  IN  [w EXCEPT
        !.me.stored = [f \in Field |->
           IF Index(f) \in fresh THEN w.buffer[Index(f)] ELSE @[f]],
        !.me.set = @ \cup {FlagOrder[i] : i \in fresh}]

\* insertProfileItems: the entries of the buffer whose flag is not set, the
\* flags being those of before.
UpdateAllProfileItems(w) ==
  LET fresh == {i \in DOMAIN w.buffer :
                  w.buffer[i] # None /\ FlagOrder[i] \notin w.me.set}
  IN  [w EXCEPT
        !.me.stored = [f \in Field |->
           IF Index(f) \in fresh THEN w.buffer[Index(f)] ELSE @[f]],
        !.me.set = @ \cup {FlagOrder[i] : i \in fresh}]

-----------------------------------------------------------------------------
(* Scripts: what a node runs up to its HALT, once its frame is pushed *)

Success(w) == UpdateAllProfileItems(Push(w, "profile_update_success", None))

\* incorrect_pin.vis; ResetIncorrectPin resets the flag.  That it may lock the
\* account is the subject of PinMenu.
IncorrectPin(w) == [Push(w, "incorrect_pin", None) EXCEPT !.me.wrong = FALSE]

PinEntry(w) == Push(w, "pin_entry", None)

\* update_firstname.vis .. update_offerings.vis
Update(w, f) == LET v == Save(w, f, None) IN IF Failed(v) THEN v ELSE Success(v)

\* edit_<field>.vis and select_gender.vis.  The prompts for the location and the
\* offerings load their save handler before the HALT, on the input that led there.
Prompt(w, f, in) ==
  IF w.me.wrong THEN IncorrectPin(w)
  ELSE IF w.me.allow THEN IF f = "gender" THEN Success(w) ELSE Update(w, f)
  ELSE LET v == GetCurrentProfileInfo(w, f)
       IN  IF f \in {"location", "offerings"} \ v.me.loaded
           THEN [Save(v, f, in) EXCEPT !.me.loaded = @ \cup {f}]
           ELSE v

Open(w, f, in) == Prompt(Push(w, f, None), f, in)

\* The chain of CATCHes behind an answer: the PIN if the field was set, else the
\* first later field that is not, else the PIN.  edit_first_name.vis names the
\* prompt of the gender edit_gender, of which there is no script.
Continue(w, f, in) ==
  LET later == {i \in Index(f) + 1 .. Len(Order) : Order[i] \notin w.me.set}
      next  == Order[CHOOSE i \in later : \A j \in later : i <= j]
  IN  IF f \in w.me.set \/ later = {} THEN PinEntry(w)
      ELSE IF f = "first_name" /\ next = "gender" THEN Fail(w, "node")
      ELSE Open(w, next, in)

UpdateProfileItemsUnasked(w) == IF w.me.wrong THEN IncorrectPin(w) ELSE Success(w)

\* update_profile_items.vis
UpdateProfileItems(w) ==
  IF w.me.wrong THEN IncorrectPin(w)
  ELSE IF w.me.allow THEN Success(w)
  ELSE PinEntry(w)

\* set_male.vis, set_female.vis, set_unspecified.vis: save_gender takes the
\* value from the name of the node.
SetGender(w) ==
  LET v == Save(w, "gender", Top(w.me).input)
  IN  IF Failed(v) THEN v
      ELSE IF v.me.wrong THEN IncorrectPin(v)
      ELSE IF v.me.allow THEN Update(v, "gender")
      ELSE Continue(v, "gender", Top(w.me).input)

\* edit_profile.vis resets flag_allow_update.  A new visit has no last answer.
EditProfile(w) == [w EXCEPT !.me.allow = FALSE, !.me.last = None]

\* view_profile.vis; flag_account_authorized is set and reset here together with
\* flag_allow_update.
ViewProfile(w) ==
  IF w.me.wrong THEN IncorrectPin(w)
  ELSE IF w.me.allow THEN w
  ELSE PinEntry(w)

\* The target "_": the parent's script runs again.
Resume(w, in) ==
  LET v == Pop(w)
      n == Top(v.me).node
  IN  CASE n \in Field -> Prompt(v, n, in)
        [] n = "set_gender" -> SetGender(v)
        [] n = "update_profile_items" -> UpdateProfileItems(v)
        [] n = "view_profile" -> ViewProfile(v)
        [] OTHER -> EditProfile(v)

-----------------------------------------------------------------------------
(* Requests *)

World(u) == [me |-> row[u], buffer |-> buffer]
Change(u, w) ==
  /\ row' = [row EXCEPT ![u] = w.me]
  /\ buffer' = w.buffer

Become(u, w) == Change(u, w) /\ UNCHANGED <<answers, tries>>

\* A dial, or "^": the main menu empties the temporary value, my_account.vis and
\* edit_profile.vis reset flag_allow_update.
OpenProfile(u) ==
  Become(u, EditProfile(Push([World(u) EXCEPT !.me.temp = None, !.me.path = <<>>,
                                  !.me.loaded = {}, !.me.failed = "no"],
                 "edit_profile", None)))

ChooseField(u, f) ==
  /\ At(row[u], "edit_profile") /\ f \in Starts[u]
  /\ Become(u, Open(World(u), f, Choice(u)))

\* The profile is composed before the PIN is asked for, which fails on a year of
\* birth that is no number; reset_incorrect_pin runs on the first visit only.
ChooseView(u) ==
  /\ At(row[u], "edit_profile")
  /\ IF row[u].stored["yob"].for \notin {"yob", "menu"}
     THEN Become(u, Fail(World(u), "year"))
     ELSE Become(u, ViewProfile([Push(World(u), "view_profile", None)
                                   EXCEPT !.me.wrong = FALSE]))

\* An answer is counted against the bound and remembered as the last one.
Answered(u, w) ==
  /\ answers < MaxAnswers
  /\ answers' = answers + 1 /\ tries' = tries
  /\ Change(u, w)

Answering(u, v) == [World(u) EXCEPT !.me.last = v]

AnswerText(u, f, t) ==
  /\ At(row[u], f) /\ f \in Field \ {"gender"}
  /\ LET v == Typed(u, f, t)
         w == Save(Answering(u, v), f, v)
     IN  Answered(u,
           IF f = "offerings" /\ f \notin w.me.set
           THEN UpdateProfileItems(Push(w, "update_profile_items", None))
           ELSE Continue(w, f, v))

AnswerGender(u, t) ==
  /\ At(row[u], "gender")
  /\ LET v == Typed(u, "gender", t)
     IN  Answered(u, SetGender(Push(Answering(u, v), "set_gender", v)))

\* VerifyYob refuses the input before anything is saved.
AnswerBadYear(u) ==
  /\ At(row[u], "yob")
  /\ Become(u, Push(World(u), "incorrect_date_format", None))

Back(u) ==
  /\ \E n \in Field \cup {"view_profile", "incorrect_pin", "incorrect_date_format"} :
       At(row[u], n)
  /\ Become(u, Resume(World(u), Choice(u)))

RightPin(u) ==
  /\ At(row[u], "pin_entry")
  /\ Become(u, Resume([World(u) EXCEPT !.me.allow = TRUE, !.me.wrong = FALSE],
                      Choice(u)))

WrongPin(u) ==
  /\ At(row[u], "pin_entry") /\ tries < MaxTries
  /\ tries' = tries + 1 /\ answers' = answers
  /\ Change(u, Resume([World(u) EXCEPT !.me.allow = FALSE, !.me.wrong = TRUE],
                      Choice(u)))

\* An input without the format of a PIN only resets flag_allow_update.
NoPin(u) ==
  /\ At(row[u], "pin_entry")
  /\ Become(u, Resume([World(u) EXCEPT !.me.allow = FALSE], Choice(u)))

\* edit_profile.vis is pushed on the frames below, which no "_" reaches again;
\* only what is cached in them still counts: one frame stands for all of a field.
FrameOf(s, f) == IF f \in s.loaded THEN <<[node |-> f, input |-> None]>> ELSE <<>>
Cached(s) == FrameOf(s, "location") \o FrameOf(s, "offerings")

BackToProfile(u) ==
  /\ At(row[u], "profile_update_success")
  /\ Become(u, EditProfile(Push([World(u) EXCEPT !.me.path = Cached(row[u])],
                               "edit_profile", None)))

Next ==
  \E u \in User :
    \/ OpenProfile(u)
    \/ \E f \in Field : ChooseField(u, f)
    \/ ChooseView(u)
    \/ \E f \in Field, t \in Text : AnswerText(u, f, t)
    \/ \E t \in Text : AnswerGender(u, t)
    \/ AnswerBadYear(u)
    \/ Back(u)
    \/ RightPin(u)
    \/ WrongPin(u)
    \/ NoPin(u)
    \/ BackToProfile(u)

Spec == Init /\ [][Next]_vars

-----------------------------------------------------------------------------
(* Properties *)

\* No prompt, handler that runs early, or page that stores the whole buffer
\* changes a profile but in the request that entered the right PIN for it.
StoredOnlyByPin ==
  [][\A u \in User : row'[u].stored # row[u].stored
       => At(row[u], "pin_entry") /\ row'[u].allow]_vars

\* An entry whose flag is kept for it, once stored, is only replaced by the
\* answer that its owner gave last, at the prompt for that entry: nothing left
\* in the buffer or the temporary value by other prompts or users reaches it.
ReplacedByLastAnswer ==
  [][\A u \in User, f \in Field \ {"gender", "yob"} :
       row[u].stored[f] # None /\ row'[u].stored[f] # row[u].stored[f]
         => row'[u].stored[f] = row[u].last /\ row[u].last.for = f]_vars

\* insertProfileItems: the flags of these entries never claim a value that the
\* store lacks, however the buffer was cut and refilled in between, so their
\* prompts take the path that keeps the answer.
FlaggedIsStored ==
  \A u \in User : \A f \in row[u].set \ {"gender", "yob"} : row[u].stored[f] # None

\* handlers/application/profile.go, UpdateAllProfileItems: what is stored is new
\* profile information, that is an answer of the user.
OwnAnswers ==
  \A u \in User, f \in Field : row[u].stored[f] # None => row[u].stored[f].by = u
=============================================================================
