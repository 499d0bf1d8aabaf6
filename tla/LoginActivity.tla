--------------------------- MODULE LoginActivity ---------------------------
(***************************************************************************)
(* activitites/LoginActivity.java: the phone verification.  One text field *)
(* and one button serve for the number, for the code that was sent and for *)
(* sending it again; the field state says which.                           *)
(*                                                                         *)
(* Firebase Auth is external.  A call of verifyPhoneNumber is answered on   *)
(* the main thread while the activity is started: the callbacks are bound  *)
(* to the activity and detached when it stops.  A sign-in is answered to    *)
(* the object that asked, whatever became of it.                           *)
(***************************************************************************)
EXTENDS Naturals, FiniteSets, TLAPS

CONSTANTS
    Numbers,     \* phone numbers the user may type
    Codes,       \* verification codes
    CodeOf,      \* the code Firebase sends to a number
    NoText,      \* the empty text field
    Null,
    Faults,      \* what goes wrong, a subset of AllFaults
    MaxPending   \* bound: requests and sign-ins under way

\* The user types something else, or leaves the app and comes back; the screen
\* is rotated or the process killed while stopped; a number is refused; the
\* code comes too late to be retrieved; a sign-in fails with a right code.
AllFaults == {"typo", "stop", "rotate", "kill", "refused", "timeout", "sign in"}

Texts == Numbers \cup Codes \cup {NoText}

ASSUME LoginAssumption ==
    /\ Numbers \cap Codes = {}
    /\ NoText \notin Numbers \cup Codes
    /\ Null \notin Texts
    /\ CodeOf \in [Numbers -> Codes]
    /\ Faults \subseteq AllFaults
    /\ MaxPending \in Nat

VARIABLES
    life,        \* "running", "finished", or what crashed
    started,     \* between onStart and onStop
    state,       \* "start" (0), STATE_CODE_SENT or STAT_TIME_OUT
    mVerificationInProgress,
    session,     \* mVerificationId and mResendToken, set together: the number
                 \* the code was sent to
    phoneNumber, \* the field, Null in a new object
    phone,       \* the text in the EditText
    button,      \* loginButton is visible (progressBar is not)
    requests,    \* verifyPhoneNumber calls with callbacks attached
    signIns,     \* signInWithCredential tasks not complete
    saved,       \* "phone" in the preferences, set with is_logged_in
    verified,    \* history: the number of the credential that was accepted
    gaveUp       \* history: since the button was hidden, its answer was dropped by
                 \* a sign-in that failed, or by leaving a resend

screen == <<state, session, phone>>
loginVars == <<life, started, mVerificationInProgress, phoneNumber, button,
               requests, signIns, saved, verified, gaveUp, screen>>

\* of is the number a resend was asked for, Null for a first request.
Requests == [number : Texts \ {NoText}, of : Numbers \cup {Null}, sent : BOOLEAN]

\* phone is the phoneNumber of an object that is gone; Null: of the current one.
SignIns == [number : Numbers, right : BOOLEAN, phone : Texts \cup {Null}]

Crashes == {"start: number", "click: text"}

\* Every field holds what its Java type and the callbacks allow; no request
\* is for an empty string.
LoginTypeOK ==
    /\ life \in {"running", "finished"} \cup Crashes
    /\ started \in BOOLEAN
    /\ state \in {"start", "code sent", "time out"}
    /\ mVerificationInProgress \in BOOLEAN
    /\ session \in Numbers \cup {Null}
    /\ phoneNumber \in Texts \cup {Null}
    /\ phone \in Texts
    /\ button \in BOOLEAN
    /\ requests \subseteq Requests
    /\ signIns \subseteq SignIns
    /\ saved \in Texts \cup {Null}
    /\ verified \in Numbers \cup {Null}
    /\ gaveUp \in BOOLEAN

LoginInit ==
    /\ life = "running"
    /\ started = TRUE
    /\ state = "start"
    /\ mVerificationInProgress = FALSE
    /\ session = Null
    /\ phoneNumber = Null
    /\ phone = NoText
    /\ button = TRUE
    /\ requests = {}
    /\ signIns = {}
    /\ saved = Null
    /\ verified = Null
    /\ gaveUp = FALSE

OnScreen == life = "running" /\ started

\* Room for one more call within the bound.
Room == Cardinality(requests) + Cardinality(signIns) < MaxPending

-----------------------------------------------------------------------------
(* What the handlers call.                                                 *)

\* Mutant: the pattern also matches the empty string.
MatchesEmpty(text) == text \in Texts

\* Patterns.PHONE accepts any number of digits greater than one: a code too.
isPhoneNumberValid(text) == text # NoText

\* Firebase's calls throw an IllegalArgumentException for an empty string.
Throws(text) == text = NoText

\* A request that neither sent a code nor failed, a sign-in of this object.
Unanswered == \E r \in requests : ~r.sent
SigningIn == \E s \in signIns : s.phone = Null

Request(text, of) == [number |-> text, of |-> of, sent |-> FALSE]

\* Mutant: the flag that onStart reads is not set.
SendForgets(text) ==
    /\ button' = FALSE
    /\ requests' = requests \cup {Request(text, Null)}
    /\ UNCHANGED mVerificationInProgress

sendOtp(text) ==
    /\ button' = FALSE
    /\ requests' = requests \cup {Request(text, Null)}
    /\ mVerificationInProgress' = TRUE

\* mVerificationInProgress is not set here.
resendOtp(text) ==
    /\ button' = FALSE
    /\ requests' = requests \cup {Request(text, session)}
    /\ UNCHANGED mVerificationInProgress

signInWithCredentials(number, right) ==
    /\ button' = FALSE
    /\ signIns' = signIns \cup {[number |-> number, right |-> right, phone |-> Null]}

\* getCredential makes a credential of any code; Firebase checks it.
verifyOtp(code) == signInWithCredentials(session, code = CodeOf[session])

\* The process dies with an exception; what it had in memory is of no account.
Crash(cause) ==
    /\ life' = cause
    /\ started' = FALSE
    /\ requests' = {}
    /\ signIns' = {}

-----------------------------------------------------------------------------
(* The user.                                                               *)

\* What a careful user types: the number, or the code that was sent to it.
Expected == IF state = "start" THEN Numbers
            ELSE {IF state = "code sent" THEN CodeOf[session] ELSE session}

Type ==
    /\ OnScreen
    /\ phone' \in Expected \cup IF "typo" \in Faults THEN Texts ELSE {}
    /\ phone' # phone
    /\ UNCHANGED <<life, started, state, mVerificationInProgress, session, phoneNumber,
                   button, requests, signIns, saved, verified, gaveUp>>

\* Mutant: the text is kept in a local variable that hides the field.
LocalNumber == UNCHANGED phoneNumber

\* phoneNumber = phone.getText().toString()
TakeText == phoneNumber' = phone

onClick ==
    /\ OnScreen
    /\ button
    /\ TakeText
    /\ \/ /\ state # "start"
          /\ Throws(phone)
          /\ Crash("click: text")
          /\ UNCHANGED <<mVerificationInProgress, button>>
       \/ /\ state = "code sent"
          /\ ~Throws(phone)
          /\ Room
          /\ verifyOtp(phone)
          /\ UNCHANGED <<life, started, requests, mVerificationInProgress>>
       \/ /\ state = "time out"
          /\ ~Throws(phone)
          /\ Room
          /\ resendOtp(phone)
          /\ UNCHANGED <<life, started, signIns>>
       \/ /\ state = "start"
          /\ isPhoneNumberValid(phone)
          /\ Room
          /\ sendOtp(phone)
          /\ UNCHANGED <<life, started, signIns>>
       \/ /\ state = "start"
          /\ ~isPhoneNumberValid(phone)
          /\ UNCHANGED <<life, started, requests, signIns, mVerificationInProgress, button>>
    /\ UNCHANGED <<screen, saved, verified, gaveUp>>

-----------------------------------------------------------------------------
(* mCallbacks, for a request r.  A code can only be sent to a number.      *)

onVerificationCompleted(r) ==
    /\ r.number \in Numbers
    /\ requests' = requests \ {r}
    /\ mVerificationInProgress' = FALSE
    /\ signInWithCredentials(r.number, TRUE)
    /\ UNCHANGED <<life, started, screen, phoneNumber, saved, verified, gaveUp>>

\* Mutant: the button stays hidden.
KeepHidden == UNCHANGED <<button, gaveUp>>

\* loginButton.setVisibility(View.VISIBLE)
ShowButton == button' = TRUE /\ gaveUp' = FALSE

onVerificationFailed(r) ==
    /\ ~r.sent
    /\ r.number \notin Numbers \/ "refused" \in Faults
    /\ requests' = requests \ {r}
    /\ mVerificationInProgress' = FALSE
    /\ ShowButton
    /\ UNCHANGED <<life, started, screen, phoneNumber, signIns, saved, verified>>

onCodeSent(r) ==
    /\ ~r.sent
    /\ r.number \in Numbers
    /\ requests' = (requests \ {r}) \cup {[r EXCEPT !.sent = TRUE]}
    /\ session' = r.number
    /\ ShowButton
    /\ state' = "code sent"
    /\ phone' = NoText
    /\ UNCHANGED <<life, started, mVerificationInProgress, phoneNumber, signIns,
                   saved, verified>>

onCodeAutoRetrievalTimeOut(r) ==
    /\ "timeout" \in Faults
    /\ r.sent
    /\ requests' = requests \ {r}
    /\ state' = "time out"
    /\ UNCHANGED <<life, started, session, phone, mVerificationInProgress, phoneNumber,
                   button, signIns, saved, verified, gaveUp>>

Callback ==
    /\ OnScreen
    /\ \E r \in requests :
          \/ onVerificationCompleted(r)
          \/ onVerificationFailed(r)
          \/ onCodeSent(r)
          \/ onCodeAutoRetrievalTimeOut(r)

-----------------------------------------------------------------------------
(* The listeners of a sign-in s.  An object that is gone saves its own     *)
(* phoneNumber; its finish() does nothing more.                            *)

onComplete(s) ==
    /\ s.right
    /\ signIns' = signIns \ {s}
    /\ saved' = IF s.phone = Null THEN phoneNumber ELSE s.phone
    /\ verified' = s.number
    /\ life' = IF s.phone = Null THEN "finished" ELSE life
    /\ UNCHANGED <<started, screen, mVerificationInProgress, phoneNumber, button, requests,
                   gaveUp>>

\* Only prints the stack trace: what the object hid stays hidden.
onFailure(s) ==
    /\ ~s.right \/ "sign in" \in Faults
    /\ signIns' = signIns \ {s}
    /\ gaveUp' = (gaveUp \/ (s.phone = Null /\ ~button))
    /\ UNCHANGED <<life, started, screen, mVerificationInProgress, phoneNumber, button,
                   requests, saved, verified>>

SignedIn ==
    /\ life = "running"
    /\ \E s \in signIns : onComplete(s) \/ onFailure(s)

-----------------------------------------------------------------------------
(* The activity's life cycle.                                              *)

\* A resend without the flag is not sent again by onStart.
LosesResend ==
    ~mVerificationInProgress /\ \E r \in requests : ~r.sent /\ r.of # Null

onStop ==
    /\ "stop" \in Faults
    /\ OnScreen
    /\ started' = FALSE
    /\ requests' = {}
    /\ gaveUp' = (gaveUp \/ (LosesResend /\ ~button))
    /\ UNCHANGED <<life, screen, mVerificationInProgress, phoneNumber, button, signIns,
                   saved, verified>>

\* Coming back to the same object.  matcher(phoneNumber) throws if there is none.
onStart ==
    /\ life = "running"
    /\ ~started
    /\ \/ /\ mVerificationInProgress
          /\ phoneNumber = Null
          /\ Crash("start: number")
          /\ UNCHANGED <<mVerificationInProgress, button>>
       \/ /\ mVerificationInProgress
          /\ phoneNumber # Null
          /\ isPhoneNumberValid(phoneNumber)
          /\ Room
          /\ sendOtp(phoneNumber)
          /\ started' = TRUE
          /\ UNCHANGED <<life, signIns>>
       \/ /\ mVerificationInProgress => phoneNumber # Null /\ ~isPhoneNumberValid(phoneNumber)
          /\ started' = TRUE
          /\ UNCHANGED <<life, mVerificationInProgress, button, requests, signIns>>
    /\ UNCHANGED <<screen, phoneNumber, saved, verified, gaveUp>>

\* Mutant: the bundle also keeps state.
RestoreState ==
    /\ session' = Null /\ UNCHANGED <<state, phone>>
    /\ phoneNumber' = Null /\ button' = TRUE /\ gaveUp' = FALSE

\* The fields of a new object.  The views restore the text, not the visibility.
NewFields ==
    /\ state' = "start" /\ session' = Null /\ UNCHANGED phone
    /\ phoneNumber' = Null /\ button' = TRUE /\ gaveUp' = FALSE

\* A new object takes the place of the old one: after a rotation, or after the
\* process was killed in the background, which also ends its sign-ins.  The
\* bundle keeps mVerificationInProgress only; when it is set, the onStart that
\* follows onCreate at once matches the null phoneNumber.
Recreate(cause) ==
    /\ cause \in Faults
    /\ life = "running"
    /\ started = (cause = "rotate")
    /\ NewFields
    /\ \/ /\ mVerificationInProgress
          /\ Crash("start: number")
       \/ /\ ~mVerificationInProgress
          /\ started' = TRUE
          /\ requests' = {}
          /\ signIns' = IF cause = "kill" THEN {}
                        ELSE {[s EXCEPT !.phone = IF @ = Null THEN phoneNumber ELSE @] :
                                 s \in signIns}
          /\ UNCHANGED life
    /\ UNCHANGED <<mVerificationInProgress, saved, verified>>

\* The user opens the app again after a crash.
Relaunch ==
    /\ life \in Crashes
    /\ life' = "running"
    /\ started' = TRUE
    /\ state' = "start"
    /\ session' = Null
    /\ mVerificationInProgress' = FALSE
    /\ phoneNumber' = Null
    /\ phone' = NoText
    /\ button' = TRUE
    /\ gaveUp' = FALSE
    /\ UNCHANGED <<requests, signIns, saved, verified>>

LoginNext ==
    \/ Type
    \/ onClick
    \/ Callback
    \/ SignedIn
    \/ onStop
    \/ onStart
    \/ Recreate("rotate")
    \/ Recreate("kill")
    \/ Relaunch

LoginSpec == LoginInit /\ [][LoginNext]_loginVars

\* Firebase answers every request and every sign-in.
FairLoginSpec == LoginSpec /\ WF_loginVars(Callback) /\ WF_loginVars(SignedIn)

-----------------------------------------------------------------------------
(* Properties.                                                             *)

\* "Verify" and "Resend OTP" are only offered by an object that was given the
\* verification id and the token they pass on, also after the activity was
\* made anew (lines 89-95 against 121-130 and 148-157).
OffersHaveSession == life = "running" /\ state # "start" => session # Null

\* A hidden button has an answer under way that shows it again or ends the
\* activity (lines 115, 124, 206 against 160, 173, 180 and 193), through every
\* leaving, return, rotation and late answer.  The user is stuck on the login
\* screen for two reasons only: a sign-in that failed (212), or a resend that was
\* left behind without the flag that lets onStart repeat it (179, 143).
NeverStuck == OnScreen /\ ~button => Unanswered \/ SigningIn \/ gaveUp

\* In the middle of a verification an activity that comes back as the same object
\* sends to its number again (143), and one that is made anew does not come back:
\* it crashes, as the bundle keeps the flag (150) and not the number.  Nothing
\* else crashes onStart.
Remade == Recreate("rotate") \/ Recreate("kill")
ResumesOrCrashes ==
    [][/\ mVerificationInProgress /\ onStart => Request(phoneNumber, Null) \in requests'
       /\ (life # life' /\ life' = "start: number") <=> (mVerificationInProgress /\ Remade)]_loginVars

-----------------------------------------------------------------------------
(* Proofs, for every set of numbers, codes and faults and any number of    *)
(* requests under way.                                                     *)
(*                                                                         *)
(* That onStart finds a number in an object that hid its button itself is  *)
(* not inductive: a click on the first screen with an empty text makes     *)
(* phoneNumber empty.  It needs to know that the first screen has no       *)
(* button while a verification is in progress.  OffersHaveSession needs    *)
(* that a code that was sent was told to this object, for the timeout that *)
(* may follow.  NeverStuck needs to know why the button of an activity     *)
(* that was left is hidden.                                                *)

\* An activity that is told to send again is one that has sent.
HasNumber ==
    life = "running" /\ mVerificationInProgress => phoneNumber \in Texts \ {NoText}

\* On the first screen a verification in progress hides the button.
ProgressHides == life = "running" /\ state = "start" /\ mVerificationInProgress => ~button

\* A request whose timeout may come has set the verification id; a crash ends
\* all requests.
SentHasSession ==
    /\ \A q \in requests : q.sent => session # Null
    /\ life \in Crashes => requests = {}

\* Why a button is hidden, while the activity is started and while it is not.
HiddenHasReason ==
    life = "running" /\ ~button =>
        \/ SigningIn
        \/ gaveUp
        \/ started /\ Unanswered
        \/ ~started /\ mVerificationInProgress

\* One request at a time, none while the button asks for the next; the first
\* request of a number goes with the flag.
OneRequest ==
    /\ \A q, r \in requests : q = r
    /\ life = "running" /\ ~started => requests = {}
    /\ life = "running" /\ button /\ state # "code sent" => requests = {}
    /\ \A r \in requests : ~r.sent /\ r.of = Null => mVerificationInProgress

\* What holds without regard to the button's reasons.
LoginInv == LoginTypeOK /\ OffersHaveSession /\ HasNumber /\ ProgressHides /\ SentHasSession

LEMMA InitLogin == LoginInit => LoginInv
BY LoginAssumption DEF LoginInit, LoginInv, LoginTypeOK, OffersHaveSession, HasNumber, ProgressHides, SentHasSession, Crashes, Texts

LEMMA TypeKeeps == ASSUME LoginInv, Type PROVE LoginInv'
BY LoginAssumption, ZenonT(60) DEF LoginInv, LoginTypeOK, OffersHaveSession, HasNumber, ProgressHides, SentHasSession, Crashes, Type, Expected,
   OnScreen, Texts

LEMMA ClickKeeps == ASSUME LoginInv, onClick PROVE LoginInv'
<1>1. ASSUME TakeText, Crash("click: text"), UNCHANGED <<mVerificationInProgress, button>>,
             UNCHANGED <<screen, saved, verified, gaveUp>>
      PROVE  LoginInv'
  BY <1>1 DEF LoginInv, LoginTypeOK, OffersHaveSession, HasNumber, ProgressHides, SentHasSession,
     Crash, Crashes, TakeText, screen
<1>. DEFINE Rest == UNCHANGED <<life, started, screen, saved, verified, gaveUp>>
<1>2. ASSUME TakeText, state = "code sent", ~Throws(phone), verifyOtp(phone),
             UNCHANGED <<requests, mVerificationInProgress>>, Rest, OnScreen
      PROVE  LoginInv'
  <2>1. session \in Numbers
    BY <1>2 DEF LoginInv, LoginTypeOK, OffersHaveSession, OnScreen
  <2>2. [number |-> session, right |-> phone = CodeOf[session], phone |-> Null] \in SignIns
    BY <2>1 DEF SignIns
  <2>. QED
    BY <1>2, <2>2 DEF LoginInv, LoginTypeOK, OffersHaveSession, HasNumber, ProgressHides,
       SentHasSession, Crashes, TakeText, Throws,
       verifyOtp, signInWithCredentials, screen
<1>3. ASSUME TakeText, state = "time out", ~Throws(phone), resendOtp(phone), UNCHANGED signIns,
             Rest, OnScreen
      PROVE  LoginInv'
  <2>1. Request(phone, session) \in Requests
    BY <1>3 DEF Request, Requests, Throws, LoginInv, LoginTypeOK
  <2>2. ~Request(phone, session).sent
    BY DEF Request
  <2>. QED
    BY <1>3, <2>1, <2>2 DEF LoginInv, LoginTypeOK, OffersHaveSession, HasNumber, ProgressHides,
       SentHasSession, Crashes, TakeText, Throws,
       resendOtp, screen, OnScreen
<1>4. ASSUME TakeText, isPhoneNumberValid(phone), sendOtp(phone), UNCHANGED signIns, Rest,
             OnScreen
      PROVE  LoginInv'
  <2>1. Request(phone, Null) \in Requests
    BY <1>4 DEF Request, Requests, isPhoneNumberValid, LoginInv, LoginTypeOK
  <2>2. ~Request(phone, Null).sent
    BY DEF Request
  <2>. QED
    BY <1>4, <2>1, <2>2 DEF LoginInv, LoginTypeOK, OffersHaveSession, HasNumber, ProgressHides,
       SentHasSession, Crashes, TakeText,
       isPhoneNumberValid, sendOtp, screen, OnScreen
<1>5. ASSUME TakeText, state = "start", OnScreen, button, Rest,
             UNCHANGED <<requests, signIns, mVerificationInProgress, button>>
      PROVE  LoginInv'
  BY <1>5 DEF LoginInv, LoginTypeOK, OffersHaveSession, HasNumber, ProgressHides, SentHasSession, Crashes,
     TakeText, OnScreen, screen
<1>. QED
  BY <1>1, <1>2, <1>3, <1>4, <1>5 DEF onClick

LEMMA CallbackKeeps == ASSUME LoginInv, Callback PROVE LoginInv'
<1>1. PICK r \in requests : \/ onVerificationCompleted(r)
                            \/ onVerificationFailed(r)
                            \/ onCodeSent(r)
                            \/ onCodeAutoRetrievalTimeOut(r)
  BY DEF Callback
<1>r. r \in Requests /\ OnScreen
  BY DEF LoginInv, LoginTypeOK, Callback
<1>2. CASE onVerificationCompleted(r)
  <2>1. [number |-> r.number, right |-> TRUE, phone |-> Null] \in SignIns
    BY <1>2 DEF onVerificationCompleted, SignIns
  <2>. QED
    BY <1>2, <2>1 DEF onVerificationCompleted, signInWithCredentials, LoginInv, LoginTypeOK,
       OffersHaveSession, HasNumber, ProgressHides, SentHasSession, Crashes, screen
<1>3. CASE onVerificationFailed(r)
  BY <1>3 DEF onVerificationFailed, ShowButton, LoginInv, LoginTypeOK, OffersHaveSession, HasNumber,
     ProgressHides, SentHasSession, Crashes, screen
<1>4. CASE onCodeSent(r)
  <2>1. [r EXCEPT !.sent = TRUE] \in Requests
    BY <1>r DEF Requests
  <2>. QED
    BY <1>4, <2>1, LoginAssumption DEF onCodeSent, ShowButton, LoginInv, LoginTypeOK,
       OffersHaveSession, HasNumber, ProgressHides, SentHasSession, Crashes, Texts
<1>5. CASE onCodeAutoRetrievalTimeOut(r)
  <2>1. session # Null
    BY <1>5 DEF onCodeAutoRetrievalTimeOut, LoginInv, SentHasSession
  <2>. QED
    BY <1>5, <2>1 DEF onCodeAutoRetrievalTimeOut, LoginInv, LoginTypeOK,
       OffersHaveSession, HasNumber, ProgressHides, SentHasSession, Crashes
<1>. QED
  BY <1>1, <1>2, <1>3, <1>4, <1>5

LEMMA SignedInKeeps == ASSUME LoginInv, SignedIn PROVE LoginInv'
<1>1. PICK s \in signIns : onComplete(s) \/ onFailure(s)
  BY DEF SignedIn
<1>s. s \in SignIns
  BY DEF LoginInv, LoginTypeOK
<1>2. CASE onComplete(s)
  <2>1. saved' \in Texts \cup {Null} /\ verified' \in Numbers
    BY <1>2, <1>s DEF onComplete, SignIns, LoginInv, LoginTypeOK
  <2>. QED
    BY <1>2, <2>1 DEF onComplete, LoginInv, LoginTypeOK, OffersHaveSession, HasNumber,
       ProgressHides, SentHasSession, Crashes, screen
<1>3. CASE onFailure(s)
  BY <1>3, ZenonT(60) DEF onFailure, LoginInv, LoginTypeOK, OffersHaveSession, HasNumber,
     ProgressHides, SentHasSession, Crashes, screen
<1>. QED
  BY <1>1, <1>2, <1>3

LEMMA StopKeeps == ASSUME LoginInv, onStop PROVE LoginInv'
BY DEF onStop, LoginInv, LoginTypeOK, OffersHaveSession, HasNumber, ProgressHides,
   SentHasSession, Crashes, screen

LEMMA StartKeeps == ASSUME LoginInv, onStart PROVE LoginInv'
<1>1. CASE mVerificationInProgress
  <2>1. phoneNumber \in Texts \ {NoText} /\ phoneNumber # Null
    BY <1>1, LoginAssumption DEF onStart, LoginInv, HasNumber, Texts
  <2>2. sendOtp(phoneNumber) /\ started' = TRUE /\ UNCHANGED <<life, signIns>>
    BY <1>1, <2>1, Zenon DEF onStart, isPhoneNumberValid
  <2>3. Request(phoneNumber, Null) \in Requests /\ ~Request(phoneNumber, Null).sent
    BY <2>1 DEF Request, Requests
  <2>. QED
    BY <2>1, <2>2, <2>3 DEF onStart, sendOtp, LoginInv, LoginTypeOK, OffersHaveSession,
       HasNumber, ProgressHides, SentHasSession, Crashes, screen
<1>2. CASE ~mVerificationInProgress
  <2>1. started' = TRUE /\ UNCHANGED <<life, mVerificationInProgress, button, requests, signIns>>
    BY <1>2, Zenon DEF onStart
  <2>. QED
    BY <1>2, <2>1 DEF onStart, LoginInv, LoginTypeOK, OffersHaveSession, HasNumber,
       ProgressHides, SentHasSession, Crashes, screen
<1>. QED
  BY <1>1, <1>2

LEMMA RecreateKeeps == ASSUME LoginInv, NEW cause, Recreate(cause) PROVE LoginInv'
<1>1. CASE mVerificationInProgress
  <2>1. Crash("start: number") /\ NewFields /\ UNCHANGED <<mVerificationInProgress, saved, verified>>
    BY <1>1, Zenon DEF Recreate
  <2>. QED
    BY <2>1 DEF Crash, Crashes, NewFields, LoginInv, LoginTypeOK, OffersHaveSession, HasNumber,
       ProgressHides, SentHasSession
<1>2. CASE ~mVerificationInProgress
  <2>1. ASSUME NEW s \in signIns
        PROVE  [s EXCEPT !.phone = IF @ = Null THEN phoneNumber ELSE @] \in SignIns
    BY DEF SignIns, LoginInv, LoginTypeOK
  <2>2. /\ NewFields
        /\ started' = TRUE
        /\ requests' = {}
        /\ signIns' = IF cause = "kill" THEN {}
                      ELSE {[s EXCEPT !.phone = IF @ = Null THEN phoneNumber ELSE @] :
                               s \in signIns}
        /\ UNCHANGED <<life, mVerificationInProgress, saved, verified>>
    BY <1>2, Zenon DEF Recreate
  <2>3. signIns' \subseteq SignIns
    BY <2>1, <2>2
  <2>. QED
    BY <1>2, <2>2, <2>3 DEF NewFields, LoginInv, LoginTypeOK, OffersHaveSession,
       HasNumber, ProgressHides, SentHasSession, Crashes
<1>. QED
  BY <1>1, <1>2

LEMMA RelaunchKeeps == ASSUME LoginInv, Relaunch PROVE LoginInv'
BY LoginAssumption DEF Relaunch, LoginInv, LoginTypeOK, OffersHaveSession,
   HasNumber, ProgressHides, SentHasSession, Crashes, Texts

LEMMA LoginInvHolds == LoginSpec => []LoginInv
<1>1. LoginInv /\ [LoginNext]_loginVars => LoginInv'
  <2>1. ASSUME LoginInv, LoginNext PROVE LoginInv'
    BY <2>1, TypeKeeps, ClickKeeps, CallbackKeeps, SignedInKeeps, StopKeeps, StartKeeps,
       RecreateKeeps, RelaunchKeeps DEF LoginNext
  <2>2. ASSUME LoginInv, UNCHANGED loginVars PROVE LoginInv'
    BY <2>2, ZenonT(60) DEF loginVars, screen, LoginInv, LoginTypeOK, OffersHaveSession,
       HasNumber, ProgressHides, SentHasSession, Crashes
  <2>. QED
    BY <2>1, <2>2
<1>. QED
  BY <1>1, InitLogin, PTL DEF LoginSpec

LEMMA InitOne == LoginInit => OneRequest
BY DEF LoginInit, OneRequest

LEMMA CallbackOne ==
    ASSUME LoginInv, OneRequest, Callback
    PROVE  OneRequest'
<1>1. PICK r \in requests : \/ onVerificationCompleted(r)
                            \/ onVerificationFailed(r)
                            \/ onCodeSent(r)
                            \/ onCodeAutoRetrievalTimeOut(r)
  BY DEF Callback
<1>2. requests \ {r} = {}
  BY DEF OneRequest
<1>3. CASE onVerificationCompleted(r) \/ onVerificationFailed(r) \/ onCodeAutoRetrievalTimeOut(r)
  <2>1. requests' = {}
    BY <1>2, <1>3 DEF onVerificationCompleted, onVerificationFailed, onCodeAutoRetrievalTimeOut
  <2>. QED
    BY <2>1 DEF OneRequest
<1>4. CASE onCodeSent(r)
  <2>. DEFINE t == [r EXCEPT !.sent = TRUE]
  <2>1. t.sent
    BY DEF LoginInv, LoginTypeOK, Requests
  <2>2. requests' = {t} /\ state' = "code sent" /\ started'
    BY <1>2, <1>4 DEF onCodeSent, Callback, OnScreen
  <2>. HIDE DEF t
  <2>. QED
    BY <2>1, <2>2 DEF OneRequest
<1>. QED
  BY <1>1, <1>3, <1>4

\* A request that is added was preceded by none, or by one whose code was sent.
LEMMA OneMore ==
    ASSUME OneRequest, NEW text, NEW of, requests = {}, requests' = requests \cup {Request(text, of)},
           of # Null \/ mVerificationInProgress', started', ~button'
    PROVE  OneRequest'
<1>1. Request(text, of).of = of
  BY DEF Request
<1>. HIDE DEF Request
<1>. QED
  BY <1>1 DEF OneRequest

LEMMA ClickOne ==
    ASSUME LoginInv, OneRequest, onClick
    PROVE  OneRequest'
<1>1. CASE requests' = {}
  BY <1>1 DEF OneRequest
<1>2. CASE state = "code sent" /\ UNCHANGED <<life, started, requests, mVerificationInProgress>>
  BY <1>2 DEF onClick, screen, OneRequest
<1>3. ASSUME state # "code sent", (resendOtp(phone) /\ state = "time out") \/ sendOtp(phone), started' = started
      PROVE  OneRequest'
  <2>1. requests = {} /\ started
    BY <1>3 DEF onClick, OnScreen, OneRequest
  <2>2. session # Null \/ state # "time out"
    BY DEF onClick, OnScreen, LoginInv, OffersHaveSession
  <2>. QED
    BY <1>3, <2>1, <2>2, OneMore DEF resendOtp, sendOtp
<1>4. CASE UNCHANGED <<life, started, requests, mVerificationInProgress, button>>
  BY <1>4 DEF onClick, screen, OneRequest
<1>. QED
  BY <1>1, <1>2, <1>3, <1>4 DEF onClick, Crash

LEMMA StartOne ==
    ASSUME LoginInv, OneRequest, onStart
    PROVE  OneRequest'
<1>. requests = {}
  BY DEF onStart, OneRequest
<1>1. CASE mVerificationInProgress
  <2>1. phoneNumber \in Texts \ {NoText} /\ phoneNumber # Null
    BY <1>1, LoginAssumption DEF onStart, LoginInv, HasNumber, Texts
  <2>2. sendOtp(phoneNumber) /\ started' = TRUE
    BY <1>1, <2>1, Zenon DEF onStart, isPhoneNumberValid
  <2>. QED
    BY <2>2, OneMore DEF sendOtp
<1>2. CASE ~mVerificationInProgress
  <2>1. requests' = requests
    BY <1>2, Zenon DEF onStart
  <2>. QED
    BY <2>1 DEF OneRequest
<1>. QED
  BY <1>1, <1>2

LEMMA OneKeeps ==
    ASSUME LoginInv, OneRequest, [LoginNext]_loginVars
    PROVE  OneRequest'
<1>1. CASE Type
  BY <1>1 DEF Type, OnScreen, OneRequest
<1>2. CASE SignedIn
  <2>1. UNCHANGED <<started, state, button, requests, mVerificationInProgress>>
    BY <1>2 DEF SignedIn, onComplete, onFailure, screen
  <2>2. life = "running"
    BY <1>2 DEF SignedIn
  <2>. QED
    BY <2>1, <2>2 DEF OneRequest
<1>3. CASE onStop
  BY <1>3 DEF onStop, OneRequest
<1>4. ASSUME NEW cause, Recreate(cause) PROVE OneRequest'
  <2>1. requests' = {}
    BY <1>4 DEF Recreate, Crash
  <2>. QED
    BY <2>1 DEF OneRequest
<1>5. CASE Relaunch
  <2>1. requests' = {}
    BY <1>5 DEF Relaunch, LoginInv, SentHasSession
  <2>. QED
    BY <2>1 DEF OneRequest
<1>6. CASE UNCHANGED loginVars
  BY <1>6 DEF loginVars, screen, OneRequest
<1>. QED
  BY <1>1, <1>2, <1>3, <1>4, <1>5, <1>6, CallbackOne, ClickOne, StartOne DEF LoginNext

LEMMA InitHidden == LoginInit => HiddenHasReason
BY DEF LoginInit, HiddenHasReason

LEMMA NewRequest ==
    ASSUME NEW text, NEW of, Request(text, of) \in requests'
    PROVE  Unanswered'
<1>1. ~Request(text, of).sent
  BY DEF Request
<1>. QED
  BY <1>1, Zenon DEF Unanswered

LEMMA NewSignIn ==
    ASSUME NEW n, NEW right, signInWithCredentials(n, right)
    PROVE  SigningIn'
<1>. DEFINE s == [number |-> n, right |-> right, phone |-> Null]
<1>1. s \in signIns' /\ s.phone = Null
  BY DEF signInWithCredentials
<1>. HIDE DEF s
<1>. QED
  BY <1>1, Zenon DEF SigningIn

LEMMA CallbackHidden ==
    ASSUME LoginInv, HiddenHasReason, Callback
    PROVE  HiddenHasReason'
<1>1. PICK r \in requests : \/ onVerificationCompleted(r)
                            \/ onVerificationFailed(r)
                            \/ onCodeSent(r)
                            \/ onCodeAutoRetrievalTimeOut(r)
  BY DEF Callback
<1>2. CASE onVerificationCompleted(r)
  BY <1>2, NewSignIn, Zenon DEF onVerificationCompleted, HiddenHasReason
<1>3. CASE onVerificationFailed(r) \/ onCodeSent(r)
  BY <1>3 DEF onVerificationFailed, onCodeSent, ShowButton, HiddenHasReason
<1>4. CASE onCodeAutoRetrievalTimeOut(r)
  BY <1>4 DEF onCodeAutoRetrievalTimeOut, HiddenHasReason, SigningIn, Unanswered
<1>. QED
  BY <1>1, <1>2, <1>3, <1>4

LEMMA ClickHidden ==
    ASSUME LoginInv, HiddenHasReason, onClick
    PROVE  HiddenHasReason'
<1>1. CASE Crash("click: text")
  BY <1>1 DEF Crash, HiddenHasReason
<1>2. CASE verifyOtp(phone)
  BY <1>2, NewSignIn, Zenon DEF verifyOtp, HiddenHasReason
<1>3. ASSUME resendOtp(phone) \/ sendOtp(phone), started' = started
      PROVE  HiddenHasReason'
  <2>1. Unanswered'
    BY <1>3, NewRequest DEF resendOtp, sendOtp
  <2>. QED
    BY <1>3, <2>1 DEF onClick, OnScreen, HiddenHasReason
<1>4. CASE button' = button
  BY <1>4 DEF onClick, HiddenHasReason
<1>. QED
  BY <1>1, <1>2, <1>3, <1>4 DEF onClick

LEMMA StartHidden ==
    ASSUME LoginInv, HiddenHasReason, onStart
    PROVE  HiddenHasReason'
<1>1. CASE mVerificationInProgress
  <2>1. phoneNumber \in Texts \ {NoText} /\ phoneNumber # Null
    BY <1>1, LoginAssumption DEF onStart, LoginInv, HasNumber, Texts
  <2>2. sendOtp(phoneNumber) /\ started' = TRUE
    BY <1>1, <2>1, Zenon DEF onStart, isPhoneNumberValid
  <2>3. Unanswered'
    BY <2>2, NewRequest DEF sendOtp
  <2>. QED
    BY <2>2, <2>3, Zenon DEF HiddenHasReason
<1>2. CASE ~mVerificationInProgress
  <2>1. ~started /\ life' = life /\ button' = button /\ signIns' = signIns
    BY <1>2, Zenon DEF onStart
  <2>2. gaveUp' = gaveUp
    BY DEF onStart
  <2>3. SigningIn => SigningIn'
    BY <2>1, Zenon DEF SigningIn
  <2>. QED
    BY <1>2, <2>1, <2>2, <2>3, Zenon DEF HiddenHasReason
<1>. QED
  BY <1>1, <1>2

LEMMA HiddenKeeps ==
    ASSUME LoginInv, OneRequest, HiddenHasReason, [LoginNext]_loginVars
    PROVE  HiddenHasReason'
<1>1. CASE Type
  BY <1>1 DEF Type, HiddenHasReason, SigningIn, Unanswered
<1>2. CASE SignedIn
  <2>1. PICK s \in signIns : onComplete(s) \/ onFailure(s)
    BY <1>2 DEF SignedIn
  <2>2. /\ started' = started /\ button' = button
        /\ mVerificationInProgress' = mVerificationInProgress /\ requests' = requests
    BY <2>1 DEF onComplete, onFailure
  <2>3. signIns' = signIns \ {s}
    BY <2>1 DEF onComplete, onFailure
  <2>4. Unanswered => Unanswered'
    BY <2>2, Zenon DEF Unanswered
  <2>5. SigningIn => SigningIn' \/ s.phone = Null
    BY <2>3 DEF SigningIn
  <2>6. gaveUp => gaveUp'
    BY <2>1 DEF onComplete, onFailure
  <2>7. life' = "running" => life = "running"
    BY <1>2 DEF SignedIn
  <2>8. s.phone = Null /\ ~button' => gaveUp' \/ life' # "running"
    <3>1. onComplete(s) /\ s.phone = Null => life' # "running"
      BY DEF onComplete
    <3>2. onFailure(s) /\ s.phone = Null /\ ~button' => gaveUp'
      BY <2>2, Zenon DEF onFailure
    <3>. QED
      BY <2>1, <3>1, <3>2
  <2>. QED
    BY <2>2, <2>4, <2>5, <2>6, <2>7, <2>8, Zenon DEF HiddenHasReason
<1>3. CASE onStop
  <2>1. /\ started /\ life = "running" /\ button' = button /\ signIns' = signIns
        /\ mVerificationInProgress' = mVerificationInProgress
        /\ gaveUp' = (gaveUp \/ (LosesResend /\ ~button))
    BY <1>3 DEF onStop, OnScreen
  <2>2. ~button /\ Unanswered => mVerificationInProgress \/ LosesResend
    BY Zenon DEF Unanswered, LosesResend, OneRequest
  <2>3. SigningIn => SigningIn'
    BY <2>1, Zenon DEF SigningIn
  <2>4. started' = FALSE
    BY <1>3 DEF onStop
  <2>. QED
    BY <2>1, <2>2, <2>3, <2>4, Zenon DEF HiddenHasReason
<1>4. ASSUME NEW cause, Recreate(cause) PROVE HiddenHasReason'
  BY <1>4 DEF Recreate, NewFields, HiddenHasReason
<1>5. CASE Relaunch
  BY <1>5 DEF Relaunch, HiddenHasReason
<1>6. CASE UNCHANGED loginVars
  BY <1>6 DEF loginVars, HiddenHasReason, SigningIn, Unanswered
<1>. QED
  BY <1>1, <1>2, <1>3, <1>4, <1>5, <1>6, CallbackHidden, ClickHidden, StartHidden DEF LoginNext

\* Every field of the login screen keeps its type, and Firebase is never asked
\* to verify an empty string (lines 97, 143).
THEOREM LoginTypeCorrect == LoginSpec => []LoginTypeOK
BY LoginInvHolds, PTL DEF LoginInv

\* "Verify" and "Resend OTP" are only offered by an object that has the id and
\* the token, through every order of answers, stops, rotations and kills.
THEOREM OffersHaveSessionHolds == LoginSpec => []OffersHaveSession
BY LoginInvHolds, PTL DEF LoginInv

\* A button that is hidden has an answer on its way, through every leaving,
\* return, rotation and late answer, or it lost its answer in one of the two
\* ways the code has (lines 212, 179).
THEOREM NeverStuckHolds == LoginSpec => []NeverStuck
<1>1. LoginInv /\ HiddenHasReason => NeverStuck
  BY DEF HiddenHasReason, NeverStuck, OnScreen
<1>. QED
  BY <1>1, LoginInvHolds, InitOne, OneKeeps, InitHidden, HiddenKeeps, PTL DEF LoginSpec

LEMMA StartResumes ==
    ASSUME LoginInv, mVerificationInProgress, onStart
    PROVE  Request(phoneNumber, Null) \in requests' /\ life' = life
<1>1. phoneNumber \in Texts \ {NoText} /\ phoneNumber # Null
  BY LoginAssumption DEF onStart, LoginInv, HasNumber, Texts
<1>2. sendOtp(phoneNumber) /\ UNCHANGED life
  BY <1>1, Zenon DEF onStart, isPhoneNumberValid
<1>. QED
  BY <1>2 DEF sendOtp

\* An activity that comes back in the middle of a verification sends again when it
\* is the same object, and crashes when it was made anew, and only then.
THEOREM ResumesOrCrashesHolds == LoginSpec => ResumesOrCrashes
<1>. DEFINE CrashesOnStart == life # life' /\ life' = "start: number"
            Step == /\ mVerificationInProgress /\ onStart => Request(phoneNumber, Null) \in requests'
                    /\ CrashesOnStart <=> (mVerificationInProgress /\ Remade)
<1>1. ASSUME LoginInv, LoginNext PROVE Step
  <2>1. mVerificationInProgress /\ onStart => Request(phoneNumber, Null) \in requests'
    BY <1>1, StartResumes
  <2>2. ASSUME mVerificationInProgress, Remade PROVE CrashesOnStart
    BY <2>2 DEF Remade, Recreate, Crash
  <2>3. ASSUME CrashesOnStart PROVE mVerificationInProgress /\ Remade
    <3>1. ~Type /\ ~Callback /\ ~SignedIn /\ ~onStop /\ ~Relaunch
      BY <2>3 DEF Type, Callback, onVerificationCompleted, onVerificationFailed, onCodeSent,
         onCodeAutoRetrievalTimeOut, SignedIn, onComplete, onFailure, onStop, Relaunch
    <3>2. ~onClick
      BY <2>3 DEF onClick, Crash
    <3>3. ~onStart
      <4>1. CASE mVerificationInProgress
        BY <1>1, <2>3, <4>1, StartResumes
      <4>2. CASE ~mVerificationInProgress
        BY <2>3, <4>2 DEF onStart
      <4>. QED
        BY <4>1, <4>2
    <3>4. Remade
      BY <1>1, <3>1, <3>2, <3>3 DEF LoginNext, Remade
    <3>5. mVerificationInProgress
      BY <2>3, <3>4 DEF Remade, Recreate
    <3>. QED
      BY <3>4, <3>5
  <2>. QED
    BY <2>1, <2>2, <2>3
<1>2. LoginInv /\ [LoginNext]_loginVars => [Step]_loginVars
  BY <1>1
<1>3. [][LoginNext]_loginVars /\ []LoginInv => [][Step]_loginVars
  BY <1>2, PTL
<1>. QED
  BY <1>3, LoginInvHolds DEF LoginSpec, ResumesOrCrashes
=============================================================================
