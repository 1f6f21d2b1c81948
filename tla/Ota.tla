-------------------------------- MODULE Ota --------------------------------
(***************************************************************************)
(* Over-the-air updates (ota_component.cpp) with the boot counter of safe  *)
(* mode, and the upload of the portal's page (web_server_base.cpp), which  *)
(* runs on the web server's task; both write through one Update object.    *)
(* handle_ keeps the loop task until it is over.                           *)
(***************************************************************************)
EXTENDS Preferences

CONSTANTS
    Chunks,       \* pieces of one
    NumAttempts,  \* safe_mode_num_attempts_
    EnableTime    \* safe_mode_enable_time_

ASSUME OtaAssumption == Chunks \in Nat /\ NumAttempts \in Nat /\ EnableTime \in Nat

VARIABLES
    tries,     \* the counter, as saved
    has_safe,  \* has_safe_mode_
    ota,       \* none: not set up; listen; or what handle_ waits for, or does next
    gift,      \* the image being sent
    stuck,     \* a part of a block has come, and nothing since
    started,   \* update_started
    upd,       \* Update: is it running, who wrote, how many pieces are left
    error,     \* Update.hasError()
    web,       \* the upload of the page: the image under way, or none
    answer,    \* its request is whole and has not been answered
    due,       \* its timeout to restart
    boot,      \* the firmware the next start runs
    \* What the properties speak of:
    begun,     \* who began an update last
    told,      \* the last image that a client was told is in place, and which client
    uncleared  \* the counter, when it was to be cleared last, was not

otaVars == <<tries, has_safe, ota, gift, stuck, started, upd, error, web, answer, due, boot,
             begun, told, uncleared>>
rtcVars == <<tries, uncleared>>
handlerVars == <<ota, gift, stuck, started>>
updateVars == <<upd, error, boot, begun, told>>
webVars == <<web, answer, due>>

Stages == {"magic", "features", "auth", "size", "md5", "data", "end", "ok", "ack"}
NotRunning == [run |-> FALSE, owner |-> "none", ota |-> 0, web |-> 0]
NotTold == [by |-> "none", image |-> "none"]

-----------------------------------------------------------------------------
(***************************************************************************)
(* The Update object.  Begin fails if an update is running, everything     *)
(* else if none is; an error stays until the next begins.  An image is     *)
(* bootable only if all of it comes from one side; what is written takes   *)
(* the place of one that was complete, and the running firmware is booted. *)
(***************************************************************************)
UpdateBegin(owner) ==
    /\ upd' = [NotRunning EXCEPT !.run = TRUE, !.owner = owner] /\ error' = FALSE
    /\ begun' = owner /\ told' = NotTold
    /\ UNCHANGED boot
UpdateWrite(side, running) ==
    /\ upd.run
    /\ upd' = IF side = "ota" THEN [upd EXCEPT !.ota = @ + 1] ELSE [upd EXCEPT !.web = @ + 1]
    /\ boot' = running
    /\ UNCHANGED <<error, begun, told>>
UpdateWhole(who) ==
    upd.run /\ upd.owner = who /\ upd.ota = (IF who = "ota" THEN Chunks ELSE 0)
            /\ upd.web = (IF who = "web" THEN Chunks ELSE 0)
UpdateEnd(img) ==
    /\ upd' = NotRunning /\ boot' = img
    /\ UNCHANGED <<error, begun, told>>
UpdateAbort ==
    /\ upd' = NotRunning /\ error' = TRUE
    /\ UNCHANGED <<boot, begun, told>>

\* To the client: its image is in place.
Tell(who, img) ==
    /\ told' = [by |-> who, image |-> img]
    /\ UNCHANGED <<upd, error, boot, begun>>

-----------------------------------------------------------------------------
Block == {"magic", "auth", "size", "md5"}   \* several bytes are waited for
After(stage) ==
    CASE stage = "magic" -> "features"
      [] stage = "features" -> "auth"
      [] stage = "auth" -> "size"
      [] stage = "size" -> "md5"
      [] stage = "md5" -> "data"

\* A client is accepted, and handle_ begins.
OtaAccept(images) ==
    /\ ota = "listen" /\ ota' = "magic" /\ gift' \in images
    /\ started' = FALSE /\ stuck' = FALSE
    /\ UNCHANGED <<rtcVars, has_safe, updateVars, webVars>>

\* A whole block came and is right; after the size the update begins, unless the
\* page's is under way: then that fails.
OtaReceive ==
    /\ ota \in {"magic", "features", "auth", "size", "md5"}
    /\ ota = "size" => ~upd.run
    /\ ota' = After(ota) /\ started' = (started \/ ota = "size") /\ stuck' = FALSE
    /\ IF ota = "size" THEN UpdateBegin("ota") ELSE UNCHANGED updateVars
    /\ UNCHANGED <<rtcVars, has_safe, gift, webVars>>

\* A part of a block.
OtaPart ==
    /\ ota \in Block /\ ~stuck /\ stuck' = TRUE
    /\ UNCHANGED <<rtcVars, has_safe, ota, gift, started, updateVars, webVars>>

\* Into whichever update is running.
OtaData(running) ==
    /\ ota = "data" /\ upd.ota < Chunks /\ UpdateWrite("ota", running)
    /\ ota' = IF upd.owner = "ota" /\ upd'.ota + upd.web >= Chunks THEN "end" ELSE "data"
    /\ UNCHANGED <<rtcVars, has_safe, gift, stuck, started, webVars>>

\* Mutant: it does not matter whether Update could be ended.
OtaEnd_Unchecked ==
    /\ ota = "end" /\ ota' = "ok"
    /\ IF UpdateWhole("ota") THEN UpdateEnd(gift) ELSE UpdateAbort
    /\ UNCHANGED <<rtcVars, has_safe, gift, stuck, started, webVars>>
OtaEnd ==
    /\ ota = "end" /\ UpdateWhole("ota") /\ UpdateEnd(gift)
    /\ ota' = "ok"
    /\ UNCHANGED <<rtcVars, has_safe, gift, stuck, started, webVars>>

\* OTA_RESPONSE_UPDATE_END_OK.
OtaTells ==
    /\ ota = "ok" /\ ota' = "ack" /\ Tell("ota", gift)
    /\ UNCHANGED <<rtcVars, has_safe, gift, stuck, started, webVars>>

\* wait_receive_: ten seconds in which nothing came; a part of a block is waited for
\* without end.
Receiving == Stages \ {"end", "ok", "ack"}
TimesOut == ota \in Receiving /\ ~stuck

\* error: the update is aborted, whoever's it is by now.
Fail(failed) ==
    /\ ota' = "listen" /\ stuck' = FALSE
    /\ IF started THEN UpdateAbort ELSE error' = failed /\ UNCHANGED <<upd, boot, begun, told>>
    /\ gift' = "none" /\ started' = FALSE
    /\ UNCHANGED <<rtcVars, has_safe, webVars>>

OtaTimeout == TimesOut /\ Fail(error)
\* What came is wrong, or no longer possible: writing, or ending.  A wrong size is an error
\* of Update, one that is running already is not.
OtaRefuses ==
    \/ /\ \/ ota \in {"magic", "auth"}
          \/ ota = "data" /\ ~upd.run
          \/ ota = "end" /\ ~UpdateWhole("ota")
       /\ Fail(error)
    \/ ota = "size" /\ Fail(error \/ ~upd.run)
OtaClosed == ota \in Receiving /\ Fail(error)

-----------------------------------------------------------------------------
(***************************************************************************)
(* The page: handleUpload for each piece, and handleRequest at last.       *)
(***************************************************************************)
\* The first piece aborts what is running.
WebBegins(images) ==
    /\ web = "none" /\ web' \in images
    /\ UpdateBegin("web")
    /\ UNCHANGED <<rtcVars, has_safe, handlerVars, answer, due>>
Uploading == web # "none" /\ ~answer
WebWrites(running) ==
    /\ Uploading /\ upd.web < Chunks /\ UpdateWrite("web", running)
    /\ UNCHANGED <<rtcVars, has_safe, handlerVars, webVars>>
\* The last piece was written.
WebEnds ==
    /\ Uploading /\ UpdateWhole("web") /\ UpdateEnd(web)
    /\ answer' = TRUE /\ due' = TRUE
    /\ UNCHANGED <<rtcVars, has_safe, handlerVars, web>>
\* Or Update cannot be ended ...
WebRefused ==
    /\ Uploading /\ upd.run /\ ~UpdateWhole("web") /\ UpdateAbort
    /\ answer' = TRUE
    /\ UNCHANGED <<rtcVars, has_safe, handlerVars, web, due>>
\* ... or is over already, and nothing is written.
WebIgnored ==
    /\ Uploading /\ ~upd.run
    /\ answer' = TRUE
    /\ UNCHANGED <<rtcVars, has_safe, handlerVars, updateVars, web, due>>
\* handleRequest says "Update Successful!" if Update has no error.
handleRequest ==
    /\ answer
    /\ IF error THEN UNCHANGED updateVars ELSE Tell("web", web)
    /\ web' = "none" /\ answer' = FALSE
    /\ UNCHANGED <<rtcVars, has_safe, handlerVars, due>>
\* The client goes away, of which Update is not told.
WebLeaves ==
    /\ web # "none" /\ web' = "none" /\ answer' = FALSE
    /\ UNCHANGED <<rtcVars, has_safe, handlerVars, updateVars, due>>

-----------------------------------------------------------------------------
\* write_rtc_ does not look whether the counter was saved.
write_rtc(v, refusable) == tries' \in {v} \cup {t \in {tries} : refusable}
clean_rtc(refusable) == write_rtc(0, refusable) /\ uncleared' = (tries' # 0)

\* should_enter_safe_mode: is it safe mode?
SafeModeDue == tries >= NumAttempts
\* Mutant: the starts are not counted up.
Counted_Once == 1
Counted == tries + 1

\* The loop after a good start.
BootSeemsSuccessful(up, refusable) ==
    /\ ota = "listen" /\ has_safe /\ up > EnableTime
    /\ has_safe' = FALSE /\ clean_rtc(refusable)
    /\ UNCHANGED <<handlerVars, updateVars, webVars>>

OtaOff ==
    /\ has_safe' = FALSE /\ ota' = "none" /\ gift' = "none" /\ stuck' = FALSE
    /\ started' = FALSE /\ upd' = NotRunning /\ error' = FALSE
    /\ web' = "none" /\ answer' = FALSE /\ due' = FALSE
=============================================================================
