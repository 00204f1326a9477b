---------------------------- MODULE AtomicStore ----------------------------
(***************************************************************************)
(* What settings.c and eeprom.c together promise about the EEPROM: a store *)
(* of one whole configuration.  A reader finds either one image that some  *)
(* save asked for as a whole, or nothing it may use.  The only image that  *)
(* can appear is the one asked for now, or the one stamped last.           *)
(***************************************************************************)
CONSTANTS
  Images,    \* the configurations that can be stored
  NoImage    \* "nothing usable", and "no save in progress"

VARIABLES
  disk,      \* the image a reader would accept now, or NoImage
  last,      \* the image stamped last, or NoImage if the stamp is unreadable
  asked      \* the image the save in progress was given, or NoImage

storeVars == <<disk, last, asked>>

StoreInit ==
  /\ last \in Images \cup {NoImage}
  /\ disk \in {last, NoImage}
  /\ asked = NoImage

(* A save is called with an image; nothing is stored yet.                  *)
Ask == /\ asked = NoImage
       /\ asked' \in Images
       /\ UNCHANGED <<disk, last>>

(* While a save runs the stored data may stop and start matching the last  *)
(* stamp.                                                                  *)
Touch == /\ asked # NoImage
         /\ disk' \in {last, NoImage}
         /\ UNCHANGED last
         /\ asked' \in {asked, NoImage}

(* The save stamps the image it was given, all of it already stored.       *)
Commit == /\ asked # NoImage
          /\ last' = asked
          /\ disk' = asked
          /\ asked' = NoImage

(* The stamp itself is destroyed half-written.                             *)
Garble == /\ asked # NoImage
          /\ last' = NoImage
          /\ disk' = NoImage
          /\ asked' = NoImage

StoreNext == Ask \/ Touch \/ Commit \/ Garble

StoreSpec == StoreInit /\ [][StoreNext]_storeVars
=============================================================================
