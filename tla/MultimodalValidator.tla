------------------------- MODULE MultimodalValidator -------------------------
(***************************************************************************)
(* What the multimodal validator makes of the messages of a request        *)
(* (filters/multimodal_validator/request.py), and the step of the retry    *)
(* without images (_strip_last_image_url), as operators.                   *)
(*                                                                         *)
(* Of the messages the model keeps the images, in the order they appear    *)
(* in, each with its message and a number of its own, and of the text of   *)
(* each message how often it has the marker <__media__> of llama.cpp and   *)
(* how often another one.  The content is a list of parts or a string,     *)
(* which has no image.  The words, the placeholders that stand in for      *)
(* images and the parts that go because they are empty are left out.       *)
(***************************************************************************)
EXTENDS Integers, SequencesExt

Texts == [list : BOOLEAN, media : Nat, marks : Nat]
Pictures == [msg : Nat, id : Nat]
Messages == [texts : Seq(Texts), images : Seq(Pictures)]

\* The settings of a route: enabled, strip_orphaned_markers, max_images (0 for
\* no limit), max_images_policy, strip_all_images.
Settings == [enabled : BOOLEAN, strip : BOOLEAN, max : Nat,
             policy : {"strip_first", "strip_latest"}, all : BOOLEAN]

ImagesIn(messages, m) == Cardinality({k \in DOMAIN messages.images : messages.images[k].msg = m})
Markers(text) == text.media + text.marks

-----------------------------------------------------------------------------
\* llama.cpp inserts <__media__> itself: it goes, whatever the settings.
StripMedia(text) == [text EXCEPT !.media = 0]

\* All markers go, not only those too many.
StripMarkers(text, s) == IF s.strip THEN [text EXCEPT !.media = 0, !.marks = 0] ELSE text

\* Without an image every marker is an orphan.
ValidList(text, images, s) ==
  LET kept == StripMedia(text)
  IN  IF Markers(kept) > images THEN StripMarkers(kept, s) ELSE kept

ValidText(text, s) == StripMarkers(text, s)

ValidMessage(messages, m, s) ==
  LET text == messages.texts[m]
  IN  IF text.list THEN ValidList(text, ImagesIn(messages, m), s) ELSE ValidText(text, s)

\* _enforce_max_images with a limit of max: the images that stay, of all
\* messages together.
Limited(images, max, policy) ==
  LET excess == Len(images) - max
  IN  IF excess <= 0 THEN images
      ELSE IF policy = "strip_first" THEN SubSeq(images, excess + 1, Len(images))
           ELSE SubSeq(images, 1, max)

\* process_request: each message by itself, then the limits over all of them.
WithinLimits(images, s) ==
  LET few == IF s.max > 0 THEN Limited(images, s.max, s.policy) ELSE images
  IN  IF s.all THEN Limited(few, 0, s.policy) ELSE few

Filtered(messages, s) ==
  IF ~s.enabled THEN messages
  ELSE [texts  |-> [m \in DOMAIN messages.texts |-> ValidMessage(messages, m, s)],
        images |-> WithinLimits(messages.images, s)]

\* _strip_last_image_url.
StripLastImage(messages) == [messages EXCEPT !.images = Front(@)]
=============================================================================
