------------------------------ MODULE Home_proof ------------------------------
(***************************************************************************)
(* Theorems about the parts of Home, for every set of messages, every size *)
(* of frames and of the bitmap, and any number of them.                    *)
(***************************************************************************)
EXTENDS Home, TLAPS, SequenceTheorems, WellFoundedInduction,
        FiniteSetTheorems

-----------------------------------------------------------------------------
(* HomeMessages.                                                           *)

\* The URLs that a notification has brought are the ones that play.
IntentPlayed ==
    activity # "none" /\ intent.action = "HOME_NOTIFICATION" =>
        \A k \in Messages!Urls :
            intent.extras[k] # Nothing => playing[k] = intent.extras[k]

MessagesInv ==
    /\ Messages!TypeOK
    /\ Messages!LastUrlRemembered
    /\ IntentPlayed

\* Sent values are extras.
LEMMA SentAreExtras ==
    /\ Nothing \notin Values
    /\ Sent \subseteq Messages!Extras
    /\ MaxMessages \in Nat
BY HomeAssumptions DEF HomeAssumptions, Messages!MessagesAssumption

\* Putting extras to others makes extras, with the value of the latter.
LEMMA PutFacts ==
    ASSUME NEW e \in Messages!Extras, NEW m \in Messages!Extras
    PROVE  /\ Messages!Put(e, m) \in Messages!Extras
           /\ \A k \in Messages!Keys :
                  m[k] # Nothing => Messages!Put(e, m)[k] = m[k]
BY DEF Messages!Put, Messages!Extras

\* An intent plays what the activity remembers then, and its own URLs if a
\* notification has brought it.
LEMMA PlayFacts ==
    ASSUME Messages!TypeOK, NEW in \in Messages!Intent, Messages!Play(in)
    PROVE  /\ playing' \in [Messages!Urls -> Values \cup {Nothing}]
           /\ properties' = playing'
           /\ in.action = "HOME_NOTIFICATION" =>
                \A k \in Messages!Urls :
                    in.extras[k] # Nothing => playing'[k] = in.extras[k]
BY DEF Messages!Play, Messages!Url, Messages!TypeOK, Messages!Intent,
       Messages!Extras, Messages!Keys, Messages!Urls

\* An activity that is made, with any intent, plays what it remembers.
LEMMA CreateInv ==
    ASSUME Messages!TypeOK, NEW in \in Messages!Intent, Messages!Create(in)
    PROVE  /\ properties' \in [Messages!Urls -> Values \cup {Nothing}]
           /\ activity' \in {"none", "resumed", "background"}
           /\ intent' \in Messages!Intent
           /\ playing' \in [Messages!Urls -> Values \cup {Nothing}]
           /\ shown' \in Values \cup {Nothing}
           /\ Messages!LastUrlRemembered'
           /\ IntentPlayed'
<1>1. Messages!Play(in) /\ intent' = in /\ activity' = "resumed"
  BY DEF Messages!Create
<1>2. shown' \in Values \cup {Nothing}
  BY DEF Messages!Create, Messages!Intent, Messages!Extras, Messages!Keys
<1> QED
  BY <1>1, <1>2, PlayFacts DEF Messages!LastUrlRemembered, IntentPlayed

\* Nothing has been sent, and nothing plays.
LEMMA InitMessagesInv == Messages!Init => MessagesInv
BY SentAreExtras
   DEF Messages!Init, MessagesInv, Messages!TypeOK, Messages!LastUrlRemembered,
       IntentPlayed, Messages!Extras, Messages!Keys, Messages!Urls,
       Messages!NoExtras, Messages!Intent, Messages!LaunchIntent,
       Messages!Actions

\* What a message leaves: its extras in three places.
LEMMA OnMessageReceivedInv ==
    ASSUME MessagesInv, NEW data \in Sent, Messages!onMessageReceived(data)
    PROVE  MessagesInv'
<1> USE DEF MessagesInv, Messages!onMessageReceived
<1>1. data \in Messages!Extras
  BY SentAreExtras
<1>2. Messages!LastUrlRemembered' /\ IntentPlayed'
  BY DEF Messages!LastUrlRemembered, IntentPlayed, Messages!activityVars
<1>3. remembered' \in Messages!Extras
  BY <1>1, PutFacts DEF Messages!TypeOK
<1>4. broadcasts' \in Seq(Messages!Extras)
  BY <1>1, AppendProperties DEF Messages!TypeOK
<1>5. pending' = {} \/ \E e \in Messages!Extras : pending' = {e}
  BY <1>1 DEF Messages!PendingIntentFor, Messages!TypeOK
<1>6. received' \in 0..MaxMessages
  BY SentAreExtras DEF Messages!TypeOK
<1> QED
  BY <1>1, <1>2, <1>3, <1>4, <1>5, <1>6
     DEF Messages!TypeOK, Messages!activityVars

\* A broadcast: the activity's intent takes its extras, and if that changes
\* a URL, all of them are played again.
LEMMA ProcessMessageInv ==
    ASSUME MessagesInv, Messages!processMessageFromHome
    PROVE  /\ MessagesInv'
           /\ activity # "none" /\ intent.action = "HOME_NOTIFICATION" =>
                \A k \in Messages!Urls : Head(broadcasts)[k] # Nothing =>
                                    playing'[k] = Head(broadcasts)[k]
<1> USE DEF MessagesInv
<1> DEFINE message == Head(broadcasts)
           in == [intent EXCEPT !.extras = Messages!Put(@, message)]
<1>1. broadcasts' \in Seq(Messages!Extras) /\ message \in Messages!Extras
  <2> broadcasts \in Seq(Messages!Extras) /\ broadcasts # <<>>
    BY DEF Messages!TypeOK, Messages!processMessageFromHome
  <2> QED
    BY HeadTailProperties DEF Messages!processMessageFromHome
<1>2. UNCHANGED <<received, remembered, tray, pending, started, activity>>
  BY DEF Messages!processMessageFromHome, Messages!systemVars
<1>3. CASE activity = "none"
  <2> UNCHANGED <<properties, intent, playing, shown>>
    BY <1>3 DEF Messages!processMessageFromHome
  <2> QED
    BY <1>1, <1>2, <1>3
       DEF Messages!TypeOK, Messages!LastUrlRemembered, IntentPlayed
<1>4. CASE activity # "none"
  <2>1. /\ in \in Messages!Intent /\ in.action = intent.action
        /\ \A k \in Messages!Keys :
               message[k] # Nothing => in.extras[k] = message[k]
    <3> intent \in Messages!Intent /\ intent.extras \in Messages!Extras
      BY DEF Messages!TypeOK, Messages!Intent
    <3> QED
      BY <1>1, PutFacts DEF Messages!Intent
  <2>2. /\ intent' = in
        /\ shown' = IF message["message"] = Nothing
                    THEN shown ELSE message["message"]
        /\ IF \E k \in Messages!Urls : in.extras[k] # intent.extras[k]
           THEN Messages!Play(in)
           ELSE UNCHANGED <<properties, playing>>
    BY <1>4 DEF Messages!processMessageFromHome
  <2>3. shown' \in Values \cup {Nothing}
    BY <1>1, <2>2 DEF Messages!TypeOK, Messages!Extras, Messages!Keys
  <2> HIDE DEF in, message
  <2>4. /\ playing' \in [Messages!Urls -> Values \cup {Nothing}]
        /\ properties' = playing'
        /\ in.action = "HOME_NOTIFICATION" =>
             \A k \in Messages!Urls :
                 in.extras[k] # Nothing => playing'[k] = in.extras[k]
    <3>1. CASE Messages!Play(in)
      BY <3>1, <2>1, PlayFacts
    <3>2. CASE ~Messages!Play(in)
      <4> /\ \A k \in Messages!Urls : in.extras[k] = intent.extras[k]
          /\ UNCHANGED <<properties, playing>>
        BY <3>2, <2>2
      <4> QED
        BY <1>4, <2>1
           DEF Messages!TypeOK, Messages!LastUrlRemembered, IntentPlayed
    <3> QED
      BY <3>1, <3>2
  <2>5. MessagesInv'
    BY <1>1, <1>2, <2>1, <2>2, <2>3, <2>4
       DEF Messages!TypeOK, Messages!LastUrlRemembered, IntentPlayed
  <2>6. intent.action = "HOME_NOTIFICATION" =>
          \A k \in Messages!Urls :
              message[k] # Nothing => playing'[k] = message[k]
    BY <2>1, <2>4 DEF Messages!Urls, Messages!Keys
  <2> QED
    BY <2>5, <2>6 DEF message
<1> QED
  BY <1>3, <1>4

\* The user and the system, by what they do to the activity.
LEMMA UserInv ==
    ASSUME MessagesInv,
           \/ Messages!onResume \/ Messages!Leave \/ Messages!Launch
           \/ Messages!Tap \/ Messages!Dismiss \/ Messages!Collect
           \/ Messages!Finish \/ Messages!RestoreAfterDeath
    PROVE  MessagesInv'
<1> USE DEF MessagesInv
<1>0. Messages!LaunchIntent \in Messages!Intent
  BY DEF Messages!LaunchIntent, Messages!Intent, Messages!Actions,
         Messages!NoExtras, Messages!Extras
<1>1. CASE Messages!onResume
  <2>1. Messages!Play(intent) /\ intent \in Messages!Intent
    BY <1>1 DEF Messages!onResume, Messages!TypeOK
  <2>2. shown' \in Values \cup {Nothing}
    BY <1>1 DEF Messages!onResume, Messages!TypeOK, Messages!Intent,
                Messages!Extras, Messages!Keys
  <2> QED
    BY <1>1, <2>1, <2>2, PlayFacts
       DEF Messages!onResume, Messages!systemVars, Messages!TypeOK,
           Messages!LastUrlRemembered, IntentPlayed
<1>2. CASE Messages!Leave
  BY <1>2 DEF Messages!Leave, Messages!systemVars, Messages!prefVars,
              Messages!TypeOK, Messages!LastUrlRemembered, IntentPlayed
<1>3. CASE Messages!Launch
  BY <1>0, <1>3, CreateInv DEF Messages!Launch, Messages!TypeOK
<1>4. CASE Messages!Tap
  <2>1. PICK extras \in pending :
          LET in == [action |-> "HOME_NOTIFICATION", extras |-> extras]
          IN  started' = in /\ Messages!Create(in)
    BY <1>4 DEF Messages!Tap
  <2> DEFINE in == [action |-> "HOME_NOTIFICATION", extras |-> extras]
  <2>2. in \in Messages!Intent
    BY DEF Messages!TypeOK, Messages!Intent, Messages!Actions
  <2>3. started' = in /\ Messages!Create(in)
    BY <2>1
  <2> HIDE DEF in
  <2> QED
    BY <1>4, <2>2, <2>3, CreateInv DEF Messages!Tap, Messages!TypeOK
<1>5. CASE Messages!Dismiss
  BY <1>5 DEF Messages!Dismiss, Messages!prefVars, Messages!activityVars,
              Messages!TypeOK, Messages!LastUrlRemembered, IntentPlayed
<1>6. CASE Messages!Collect
  BY <1>6 DEF Messages!Collect, Messages!prefVars, Messages!activityVars,
              Messages!TypeOK, Messages!LastUrlRemembered, IntentPlayed
<1>7. CASE Messages!Finish
  BY <1>0, <1>7
     DEF Messages!Finish, Messages!prefVars, Messages!TypeOK,
         Messages!LastUrlRemembered, IntentPlayed
<1>8. CASE Messages!RestoreAfterDeath
  <2>1. started \in Messages!Intent /\ Messages!Create(started)
    BY <1>8 DEF Messages!RestoreAfterDeath, Messages!TypeOK
  <2>2. broadcasts' \in Seq(Messages!Extras)
    BY <1>8 DEF Messages!RestoreAfterDeath
  <2> QED
    BY <1>8, <2>1, <2>2, CreateInv
       DEF Messages!RestoreAfterDeath, Messages!systemVars, Messages!TypeOK
<1> QED
  BY <1>1, <1>2, <1>3, <1>4, <1>5, <1>6, <1>7, <1>8

\* Every step of the messages, of the user and of the system.
LEMMA StepMessagesInv ==
    MessagesInv /\ [Messages!Next]_(Messages!vars) => MessagesInv'
<1>1. ASSUME MessagesInv, UNCHANGED Messages!vars
      PROVE  MessagesInv'
  BY <1>1
     DEF MessagesInv, Messages!vars, Messages!prefVars, Messages!systemVars,
         Messages!activityVars, Messages!TypeOK, Messages!LastUrlRemembered,
         IntentPlayed
<1> QED
  BY <1>1, OnMessageReceivedInv, ProcessMessageInv, UserInv DEF Messages!Next

\* What plays is what is remembered for the next start, whatever messages
\* come, and whatever the user and the system do between them.
THEOREM LastUrl == Messages!Spec => []Messages!LastUrlRemembered
<1>1. MessagesInv => Messages!LastUrlRemembered
  BY DEF MessagesInv
<1> QED
  BY <1>1, InitMessagesInv, StepMessagesInv, PTL DEF Messages!Spec

\* An activity that a notification has started follows every later URL.
THEOREM FollowsMessages == Messages!Spec => Messages!MessageIsFollowed
<1>1. MessagesInv /\ [Messages!Next]_(Messages!vars) =>
        [Messages!processMessageFromHome /\ activity # "none"
           /\ intent.action = "HOME_NOTIFICATION" =>
           \A k \in Messages!Urls : Head(broadcasts)[k] # Nothing =>
                             playing'[k] = Head(broadcasts)[k]]_(Messages!vars)
  BY ProcessMessageInv
<1> QED
  BY <1>1, InitMessagesInv, StepMessagesInv, PTL
     DEF Messages!Spec, Messages!MessageIsFollowed

-----------------------------------------------------------------------------
(* Induction.                                                              *)

\* A set of natural numbers has a least element.
LEMMA LeastOfNat ==
    ASSUME NEW S, S \subseteq Nat, S # {}
    PROVE  \E n \in S : \A m \in S : n <= m
<1> DEFINE R == OpToRel(<, Nat)
<1>1. IsWellFoundedOn(R, Nat)
  BY NatLessThanWellFounded
<1>2. PICK n \in S : \A m \in S : ~ (<<m, n>> \in R)
  <2> HIDE DEF R
  <2> QED
    BY <1>1, WFMin
<1>3. ASSUME NEW m \in S PROVE n <= m
  <2>1. <<m, n>> \notin R /\ m \in Nat /\ n \in Nat
    BY <1>2
  <2> QED
    BY <2>1 DEF OpToRel
<1> QED
  BY <1>3

\* What holds of 0, and of n + 1 if it holds of n, holds of every number.
LEMMA NatSetInduction ==
    ASSUME NEW S, 0 \in S, \A n \in Nat : n \in S => n + 1 \in S
    PROVE  Nat \subseteq S
<1> DEFINE T == Nat \ S
<1> SUFFICES ASSUME T # {} PROVE FALSE
  OBVIOUS
<1>1. PICK n \in T : \A m \in T : n <= m
  <2> T \subseteq Nat
    OBVIOUS
  <2> HIDE DEF T
  <2> QED
    BY LeastOfNat
<1>2. n # 0 /\ n \in Nat
  OBVIOUS
<1>3. n - 1 \in Nat /\ n = (n - 1) + 1
  BY <1>2
<1>4. n - 1 \in S
  BY <1>1, <1>3
<1> QED
  BY <1>3, <1>4

-----------------------------------------------------------------------------
(* ImageProc.                                                              *)

Pixels == [of : Nat, row : Nat, column : Nat]

\* A frame that is cut short, when its rows have come: the last of them is
\* written again and again.
Repeats == frame.kind = "cut" /\ output_scanline = frame.rows

InPlace(i, p, w) == p = Image!Junk \/ i = p.row * w + p.column + 1

\* The buffer, if there is one, has the size that was allocated, and is there
\* except after a free, until the next frame that can be started.
BufferOK ==
    /\ count \in Nat
    /\ rgb \in Seq(Pixels)
    /\ \/ IMG_WIDTH = -1 /\ IMG_HEIGHT = -1 /\ rgb = <<>>
       \/ IMG_WIDTH \in 1..MaxWidth /\ IMG_HEIGHT \in 1..MaxHeight
    /\ rgb = <<>> /\ IMG_WIDTH # -1 => freed
    /\ pc = "copy" /\ rgb = <<>> => frame.kind = "header"

\* Rows are written one below the other.
RowsOK ==
    /\ pc = "rows" => /\ rgb # <<>>
                      /\ frame.kind # "header"
                      /\ jpegbuffer \in Seq(Pixels)
                      /\ Len(jpegbuffer) = frame.width
                      /\ output_scanline <= frame.rows
                      /\ y \in Nat
                      /\ Repeats \/ y = output_scanline * IMG_WIDTH
    /\ pc = "copy" => frame.kind # "cut"
    /\ pc = "copy" /\ frame.kind = "whole" => output_scanline = frame.height

\* A pixel of the buffer, whatever frame has left it there, is where it was in
\* its frame; but for the rows that are repeated.
RgbInPlace ==
    pc \in {"idle", "copy"} \/ (pc = "rows" /\ ~Repeats) =>
        \A i \in 1..Len(rgb) : InPlace(i, rgb[i], IMG_WIDTH)

\* The rows that a whole frame has brought are there, as wide as the buffer.
RowsWritten ==
    pc \in {"rows", "copy"} /\ frame.kind = "whole" =>
        \A r \in 0..output_scanline - 1, c \in 0..frame.width - 1 :
            c < IMG_WIDTH =>
                /\ r * IMG_WIDTH + c + 1 \in 1..Len(rgb)
                /\ rgb[r * IMG_WIDTH + c + 1] = Image!Pixel(count, frame, r, c)

BitmapOK ==
    /\ bitmap \in [1..Image!Size -> Pixels]
    /\ Image!PixelsInPlace

ImageInv ==
    /\ Image!TypeOK
    /\ BufferOK
    /\ RowsOK
    /\ RgbInPlace
    /\ RowsWritten
    /\ BitmapOK
    /\ Image!FaultHasCause

\* The sizes of the bitmap and of the largest frame.
LEMMA SizesFacts ==
    /\ MaxWidth \in Nat \ {0} /\ MaxHeight \in Nat \ {0}
    /\ BitmapWidth \in Nat \ {0} /\ BitmapHeight \in Nat \ {0}
    /\ Image!Size \in Nat
<1>1. /\ MaxWidth \in Nat \ {0} /\ MaxHeight \in Nat \ {0}
      /\ BitmapWidth \in Nat \ {0} /\ BitmapHeight \in Nat \ {0}
  BY HomeAssumptions DEF HomeAssumptions, Image!SizesAssumption
<1> QED
  BY <1>1 DEF Image!Size

\* A function on 1 to n is a sequence.
LEMMA FcnSeq ==
    ASSUME NEW S, NEW n \in Nat, NEW f \in [1..n -> S]
    PROVE  f \in Seq(S) /\ Len(f) = n /\ DOMAIN f = 1..n
OBVIOUS

\* A larger number of rows has no fewer cells.
LEMMA MulMono ==
    ASSUME NEW a \in Nat, NEW b \in Nat, NEW w \in Nat, a <= b
    PROVE  a * w <= b * w /\ a * w \in Nat
<1> PICK d \in Nat : b = a + d
  <2> b - a \in Nat /\ b = a + (b - a)
    OBVIOUS
  <2> QED
    OBVIOUS
<1>1. b * w = a * w + d * w
  OBVIOUS
<1>2. d * w \in Nat /\ a * w \in Nat
  OBVIOUS
<1> QED
  BY <1>1, <1>2

\* No rows, no cells.
LEMMA NoCells == \A w \in Nat : 0 * w = 0
OBVIOUS

\* The cells of row r of an array that is w wide are within it.
LEMMA CellWithin ==
    ASSUME NEW w \in Nat, NEW h \in Nat, NEW r \in Nat, r < h,
           NEW c \in 1..w
    PROVE  r * w + c \in 1..(w * h) /\ (r + 1) * w = r * w + w
<1>1. (r + 1) * w <= h * w /\ r * w \in Nat
  BY MulMono
<1>2. (r + 1) * w = r * w + w /\ h * w = w * h
  OBVIOUS
<1> QED
  BY <1>1, <1>2

\* Two cells of different rows are different.
LEMMA CellsDiffer ==
    ASSUME NEW w \in Nat, NEW r \in Nat, NEW s \in Nat,
           NEW c \in 1..w, NEW d \in 1..w, r < s
    PROVE  r * w + c < s * w + d
<1>1. (r + 1) * w <= s * w /\ r * w \in Nat /\ s * w \in Nat
  BY MulMono
<1>2. (r + 1) * w = r * w + w
  OBVIOUS
<1> QED
  BY <1>1, <1>2

\* What a pixel may hold.
LEMMA PixelFacts ==
    /\ Image!Junk \in Pixels
    /\ \A f \in Image!Frames, n \in Nat, r \in Nat, c \in Nat :
         Image!Pixel(n, f, r, c) \in Pixels
BY DEF Pixels, Image!Junk, Image!Pixel

\* What a frame is.
LEMMA FrameFacts ==
    ASSUME NEW f \in Image!Frames
    PROVE  /\ f.width \in 1..MaxWidth /\ f.height \in 1..MaxHeight
           /\ f.kind \in {"whole", "header", "data", "cut"}
           /\ f.rows \in 0..MaxHeight /\ f.standard \in BOOLEAN
           /\ f.rows <= f.height
           /\ f.kind = "whole" <=> f.rows = f.height
<1> USE SizesFacts DEF Image!Frames, Image!Kinds
<1> QED
  OBVIOUS

\* No buffer is allocated, and no frame has come.
LEMMA InitImageInv == Image!Init => ImageInv
<1> SUFFICES ASSUME Image!Init PROVE ImageInv
  OBVIOUS
<1> USE DEF Image!Init
<1>1. frame \in Image!Frames /\ frame.kind = "header"
  <2> DEFINE f == [width |-> 1, height |-> 1, kind |-> "header", rows |-> 0,
                   standard |-> TRUE]
  <2>1. f \in [width : 1..MaxWidth, height : 1..MaxHeight,
               kind : Image!Kinds, rows : 0..MaxHeight, standard : BOOLEAN]
    BY SizesFacts DEF Image!Kinds
  <2>2. f.kind = "header" /\ f.rows < f.height
    OBVIOUS
  <2>3. frame = f
    OBVIOUS
  <2> HIDE DEF f
  <2> QED
    BY <2>1, <2>2, <2>3 DEF Image!Frames
<1>2. Image!TypeOK
  BY <1>1, SizesFacts DEF Image!TypeOK
<1>3. BufferOK
  <2>1. count \in Nat /\ rgb \in Seq(Pixels)
    OBVIOUS
  <2>2. IMG_WIDTH = -1 /\ IMG_HEIGHT = -1 /\ rgb = <<>> /\ pc = "idle"
    OBVIOUS
  <2> QED
    BY <2>1, <2>2 DEF BufferOK
<1>5. RowsOK /\ RowsWritten
  BY <1>1 DEF RowsOK, RowsWritten
<1>6. RgbInPlace
  BY DEF RgbInPlace
<1>4. BitmapOK /\ Image!FaultHasCause
  BY SizesFacts, PixelFacts
     DEF BitmapOK, Image!PixelsInPlace, Image!FaultHasCause
<1> QED
  BY <1>2, <1>3, <1>4, <1>5, <1>6 DEF ImageInv

\* A frame begins: its header is damaged, or it finds a buffer.
LEMMA ProcessimageInv ==
    ASSUME ImageInv, NEW f \in Image!Frames, Image!processimage(f)
    PROVE  ImageInv'
<1> USE DEF ImageInv
<1>1. /\ pc = "idle" /\ count' \in Nat /\ frame' = f
      /\ UNCHANGED <<bitmap, fault, freed>>
  BY DEF Image!processimage, BufferOK
<1>2. BitmapOK' /\ Image!FaultHasCause'
  <2> fault = "none"
    BY <1>1 DEF Image!TypeOK
  <2> QED
    BY <1>1 DEF BitmapOK, Image!PixelsInPlace, Image!FaultHasCause
<1>3. CASE f.kind = "header"
  <2>1. pc' = "copy" /\ UNCHANGED <<rgb, IMG_WIDTH, IMG_HEIGHT, jpegbuffer,
                                    output_scanline, y>>
    BY <1>3 DEF Image!processimage, Image!bufferVars, Image!rowVars
  <2>2. Image!TypeOK' /\ BufferOK'
    BY <1>1, <1>3, <2>1 DEF Image!TypeOK, BufferOK
  <2>3. RowsOK' /\ RgbInPlace' /\ RowsWritten'
    BY <1>1, <1>3, <2>1 DEF RowsOK, RgbInPlace, RowsWritten
  <2> QED
    BY <1>2, <2>2, <2>3
<1>4. CASE f.kind # "header"
  <2>1. /\ pc' = "rows" /\ Image!Allocate(f)
        /\ jpegbuffer' = [c \in 1..f.width |-> Image!Junk]
        /\ output_scanline' = 0 /\ y' = 0
    BY <1>4 DEF Image!processimage
  <2>2. /\ f.width \in 1..MaxWidth /\ f.height \in 1..MaxHeight
        /\ f.rows \in Nat
        /\ f.width \in Nat /\ f.height \in Nat
    BY FrameFacts, SizesFacts
  <2>3. /\ jpegbuffer' \in Seq(Pixels)
        /\ Len(jpegbuffer') = f.width
    BY <2>1, <2>2, PixelFacts, FcnSeq
  <2>4. /\ IMG_WIDTH' \in 1..MaxWidth /\ IMG_HEIGHT' \in 1..MaxHeight
        /\ rgb' \in Seq(Pixels) /\ rgb' # <<>>
        /\ Len(rgb') = IMG_WIDTH' * IMG_HEIGHT'
        /\ \A i \in 1..Len(rgb') : InPlace(i, rgb'[i], IMG_WIDTH')
    <3>1. CASE rgb = <<>> \/ IMG_WIDTH = -1
      <4> DEFINE n == f.width * f.height
      <4>1. /\ IMG_WIDTH' = f.width /\ IMG_HEIGHT' = f.height
            /\ rgb' = [i \in 1..n |-> Image!Junk]
        BY <2>1, <3>1 DEF Image!Allocate
      <4>2. n \in Nat \ {0}
        BY <2>2, CellWithin
      <4> HIDE DEF n
      <4>3. rgb' \in [1..n -> Pixels]
        BY <4>1, PixelFacts
      <4>4. rgb' \in Seq(Pixels) /\ Len(rgb') = n
        BY <4>2, <4>3, FcnSeq
      <4> QED
        BY <2>2, <4>1, <4>2, <4>4 DEF InPlace, n
    <3>2. CASE ~(rgb = <<>> \/ IMG_WIDTH = -1)
      <4>1. UNCHANGED <<rgb, IMG_WIDTH, IMG_HEIGHT>>
        BY <2>1, <3>2 DEF Image!Allocate, Image!bufferVars
      <4> QED
        BY <1>1, <3>2, <4>1 DEF BufferOK, Image!TypeOK, RgbInPlace
    <3> QED
      BY <3>1, <3>2
  <2>5. Image!TypeOK' /\ BufferOK'
    BY <1>1, <2>1, <2>4, SizesFacts DEF Image!TypeOK, BufferOK
  <2>6. RowsOK' /\ RgbInPlace' /\ RowsWritten'
    <3>1. IMG_WIDTH' \in Nat
      BY <2>4, SizesFacts
    <3>2. y' = output_scanline' * IMG_WIDTH'
      BY <2>1, <3>1, NoCells
    <3>6. output_scanline' <= f.rows /\ y' \in Nat
      BY <2>1, <2>2
    <3>3. RowsOK'
      BY <1>1, <1>4, <2>1, <2>3, <2>4, <3>2, <3>6 DEF RowsOK
    <3>4. RgbInPlace'
      BY <2>1, <2>4 DEF RgbInPlace
    <3>5. RowsWritten'
      BY <2>1, <2>2 DEF RowsWritten
    <3> QED
      BY <3>3, <3>4, <3>5
  <2> QED
    BY <1>2, <2>5, <2>6
<1> QED
  BY <1>3, <1>4

\* A row is written where y is, as wide as the buffer, or it would be outside.
LEMMA WriteRowEffects ==
    ASSUME rgb \in Seq(Pixels), y \in Nat, IMG_WIDTH \in Nat,
           NEW row \in Seq(Pixels), Image!WriteRow(row)
    PROVE  \/ /\ \E c \in 1..Len(row) : c <= IMG_WIDTH /\ y + c > Len(rgb)
              /\ pc' = "dead" /\ fault' = "outside" /\ rgb' = rgb
           \/ /\ \A c \in 1..Len(row) : c <= IMG_WIDTH => y + c <= Len(rgb)
              /\ rgb' \in Seq(Pixels) /\ Len(rgb') = Len(rgb)
              /\ \A c \in 1..Len(row) : c <= IMG_WIDTH => rgb'[y + c] = row[c]
              /\ \A i \in 1..Len(rgb) :
                   \/ i - y \in 1..Len(row) /\ i - y <= IMG_WIDTH
                   \/ rgb'[i] = rgb[i]
              /\ UNCHANGED <<pc, fault>>
<1> DEFINE Columns == {c \in 1..Len(row) : c <= IMG_WIDTH}
<1>1. CASE \E c \in Columns : y + c > Len(rgb)
  BY <1>1 DEF Image!WriteRow, Image!Dies
<1>2. CASE ~ \E c \in Columns : y + c > Len(rgb)
  <2>1. /\ rgb' = [i \in DOMAIN rgb |-> IF i - y \in Columns THEN row[i - y]
                                        ELSE rgb[i]]
        /\ UNCHANGED <<pc, fault>>
    BY <1>2 DEF Image!WriteRow
  <2>2. DOMAIN rgb = 1..Len(rgb) /\ Len(rgb) \in Nat /\ Len(row) \in Nat
    OBVIOUS
  <2>3. \A c \in 1..Len(row) : row[c] \in Pixels
    OBVIOUS
  <2>4. \A i \in 1..Len(rgb) : rgb[i] \in Pixels
    OBVIOUS
  <2>5. rgb' \in [1..Len(rgb) -> Pixels]
    BY <2>1, <2>2, <2>3, <2>4
  <2>6. rgb' \in Seq(Pixels) /\ Len(rgb') = Len(rgb)
    BY <2>2, <2>5, FcnSeq
  <2>7. \A c \in Columns : y + c \in 1..Len(rgb) /\ (y + c) - y = c
    BY <1>2, <2>2
  <2>8. \A c \in Columns : rgb'[y + c] = row[c]
    BY <2>1, <2>2, <2>7
  <2>9. \A i \in 1..Len(rgb) : i - y \in Columns \/ rgb'[i] = rgb[i]
    BY <2>1, <2>2
  <2> QED
    BY <1>2, <2>1, <2>6, <2>7, <2>8, <2>9
<1> QED
  BY <1>1, <1>2

\* One turn of the loop: a row, the end of the data, or the last row again.
LEMMA ReadScanlineInv ==
    ASSUME ImageInv, Image!ReadScanline
    PROVE  ImageInv'
<1> USE DEF ImageInv
<1>1. /\ pc = "rows" /\ output_scanline < frame.height
      /\ UNCHANGED <<count, frame, IMG_WIDTH, IMG_HEIGHT, bitmap, freed>>
  BY DEF Image!ReadScanline
<1>2. /\ frame.width \in 1..MaxWidth /\ frame.height \in 1..MaxHeight
      /\ frame.rows \in 0..MaxHeight /\ frame.rows <= frame.height
      /\ frame.width \in Nat /\ frame.height \in Nat /\ frame.rows \in Nat
      /\ frame.kind = "whole" <=> frame.rows = frame.height
      /\ frame.kind \in {"whole", "header", "data", "cut"}
      /\ frame \in Image!Frames
  BY SizesFacts, FrameFacts DEF Image!TypeOK
<1>3. /\ rgb # <<>> /\ rgb \in Seq(Pixels)
      /\ Len(rgb) = IMG_WIDTH * IMG_HEIGHT
      /\ IMG_WIDTH \in 1..MaxWidth /\ IMG_HEIGHT \in 1..MaxHeight
      /\ IMG_WIDTH \in Nat \ {0} /\ IMG_HEIGHT \in Nat
      /\ jpegbuffer \in Seq(Pixels) /\ Len(jpegbuffer) = frame.width
      /\ y \in Nat /\ output_scanline \in Nat
      /\ output_scanline <= frame.rows
      /\ count \in Nat
  BY <1>1, SizesFacts DEF Image!TypeOK, BufferOK, RowsOK
<1>4. fault = "none"
  BY <1>1 DEF Image!TypeOK
<1>5. BitmapOK'
  BY <1>1 DEF BitmapOK, Image!PixelsInPlace
<1>6. CASE output_scanline < frame.rows
  <2> DEFINE row == [c \in 1..frame.width |->
                       Image!Pixel(count, frame, output_scanline, c - 1)]
             next == output_scanline + 1
  <2>1. /\ jpegbuffer' = row /\ output_scanline' = next
        /\ y' = y + IMG_WIDTH /\ Image!WriteRow(row)
    BY <1>1, <1>6 DEF Image!ReadScanline
  <2>2. /\ row \in Seq(Pixels) /\ Len(row) = frame.width
        /\ \A c \in 1..frame.width :
             row[c] = Image!Pixel(count, frame, output_scanline, c - 1)
    <3>1. \A c \in 1..frame.width :
            Image!Pixel(count, frame, output_scanline, c - 1) \in Pixels
      BY <1>2, <1>3, PixelFacts
    <3>2. row \in [1..frame.width -> Pixels]
      BY <3>1
    <3>3. row \in Seq(Pixels) /\ Len(row) = frame.width
      <4> HIDE DEF row
      <4> QED
        BY <1>2, <3>2, FcnSeq
    <3> QED
      BY <3>3
  <2>3. ~Repeats /\ y = output_scanline * IMG_WIDTH
    BY <1>1, <1>2, <1>3, <1>6 DEF RowsOK, Repeats
  <2>4. y' = next * IMG_WIDTH /\ y' \in Nat
    BY <1>3, <2>1, <2>3
  <2> HIDE DEF row
  <2>5. CASE \E c \in 1..Len(row) : c <= IMG_WIDTH /\ y + c > Len(rgb)
    <3>1. pc' = "dead" /\ fault' = "outside" /\ rgb' = rgb
      BY <1>3, <2>1, <2>2, <2>5, WriteRowEffects
    <3>2. frame.height > IMG_HEIGHT
      <4> SUFFICES ASSUME frame.height <= IMG_HEIGHT PROVE FALSE
        BY <1>2, <1>3
      <4> PICK c \in 1..IMG_WIDTH : y + c > Len(rgb)
        BY <1>2, <1>3, <2>2, <2>5
      <4> y + c \in 1..(IMG_WIDTH * IMG_HEIGHT)
        BY <1>1, <1>2, <1>3, <2>3, CellWithin
      <4> QED
        BY <1>3
    <3>3. Image!TypeOK' /\ BufferOK'
      BY <1>1, <1>2, <1>3, <1>6, <2>1, <3>1, SizesFacts
         DEF Image!TypeOK, BufferOK
    <3>4. RowsOK' /\ RgbInPlace' /\ RowsWritten' /\ Image!FaultHasCause'
      BY <1>1, <3>1, <3>2
         DEF RowsOK, RgbInPlace, RowsWritten, Image!FaultHasCause
    <3> QED
      BY <1>5, <3>3, <3>4
  <2>6. CASE ~ \E c \in 1..Len(row) : c <= IMG_WIDTH /\ y + c > Len(rgb)
    <3>1. /\ \A c \in 1..frame.width :
               c <= IMG_WIDTH => /\ y + c \in 1..Len(rgb)
                                 /\ rgb'[y + c] = row[c]
          /\ rgb' \in Seq(Pixels) /\ Len(rgb') = Len(rgb)
          /\ \A i \in 1..Len(rgb) :
               \/ i - y \in 1..frame.width /\ i - y <= IMG_WIDTH
               \/ rgb'[i] = rgb[i]
          /\ UNCHANGED <<pc, fault>>
      BY <1>2, <1>3, <2>1, <2>2, <2>6, WriteRowEffects
    <3>2. rgb' # <<>>
      BY <1>3, <3>1
    <3>3. Image!TypeOK' /\ BufferOK' /\ Image!FaultHasCause'
      BY <1>1, <1>2, <1>3, <1>4, <1>6, <2>1, <3>1, <3>2, SizesFacts
         DEF Image!TypeOK, BufferOK, Image!FaultHasCause
    <3>4. RowsOK'
      BY <1>1, <1>2, <1>3, <1>6, <2>1, <2>2, <2>4, <3>1, <3>2 DEF RowsOK
    <3>5. ASSUME NEW i \in 1..Len(rgb')
          PROVE  InPlace(i, rgb'[i], IMG_WIDTH)
      <4>1. InPlace(i, rgb[i], IMG_WIDTH)
        BY <1>1, <2>3, <3>1 DEF RgbInPlace
      <4>2. CASE rgb'[i] = rgb[i]
        BY <4>1, <4>2
      <4>3. CASE i - y \in 1..frame.width /\ i - y <= IMG_WIDTH
        <5> DEFINE c == i - y
        <5>1. rgb'[i] = row[c] /\ c \in 1..frame.width /\ i = y + c
          BY <1>3, <3>1, <4>3
        <5>2. row[c] = Image!Pixel(count, frame, output_scanline, c - 1)
          BY <2>2, <5>1
        <5>3. c - 1 + 1 = c /\ i = output_scanline * IMG_WIDTH + c
          BY <2>3, <5>1
        <5> HIDE DEF c
        <5> QED
          BY <5>1, <5>2, <5>3, <1>2, <1>3 DEF InPlace, Image!Pixel
      <4> QED
        BY <3>1, <4>2, <4>3
    <3>6. RgbInPlace'
      BY <1>1, <3>5 DEF RgbInPlace
    <3>7. RowsWritten'
      <4> SUFFICES ASSUME frame.kind = "whole",
                          NEW r \in 0..output_scanline,
                          NEW c \in 0..frame.width - 1,
                          c < IMG_WIDTH
                   PROVE  /\ r * IMG_WIDTH + c + 1 \in 1..Len(rgb')
                          /\ rgb'[r * IMG_WIDTH + c + 1]
                               = Image!Pixel(count, frame, r, c)
        <5> output_scanline' - 1 = output_scanline
          BY <1>3, <2>1
        <5> QED
          BY <1>1 DEF RowsWritten
      <4> DEFINE i == r * IMG_WIDTH + c + 1
      <4>1. c + 1 \in 1..frame.width /\ c + 1 \in 1..IMG_WIDTH /\ c \in Nat
            /\ r \in Nat
        BY <1>2, <1>3
      <4>2. i = r * IMG_WIDTH + (c + 1)
        BY <1>3, <4>1
      <4>3. CASE r = output_scanline
        <5>1. i = y + (c + 1)
          BY <2>3, <4>2, <4>3
        <5>2. i \in 1..Len(rgb') /\ rgb'[i] = row[c + 1]
          BY <3>1, <4>1, <5>1
        <5>3. row[c + 1] = Image!Pixel(count, frame, r, c)
          <6> (c + 1) - 1 = c
            BY <4>1
          <6> QED
            BY <2>2, <4>1, <4>3
        <5> QED
          BY <5>2, <5>3
      <4>4. CASE r # output_scanline
        <5>1. r \in 0..output_scanline - 1 /\ r < output_scanline
          BY <1>3, <4>1, <4>4
        <5>2. i \in 1..Len(rgb) /\ rgb[i] = Image!Pixel(count, frame, r, c)
          BY <1>1, <5>1 DEF RowsWritten
        <5>3. i < y + 1
          <6> 1 \in 1..IMG_WIDTH
            BY <1>3
          <6>1. i < output_scanline * IMG_WIDTH + 1
            BY <1>3, <4>1, <4>2, <5>1, CellsDiffer
          <6> QED
            BY <2>3, <6>1
        <5>4. rgb'[i] = rgb[i]
          <6> i - y < 1
            BY <1>3, <5>2, <5>3
          <6> QED
            BY <3>1, <5>2
        <5> QED
          BY <3>1, <5>2, <5>4
      <4> QED
        BY <4>3, <4>4
    <3> QED
      BY <1>5, <3>3, <3>4, <3>6, <3>7
  <2> QED
    BY <2>5, <2>6
<1>7. CASE output_scanline >= frame.rows /\ frame.kind = "data"
  <2>1. pc' = "copy"
        /\ UNCHANGED <<rgb, jpegbuffer, output_scanline, y, fault>>
    BY <1>2, <1>3, <1>7 DEF Image!ReadScanline, Image!rowVars
  <2>2. Image!TypeOK' /\ BufferOK' /\ Image!FaultHasCause'
    BY <1>1, <1>3, <1>4, <2>1 DEF Image!TypeOK, BufferOK, Image!FaultHasCause
  <2>3. RowsOK' /\ RgbInPlace' /\ RowsWritten'
    BY <1>1, <1>7, <2>1 DEF RowsOK, RgbInPlace, RowsWritten, Repeats
  <2> QED
    BY <1>5, <2>2, <2>3
<1>8. CASE output_scanline >= frame.rows /\ frame.kind # "data"
  <2>1. /\ y' = y + IMG_WIDTH /\ Image!WriteRow(jpegbuffer)
        /\ UNCHANGED <<jpegbuffer, output_scanline>>
    BY <1>2, <1>3, <1>8 DEF Image!ReadScanline
  <2>2. frame.kind = "cut" /\ output_scanline = frame.rows
    <3>1. output_scanline = frame.rows /\ frame.kind # "whole"
      BY <1>1, <1>2, <1>3, <1>8
    <3>2. frame.kind # "header"
      BY <1>1 DEF RowsOK
    <3> QED
      BY <1>2, <1>8, <3>1, <3>2
  <2>3. /\ \/ pc' = "dead" /\ fault' = "outside" /\ rgb' = rgb
           \/ /\ rgb' \in Seq(Pixels) /\ Len(rgb') = Len(rgb)
              /\ UNCHANGED <<pc, fault>>
        /\ y' \in Nat
    BY <1>3, <2>1, WriteRowEffects
  <2>4. rgb' # <<>>
    BY <1>3, <2>3
  <2>5. Image!TypeOK' /\ BufferOK' /\ Image!FaultHasCause'
    BY <1>1, <1>3, <1>4, <2>1, <2>2, <2>3, <2>4
       DEF Image!TypeOK, BufferOK, Image!FaultHasCause
  <2>6. RowsOK' /\ RgbInPlace' /\ RowsWritten'
    BY <1>1, <1>2, <1>3, <2>1, <2>2, <2>3, <2>4
       DEF RowsOK, RgbInPlace, RowsWritten, Repeats
  <2> QED
    BY <1>5, <2>5, <2>6
<1> QED
  BY <1>2, <1>3, <1>6, <1>7, <1>8

\* All rows have come.
LEMMA FinishInv ==
    ASSUME ImageInv, Image!Finish
    PROVE  ImageInv'
<1> USE DEF ImageInv
<1>1. /\ pc = "rows" /\ output_scanline = frame.height /\ pc' = "copy"
      /\ UNCHANGED <<count, frame, rgb, IMG_WIDTH, IMG_HEIGHT, jpegbuffer,
                     output_scanline, y, bitmap, fault, freed>>
  BY DEF Image!Finish, Image!bufferVars, Image!rowVars
<1>2. /\ frame.kind \notin {"cut", "header"} /\ rgb # <<>>
      /\ ~Repeats
  <2>1. /\ frame.rows <= frame.height /\ frame.rows \in Nat
        /\ frame.height \in Nat
        /\ frame.kind = "whole" <=> frame.rows = frame.height
    BY FrameFacts, SizesFacts DEF Image!TypeOK
  <2>2. output_scanline <= frame.rows /\ frame.kind # "header" /\ rgb # <<>>
    BY <1>1 DEF RowsOK
  <2>3. frame.rows = frame.height
    BY <1>1, <2>1, <2>2
  <2> QED
    BY <2>1, <2>2, <2>3 DEF Repeats
<1>3. Image!TypeOK' /\ BufferOK'
  BY <1>1, <1>2 DEF Image!TypeOK, BufferOK
<1>4. RowsOK' /\ RgbInPlace' /\ RowsWritten'
  BY <1>1, <1>2 DEF RowsOK, RgbInPlace, RowsWritten
<1>5. BitmapOK' /\ Image!FaultHasCause'
  BY <1>1 DEF BitmapOK, Image!PixelsInPlace, Image!FaultHasCause
<1> QED
  BY <1>3, <1>4, <1>5

\* The buffer is copied; a whole frame of the bitmap's size is in it.
LEMMA PixeltobmpInv ==
    ASSUME ImageInv, Image!pixeltobmp
    PROVE  /\ ImageInv'
           /\ Image!Copyable /\ pc' = "idle" /\ frame.kind = "whole"
              /\ frame.standard
              /\ frame.width = BitmapWidth /\ frame.height = BitmapHeight =>
              \A r \in 0..BitmapHeight - 1, c \in 0..BitmapWidth - 1 :
                bitmap'[r * BitmapWidth + c + 1]
                  = Image!Pixel(count, frame, r, c)
<1> USE DEF ImageInv
<1>1. /\ pc = "copy"
      /\ UNCHANGED <<count, frame, rgb, IMG_WIDTH, IMG_HEIGHT, jpegbuffer,
                     output_scanline, y, freed>>
  BY DEF Image!pixeltobmp, Image!bufferVars, Image!rowVars
<1>2. \/ /\ Image!Copyable /\ rgb = <<>> /\ UNCHANGED bitmap
         /\ pc' = "dead" /\ fault' = "nullCopy"
      \/ /\ Image!Copyable /\ UNCHANGED bitmap
         /\ pc' = "dead" /\ fault' = "notLocked"
      \/ /\ Image!Copyable /\ rgb # <<>> /\ pc' = "idle" /\ UNCHANGED fault
         /\ bitmap' = [i \in 1..Image!Size |-> IF i \in DOMAIN rgb
                                               THEN rgb[i] ELSE Image!Junk]
      \/ ~Image!Copyable /\ pc' = "idle" /\ UNCHANGED <<bitmap, fault>>
  BY DEF Image!pixeltobmp, Image!Dies
<1>3. fault = "none"
  BY <1>1 DEF Image!TypeOK
<1>4. pc' \in {"idle", "dead"}
      /\ RowsOK' /\ RowsWritten'
  BY <1>1, <1>2 DEF RowsOK, RowsWritten
<1>5. RgbInPlace'
  BY <1>1, <1>4 DEF RgbInPlace
<1>6. BufferOK'
  BY <1>1, <1>4 DEF BufferOK
<1>7. CASE UNCHANGED bitmap /\ ~(Image!Copyable /\ pc' = "idle")
  <2>1. BitmapOK'
    BY <1>7 DEF BitmapOK, Image!PixelsInPlace
  <2>2. Image!FaultHasCause'
    <3> ASSUME Image!Copyable, rgb = <<>>
        PROVE  freed /\ frame.kind = "header"
      <4> IMG_WIDTH # -1
        BY SizesFacts DEF Image!Copyable
      <4> QED
        BY <1>1 DEF BufferOK
    <3> QED
      BY <1>1, <1>2, <1>3 DEF Image!FaultHasCause
  <2>3. Image!TypeOK'
    BY <1>1, <1>2, <1>3, <1>7 DEF Image!TypeOK
  <2> QED
    BY <1>4, <1>5, <1>6, <1>7, <2>1, <2>2, <2>3
<1>8. CASE
        /\ Image!Copyable /\ rgb # <<>> /\ pc' = "idle" /\ UNCHANGED fault
        /\ bitmap' = [i \in 1..Image!Size |-> IF i \in DOMAIN rgb
                                              THEN rgb[i] ELSE Image!Junk]
  <2>1. /\ DOMAIN rgb = 1..Image!Size /\ Len(rgb) = Image!Size
        /\ \A i \in 1..Image!Size : bitmap'[i] = rgb[i] /\ rgb[i] \in Pixels
        /\ IMG_WIDTH = BitmapWidth
        /\ bitmap' \in [1..Image!Size -> Pixels]
    <3>1. /\ rgb \in Seq(Pixels) /\ Len(rgb) = Image!Size
          /\ IMG_WIDTH = BitmapWidth
      BY <1>8 DEF Image!Copyable, Image!TypeOK, BufferOK, Image!Size
    <3>2. DOMAIN rgb = 1..Image!Size
      BY <3>1
    <3>3. \A i \in 1..Image!Size : rgb[i] \in Pixels
      BY <3>1, <3>2
    <3> QED
      BY <1>8, <3>1, <3>2, <3>3
  <2>2. BitmapOK'
    <3>1. \A i \in 1..Image!Size : InPlace(i, rgb[i], BitmapWidth)
      BY <1>1, <2>1 DEF RgbInPlace
    <3> QED
      BY <2>1, <3>1 DEF BitmapOK, Image!PixelsInPlace, InPlace
  <2>3. Image!FaultHasCause' /\ Image!TypeOK'
    BY <1>1, <1>3, <1>8, <2>1 DEF Image!FaultHasCause, Image!TypeOK
  <2>4. ASSUME frame.kind = "whole", frame.width = BitmapWidth,
               frame.height = BitmapHeight,
               NEW r \in 0..BitmapHeight - 1, NEW c \in 0..BitmapWidth - 1
        PROVE  bitmap'[r * BitmapWidth + c + 1]
                 = Image!Pixel(count, frame, r, c)
    <3>1. r \in 0..output_scanline - 1
      BY <1>1, <2>4 DEF RowsOK
    <3>2. c < IMG_WIDTH /\ c \in 0..frame.width - 1
      BY <2>1, <2>4, SizesFacts
    <3>3. /\ r * BitmapWidth + c + 1 \in 1..Len(rgb)
          /\ rgb[r * BitmapWidth + c + 1] = Image!Pixel(count, frame, r, c)
      BY <1>1, <2>1, <2>4, <3>1, <3>2 DEF RowsWritten
    <3> QED
      BY <2>1, <3>3
  <2> QED
    BY <1>4, <1>5, <1>6, <2>2, <2>3, <2>4
<1> QED
  BY <1>2, <1>7, <1>8

\* The buffer is freed, and its sizes stay.
LEMMA FreeCameraMemoryInv ==
    ASSUME ImageInv, Image!freeCameraMemory
    PROVE  ImageInv'
<1> USE DEF ImageInv
<1>1. /\ pc = "idle" /\ rgb' = <<>> /\ freed' = TRUE
      /\ UNCHANGED <<pc, count, frame, IMG_WIDTH, IMG_HEIGHT, jpegbuffer,
                     output_scanline, y, bitmap, fault>>
  BY DEF Image!freeCameraMemory, Image!rowVars
<1>2. rgb' \in Seq(Pixels) /\ Len(rgb') = 0
  BY <1>1
<1>3. Image!TypeOK'
  BY <1>1 DEF Image!TypeOK
<1>4. BufferOK'
  BY <1>1, <1>2 DEF BufferOK
<1>5. RowsOK' /\ RgbInPlace' /\ RowsWritten'
  BY <1>1, <1>2 DEF RowsOK, RgbInPlace, RowsWritten
<1>6. BitmapOK' /\ Image!FaultHasCause'
  <2> fault = "none"
    BY <1>1 DEF Image!TypeOK
  <2> QED
    BY <1>1 DEF BitmapOK, Image!PixelsInPlace, Image!FaultHasCause
<1> QED
  BY <1>3, <1>4, <1>5, <1>6

\* Every step of a frame keeps the pixels in place.
LEMMA StepImageInv == ImageInv /\ [Image!Next]_(Image!vars) => ImageInv'
<1>1. ASSUME ImageInv, UNCHANGED Image!vars
      PROVE  ImageInv'
  <2> UNCHANGED <<pc, count, frame, rgb, IMG_WIDTH, IMG_HEIGHT, jpegbuffer,
                  output_scanline, y, bitmap, fault, freed>>
    BY <1>1 DEF Image!vars, Image!bufferVars, Image!rowVars
  <2> QED
    BY <1>1
       DEF ImageInv, Image!TypeOK, BufferOK, RowsOK, RgbInPlace, RowsWritten,
           Repeats, BitmapOK, Image!PixelsInPlace, Image!FaultHasCause
<1> QED
  BY <1>1, ProcessimageInv, ReadScanlineInv, FinishInv, PixeltobmpInv,
     FreeCameraMemoryInv
     DEF Image!Next, Image!Done

\* No pixel is ever out of its place, whatever sizes frames have and wherever
\* they are damaged; and the process dies of a frame only if it is cut short
\* or too high, or damaged after a free.
THEOREM PixelsStay ==
    Image!Spec => [](/\ Image!TypeOK /\ Image!PixelsInPlace
                     /\ Image!FaultHasCause)
<1>1. ImageInv =>
        Image!TypeOK /\ Image!PixelsInPlace /\ Image!FaultHasCause
  BY DEF ImageInv, BitmapOK
<1> QED
  BY <1>1, InitImageInv, StepImageInv, PTL DEF Image!Spec

\* A whole frame of the bitmap's size is shown as it is.
THEOREM ShowsFrame == Image!Spec => Image!BitmapShowsFrame
<1>1. ImageInv /\ [Image!Next]_(Image!vars) =>
        [Image!pixeltobmp /\ Image!Copyable /\ pc' = "idle"
           /\ frame.kind = "whole" /\ frame.standard
           /\ frame.width = BitmapWidth /\ frame.height = BitmapHeight =>
           \A r \in 0..BitmapHeight - 1, c \in 0..BitmapWidth - 1 :
             bitmap'[r * BitmapWidth + c + 1]
               = Image!Pixel(count, frame, r, c)]_(Image!vars)
  BY PixeltobmpInv
<1> QED
  BY <1>1, InitImageInv, StepImageInv, PTL
     DEF Image!Spec, Image!BitmapShowsFrame

-----------------------------------------------------------------------------
(* ReadResponse.                                                           *)

ScanStates ==
    {p \in [depth : Nat, string : BOOLEAN, escaped : BOOLEAN] :
       p.escaped => p.string}

\* The braces.
Opens  == "{"
Closes == "}"

\* The braces are two of the characters.
LEMMA CharsFacts ==
    /\ Response!Chars = {Opens, Closes, "quote", "backslash", "other"}
    /\ Opens \notin {Closes, "quote", "backslash", "other", Response!EOF}
    /\ Closes \notin {"quote", "backslash", "other", Response!EOF}
BY DEF Response!Chars, Opens, Closes, Response!EOF

\* The state of a scan after a character, from the one before it.
ScanStep(p, c) ==
    CASE p.escaped -> [p EXCEPT !.escaped = FALSE]
      [] ~p.escaped /\ p.string /\ c = "backslash" ->
           [p EXCEPT !.escaped = TRUE]
      [] ~p.escaped /\ c = "quote" -> [p EXCEPT !.string = ~@]
      [] ~p.escaped /\ ~p.string /\ c = Opens -> [p EXCEPT !.depth = @ + 1]
      [] ~p.escaped /\ ~p.string /\ c = Closes /\ p.depth > 0 ->
           [p EXCEPT !.depth = @ - 1]
      [] OTHER -> p

ScanStart == [depth |-> 0, string |-> FALSE, escaped |-> FALSE]

\* The scan of a text exists: it begins with ScanStart and goes on with
\* ScanStep, by induction on the length.
LEMMA ScanDef ==
    ASSUME NEW s, Len(s) \in Nat
    PROVE  /\ Response!Scan(s)[0] = ScanStart
           /\ \A n \in 1..Len(s) : Response!Scan(s)[n] =
                                     ScanStep(Response!Scan(s)[n - 1], s[n])
<1> DEFINE At(f, n) == IF n = 0 THEN ScanStart ELSE ScanStep(f[n - 1], s[n])
           Ok == {k \in Nat : \E f : f = [n \in 0..k |-> At(f, n)]}
<1>1. 0 \in Ok
  <2> DEFINE f == [n \in 0..0 |-> ScanStart]
  <2> f = [n \in 0..0 |-> At(f, n)]
    OBVIOUS
  <2> QED
    OBVIOUS
<1>2. ASSUME NEW k \in Ok PROVE k + 1 \in Ok
  <2>1. PICK f : f = [n \in 0..k |-> At(f, n)]
    OBVIOUS
  <2> k \in Nat
    OBVIOUS
  <2> DEFINE g == [n \in 0..k + 1 |-> IF n <= k THEN f[n] ELSE At(f, n)]
  <2>2. ASSUME NEW n \in 0..k + 1 PROVE g[n] = At(g, n)
    <3>1. CASE n = 0
      BY <3>1, <2>1
    <3>2. CASE n # 0
      <4>1. n - 1 \in 0..k /\ g[n - 1] = f[n - 1]
        BY <3>2
      <4>2. At(g, n) = At(f, n)
        BY <4>1
      <4>3. n <= k => f[n] = At(f, n)
        BY <2>1
      <4> QED
        BY <4>2, <4>3
    <3> QED
      BY <3>1, <3>2
  <2>3. g = [n \in 0..k + 1 |-> At(g, n)]
    BY <2>2
  <2> HIDE DEF g, At
  <2> QED
    BY <2>3
<1>3. Len(s) \in Ok
  <2> HIDE DEF Ok
  <2> QED
    BY <1>1, <1>2, NatSetInduction
<1>4. Response!Scan(s) = [n \in 0..Len(s) |-> At(Response!Scan(s), n)]
  BY <1>3 DEF Response!Scan, ScanStart, ScanStep, Opens, Closes
<1>5. Response!Scan(s)[0] = ScanStart
  BY <1>4
<1>6. ASSUME NEW n \in 1..Len(s)
      PROVE  Response!Scan(s)[n] = ScanStep(Response!Scan(s)[n - 1], s[n])
  BY <1>4
<1> QED
  BY <1>5, <1>6

\* What a character does to the depth, where braces are outside of strings and
\* no more of them close than open.
LEMMA ScanStepFacts ==
    ASSUME NEW p \in ScanStates, NEW c \in Response!Chars,
           c \in {Opens, Closes} => ~p.string,
           c = Closes => p.depth > 0
    PROVE  /\ ScanStep(p, c) \in ScanStates
           /\ ScanStep(p, c).depth = CASE c = Opens  -> p.depth + 1
                                      [] c = Closes -> p.depth - 1
                                      [] OTHER      -> p.depth
           /\ c \in {Opens, Closes} => ~ScanStep(p, c).string
<1> DEFINE q == ScanStep(p, c)
<1>1. p.depth \in Nat /\ (p.escaped => p.string)
  BY DEF ScanStates
<1>2. CASE p.escaped
  <2>1. q = [p EXCEPT !.escaped = FALSE]
    BY <1>2, Zenon DEF ScanStep
  <2>2. c \notin {Opens, Closes}
    BY <1>1, <1>2
  <2> QED
    BY <2>1, <2>2, CharsFacts DEF ScanStates
<1>3. CASE ~p.escaped /\ p.string /\ c = "backslash"
  <2>1. q = [p EXCEPT !.escaped = TRUE] /\ c \notin {Opens, Closes}
    BY <1>3, CharsFacts DEF ScanStep
  <2> QED
    BY <1>3, <2>1, CharsFacts DEF ScanStates
<1>4. CASE ~p.escaped /\ c = "quote"
  <2>1. q = [p EXCEPT !.string = ~@] /\ c \notin {Opens, Closes}
    BY <1>4, CharsFacts DEF ScanStep
  <2> QED
    BY <1>4, <2>1, CharsFacts DEF ScanStates
<1>5. CASE ~p.escaped /\ c = Opens
  <2>1. q = [p EXCEPT !.depth = @ + 1] /\ ~p.string
    BY <1>5, CharsFacts DEF ScanStep
  <2> QED
    BY <1>1, <1>5, <2>1, CharsFacts DEF ScanStates
<1>6. CASE ~p.escaped /\ c = Closes
  <2>1. q = [p EXCEPT !.depth = @ - 1] /\ ~p.string
    BY <1>6, CharsFacts DEF ScanStep
  <2> QED
    BY <1>1, <1>6, <2>1, CharsFacts DEF ScanStates
<1>7. CASE ~p.escaped /\ c \notin {Opens, Closes, "quote"}
           /\ ~(p.string /\ c = "backslash")
  <2>1. q = p
    BY <1>7 DEF ScanStep
  <2> QED
    BY <1>1, <1>7, <2>1
<1> QED
  BY <1>1, <1>2, <1>3, <1>4, <1>5, <1>6, <1>7

\* The text's beginnings that are objects without braces in their strings.
Object(n) ==
    LET object == SubSeq(text, 1, n)
    IN  Response!IsObject(object) /\ Response!PlainStrings(object)

\* Where an object is read, the count is the depth of its scan and what is
\* kept is what has been read, until its last brace.
ReadsObject(n) ==
    LET object == SubSeq(text, 1, n)
        here == Response!Scan(object)[read]
    IN  /\ reading = "first" => read = 0
        /\ reading = "loop" => /\ read < n
                               /\ sb = SubSeq(text, 1, read)
                               /\ here \in ScanStates
                               /\ braceCount = here.depth
        /\ reading = "done" => read = n /\ sb = object

\* The count is how many more braces have opened than closed, which is none
\* when the loop ends by it.
CountsBraces ==
    reading = "loop" =>
        /\ text[1] = Opens /\ sb = SubSeq(text, 1, read)
        /\ Response!Occurrences(Opens, read)
             = Response!Occurrences(Closes, read) + braceCount
        /\ \A n \in 1..read : ~Response!Even(n)

ResponseInv ==
    /\ Response!TypeOK
    /\ text \in Seq(Response!Chars)
    /\ closes \in BOOLEAN
    /\ reading = "first" => sb = <<>> /\ read = 0 /\ braceCount = 0
    /\ reading = "loop" => read >= 1 /\ braceCount >= 1
    /\ \A n \in 1..Len(text) : Object(n) => ReadsObject(n)
    /\ CountsBraces /\ Response!EndsWithEvenBraces

\* How often a character occurs in the beginnings of the text.
LEMMA OccurrencesFacts ==
    ASSUME NEW c, NEW n \in Nat
    PROVE  /\ Response!Occurrences(c, 0) = 0
           /\ Response!Occurrences(c, n) \in Nat
           /\ Response!Occurrences(c, n + 1)
                = Response!Occurrences(c, n)
                    + (IF text[n + 1] = c THEN 1 ELSE 0)
<1> DEFINE Places(k) == {i \in 1..k : text[i] = c}
<1>1. ASSUME NEW k \in Nat
      PROVE  /\ Response!Occurrences(c, k) = Cardinality(Places(k))
             /\ IsFiniteSet(Places(k)) /\ Cardinality(Places(k)) \in Nat
  <2>1. Response!Occurrences(c, k) = Cardinality(Places(k))
    BY Zenon DEF Response!Occurrences, Response!Cardinality, Cardinality
  <2>2. IsFiniteSet(1..k)
    BY FS_Interval
  <2>3. Places(k) \in SUBSET (1..k)
    OBVIOUS
  <2> HIDE DEF Places
  <2>4. IsFiniteSet(Places(k))
    BY <2>2, <2>3, FS_Subset
  <2> QED
    BY <2>1, <2>4, FS_CardinalityType
<1>2. Places(0) = {}
  OBVIOUS
<1>3. /\ n + 1 \in Nat /\ n + 1 \notin Places(n)
      /\ text[n + 1] = c => Places(n + 1) = Places(n) \cup {n + 1}
      /\ text[n + 1] # c => Places(n + 1) = Places(n)
  OBVIOUS
<1> HIDE DEF Places
<1>4. Cardinality(Places(0)) = 0
  BY <1>2, FS_EmptySet
<1>6. Cardinality(Places(n) \cup {n + 1}) = Cardinality(Places(n)) + 1
  BY <1>1, <1>3, FS_AddElement
<1>7. 0 \in Nat
  OBVIOUS
<1> QED
  BY <1>1, <1>3, <1>4, <1>6, <1>7

\* A sum is its first number if the second is none.
LEMMA DifferenceOfSums ==
    ASSUME NEW o, NEW k \in Nat, NEW b \in Nat, o = k + b
    PROVE  (o = k) <=> (b = 0)
OBVIOUS

\* When they are even.
LEMMA EvenFacts ==
    ASSUME NEW n
    PROVE  Response!Even(n) <=> Response!Occurrences(Opens, n)
                                  = Response!Occurrences(Closes, n)
BY DEF Response!Even, Opens, Closes

\* The beginning of the text that ends at n.
LEMMA BeginningFacts ==
    ASSUME NEW S, NEW s \in Seq(S), NEW n \in 0..Len(s)
    PROVE  /\ SubSeq(s, 1, n) \in Seq(S)
           /\ Len(SubSeq(s, 1, n)) = n
           /\ \A i \in 1..n : SubSeq(s, 1, n)[i] = s[i]
BY SubSeqProperties

\* The beginning that is all of it.
LEMMA WholeBeginning ==
    ASSUME NEW S, NEW s \in Seq(S)
    PROVE  SubSeq(s, 1, Len(s)) = s
<1> DEFINE a == SubSeq(s, 1, Len(s))
<1>1. a \in Seq(S) /\ Len(a) = Len(s) /\ \A i \in 1..Len(s) : a[i] = s[i]
  <2> Len(s) \in 0..Len(s)
    OBVIOUS
  <2> HIDE DEF a
  <2> QED
    BY BeginningFacts DEF a
<1> HIDE DEF a
<1>2. a = s
  BY <1>1, SeqEqual
<1> QED
  BY <1>2 DEF a

\* One character more.
LEMMA BeginningAppend ==
    ASSUME NEW S, NEW s \in Seq(S), NEW n \in 0..(Len(s) - 1)
    PROVE  SubSeq(s, 1, n + 1) = Append(SubSeq(s, 1, n), s[n + 1])
<1> DEFINE a == SubSeq(s, 1, n + 1)
           b == SubSeq(s, 1, n)
           c == Append(b, s[n + 1])
<1>1. /\ a \in Seq(S) /\ Len(a) = n + 1
      /\ \A i \in 1..(n + 1) : a[i] = s[i]
  <2> n + 1 \in 0..Len(s)
    OBVIOUS
  <2> HIDE DEF a
  <2> QED
    BY BeginningFacts DEF a
<1>2. /\ b \in Seq(S) /\ Len(b) = n /\ \A i \in 1..n : b[i] = s[i]
  <2> n \in 0..Len(s)
    OBVIOUS
  <2> HIDE DEF b
  <2> QED
    BY BeginningFacts DEF b
<1> HIDE DEF a, b
<1>3. s[n + 1] \in S
  OBVIOUS
<1>4. /\ c \in Seq(S) /\ Len(c) = n + 1
      /\ \A i \in 1..n : c[i] = b[i]
      /\ c[n + 1] = s[n + 1]
  BY <1>2, <1>3, AppendProperties
<1> HIDE DEF c
<1>5. \A i \in 1..(n + 1) : a[i] = c[i]
  BY <1>1, <1>2, <1>4
<1>6. a = c
  BY <1>1, <1>4, <1>5, SeqEqual
<1> QED
  BY <1>6 DEF a, c, b

\* The beginning of one character.
LEMMA FirstOfText ==
    ASSUME text \in Seq(Response!Chars), Len(text) >= 1, text[1] = Opens
    PROVE  SubSeq(text, 1, 1) = <<Opens>>
<1> DEFINE a == SubSeq(text, 1, 1)
<1>1. a \in Seq(Response!Chars) /\ Len(a) = 1 /\ a[1] = text[1]
  <2> 1 \in 0..Len(text)
    OBVIOUS
  <2> HIDE DEF a
  <2> QED
    BY BeginningFacts DEF a
<1> HIDE DEF a
<1>2. <<Opens>> \in Seq(Response!Chars) /\ Len(<<Opens>>) = 1
  BY CharsFacts
<1>3. \A i \in 1..1 : a[i] = <<Opens>>[i]
  BY <1>1
<1>4. a = <<Opens>>
  BY <1>1, <1>2, <1>3, SeqEqual
<1> QED
  BY <1>4 DEF a

\* The first brace of an object.
LEMMA FirstBrace ==
    ASSUME text \in Seq(Response!Chars), NEW n \in 1..Len(text), Object(n)
    PROVE  /\ text[1] = Opens
           /\ SubSeq(text, 1, 1) = <<Opens>>
           /\ Response!Scan(SubSeq(text, 1, n))[1] \in ScanStates
           /\ Response!Scan(SubSeq(text, 1, n))[1].depth = 1
           /\ n # 1
<1> DEFINE s == SubSeq(text, 1, n)
<1>1. /\ Len(s) = n /\ \A i \in 1..n : s[i] = text[i]
  <2> n \in 0..Len(text)
    OBVIOUS
  <2> HIDE DEF s
  <2> QED
    BY BeginningFacts DEF s
<1>2. Response!IsObject(s)
  BY DEF Object
<1> HIDE DEF s
<1>0. n \in Nat /\ n >= 1 /\ 1 \in 1..n
  OBVIOUS
<1>3. s[1] = Opens
  BY <1>2 DEF Response!IsObject, Opens
<1>4. Response!Scan(s)[1] \in ScanStates /\ Response!Scan(s)[1].depth = 1
  <2>1. /\ Response!Scan(s)[0] = ScanStart
        /\ Response!Scan(s)[1] = ScanStep(Response!Scan(s)[0], s[1])
    <3> 1 - 1 = 0
      OBVIOUS
    <3> QED
      BY <1>0, <1>1, ScanDef
  <2>2. ScanStart \in ScanStates /\ ScanStart.depth = 0 /\ ~ScanStart.string
    BY DEF ScanStart, ScanStates
  <2> QED
    BY <1>3, <2>1, <2>2, CharsFacts, ScanStepFacts
<1>5. n # 1
  <2> n \in {m \in 1..Len(s) :
              Response!Scan(s)[m].depth = 0 /\ ~Response!Scan(s)[m].string}
    BY <1>0, <1>1, <1>2 DEF Response!IsObject
  <2> QED
    BY <1>4
<1>7. text[1] = Opens
  BY <1>0, <1>1, <1>3
<1>6. SubSeq(text, 1, 1) = <<Opens>>
  BY <1>7, FirstOfText
<1> QED
  BY <1>4, <1>5, <1>6, <1>7 DEF s

\* Within an object, a character changes the count as it changes the depth,
\* and the depth is 0 after the last one only.
LEMMA NextOfObject ==
    ASSUME text \in Seq(Response!Chars), NEW n \in 1..Len(text), Object(n),
           NEW m \in 1..(n - 1),
           Response!Scan(SubSeq(text, 1, n))[m] \in ScanStates,
           Response!Scan(SubSeq(text, 1, n))[m].depth >= 1
    PROVE  LET p == Response!Scan(SubSeq(text, 1, n))[m]
               q == Response!Scan(SubSeq(text, 1, n))[m + 1]
               c == text[m + 1]
           IN  /\ q \in ScanStates
               /\ q.depth = CASE c = Opens -> p.depth + 1
                              [] c = Closes -> p.depth - 1
                              [] OTHER   -> p.depth
               /\ (q.depth = 0) <=> (m + 1 = n)
<1> DEFINE s == SubSeq(text, 1, n)
           p == Response!Scan(s)[m]
           q == Response!Scan(s)[m + 1]
           c == text[m + 1]
<1>1. /\ s \in Seq(Response!Chars)
      /\ Len(s) = n /\ \A i \in 1..n : s[i] = text[i]
  <2> n \in 0..Len(text)
    OBVIOUS
  <2> HIDE DEF s
  <2> QED
    BY BeginningFacts DEF s
<1>2. Response!IsObject(s) /\ Response!PlainStrings(s)
  BY DEF Object
<1>3. p \in ScanStates /\ p.depth >= 1
  OBVIOUS
<1> HIDE DEF s
<1>4. m + 1 \in 1..n /\ (m + 1) - 1 = m /\ m \in Nat /\ n \in Nat
  OBVIOUS
<1>5. q = ScanStep(p, c)
  BY <1>1, <1>4, ScanDef
<1>6. c \in {Opens, Closes} => ~p.string
  BY <1>1, <1>2, <1>4 DEF Response!PlainStrings, Opens, Closes
<1>7. q.depth = 0 /\ ~q.string <=> m + 1 = n
  <2> {k \in 1..n : Response!Scan(s)[k].depth = 0
                      /\ ~Response!Scan(s)[k].string} = {n}
    BY <1>1, <1>2 DEF Response!IsObject
  <2> QED
    BY <1>4
<1>8. c \in Response!Chars
  BY <1>4
<1> HIDE DEF p, q, c
<1>11. c = Closes => p.depth > 0
  BY <1>3 DEF ScanStates
<1>9. /\ q \in ScanStates
      /\ q.depth = CASE c = Opens -> p.depth + 1
                     [] c = Closes -> p.depth - 1
                     [] OTHER   -> p.depth
      /\ c \in {Opens, Closes} => ~q.string
  BY <1>3, <1>5, <1>6, <1>8, <1>11, ScanStepFacts
<1>10. q.depth = 0 => ~q.string
  BY <1>3, <1>9 DEF ScanStates
<1> QED
  BY <1>7, <1>9, <1>10 DEF p, q, c, s

\* Nothing has been read.
LEMMA InitResponseInv == Response!Init => ResponseInv
<1> SUFFICES ASSUME Response!Init PROVE ResponseInv
  OBVIOUS
<1> USE DEF Response!Init
<1>1. text \in Seq(Response!Chars)
  <2>1. PICK n \in 0..MaxLength : text \in [1..n -> Response!Chars]
    OBVIOUS
  <2> QED
    BY <2>1, FcnSeq
<1>2. Response!TypeOK
  BY <1>1 DEF Response!TypeOK
<1> QED
  BY <1>1, <1>2 DEF ResponseInv, ReadsObject, CountsBraces,
                    Response!EndsWithEvenBraces

\* The connection goes on while an object is not complete.
LEMMA MoreOfObject ==
    ASSUME ResponseInv, reading \in {"first", "loop"},
           NEW n \in 1..Len(text), Object(n)
    PROVE  /\ read < n /\ n <= Len(text) /\ Response!More
           /\ read \in Nat /\ n \in Nat /\ Len(text) \in Nat
<1>1. read \in Nat /\ n \in Nat /\ Len(text) \in Nat /\ n <= Len(text) /\ n >= 1
  BY DEF ResponseInv, Response!TypeOK
<1>2. read < n
  BY <1>1 DEF ResponseInv, ReadsObject, Response!TypeOK
<1> QED
  BY <1>1, <1>2 DEF Response!More

\* A connection that is silent ends the call, with no whole object read.
LEMMA TimeoutInv == ResponseInv /\ Response!Timeout => ResponseInv'
<1> SUFFICES ASSUME ResponseInv, Response!Timeout PROVE ResponseInv'
  OBVIOUS
<1>1. /\ reading \in {"first", "loop"} /\ reading' = "done"
      /\ ~Response!More /\ ~closes
      /\ UNCHANGED <<text, closes, read, sb, braceCount>>
  BY DEF Response!Timeout, Response!TimesOut
<1>2. \A n \in 1..Len(text) : ~Object(n)
  BY <1>1, MoreOfObject
<1>3. \A n \in 1..Len(text) : ~Object(n)'
  BY <1>1, <1>2 DEF Object
<1>4. Response!TypeOK'
  BY <1>1 DEF ResponseInv, Response!TypeOK
<1>5. CountsBraces'
  BY <1>1 DEF CountsBraces
<1>6. ASSUME read > 0 PROVE Response!EndsWithEvenBraces'
  <2>1. /\ reading = "loop" /\ read = Len(text) /\ read \in Nat
        /\ text \in Seq(Response!Chars)
    BY <1>1, <1>6 DEF ResponseInv, Response!TypeOK, Response!More
  <2>2. /\ sb = SubSeq(text, 1, read)
        /\ \A n \in 1..read : ~Response!Even(n)
    BY <2>1 DEF ResponseInv, CountsBraces
  <2>3. SubSeq(text, 1, read) = text
    BY <2>1, WholeBeginning
  <2>4. /\ \A n : Response!Even(n)' <=> Response!Even(n)
        /\ Response!Even(read)' <=> Response!Even(read)
    BY <1>1 DEF Response!Even, Response!Occurrences
  <2>5. /\ \A n \in 1..read - 1 : ~Response!Even(n)'
        /\ ~Response!Even(read)'
    BY <1>6, <2>1, <2>2, <2>4
  <2>6. \A n \in 1..read' - 1 : ~Response!Even(n)'
    BY <1>1, <2>5
  <2>7. /\ read' = Len(text') /\ ~closes' /\ sb' = text'
    BY <1>1, <2>1, <2>2, <2>3
  <2> QED
    BY <2>5, <2>6, <2>7 DEF Response!EndsWithEvenBraces
<1>7. ASSUME ~ (read > 0) PROVE Response!EndsWithEvenBraces'
  BY <1>1, <1>7 DEF Response!EndsWithEvenBraces
<1> QED
  BY <1>1, <1>3, <1>4, <1>5, <1>6, <1>7 DEF ResponseInv

\* A connection that breaks off ends the call with nothing.
LEMMA BreakInv == ResponseInv /\ Response!Break => ResponseInv'
<1> SUFFICES ASSUME ResponseInv, Response!Break PROVE ResponseInv'
  OBVIOUS
<1>1. /\ reading' = "failed"
      /\ UNCHANGED <<text, closes, read, sb, braceCount>>
  BY DEF Response!Break
<1>2. Response!TypeOK'
  BY <1>1 DEF ResponseInv, Response!TypeOK
<1>3. \A n : ReadsObject(n)'
  BY <1>1 DEF ReadsObject
<1>4. CountsBraces' /\ Response!EndsWithEvenBraces'
  BY <1>1 DEF CountsBraces, Response!EndsWithEvenBraces
<1> QED
  BY <1>1, <1>2, <1>3, <1>4 DEF ResponseInv

\* The first character: the brace of an object, if one is sent.
LEMMA ReadFirstInv == ResponseInv /\ Response!ReadFirst => ResponseInv'
<1> SUFFICES ASSUME ResponseInv, Response!ReadFirst PROVE ResponseInv'
  OBVIOUS
<1>1. /\ reading = "first" /\ read = 0 /\ sb = <<>> /\ braceCount = 0
      /\ text \in Seq(Response!Chars) /\ closes \in BOOLEAN
      /\ Len(text) \in Nat
  <2> reading = "first"
    BY DEF Response!ReadFirst
  <2> QED
    BY DEF ResponseInv
<1>2. /\ read' = IF Response!More THEN read + 1 ELSE read
      /\ UNCHANGED <<text, closes>>
  BY DEF Response!ReadFirst, Response!Consume
<1>3. CASE Response!Next1 = Opens
  <2>1. sb' = <<Opens>> /\ braceCount' = 1 /\ reading' = "loop"
    BY <1>3 DEF Response!ReadFirst, Opens
  <2>2. Response!More /\ read' = 1 /\ Len(text) >= 1
    BY <1>1, <1>2, <1>3, CharsFacts DEF Response!Next1, Response!More
  <2>3. Response!TypeOK'
    BY <1>1, <1>2, <2>1, <2>2, CharsFacts DEF Response!TypeOK
  <2>4. ASSUME NEW n \in 1..Len(text), Object(n)
        PROVE  ReadsObject(n)'
    <3>1. /\ SubSeq(text, 1, 1) = <<Opens>> /\ n # 1
          /\ Response!Scan(SubSeq(text, 1, n))[1] \in ScanStates
          /\ Response!Scan(SubSeq(text, 1, n))[1].depth = 1
      BY <1>1, <2>4, FirstBrace
    <3>2. SubSeq(text', 1, n) = SubSeq(text, 1, n) /\ 1 < n
      BY <1>1, <1>2, <3>1
    <3> QED
      BY <1>2, <2>1, <2>2, <3>1, <3>2 DEF ReadsObject
  <2>5. \A n \in 1..Len(text) : Object(n)' => Object(n)
    BY <1>2 DEF Object
  <2>6. CountsBraces'
    <3>1. text[1] = Opens /\ text' = text
      BY <1>1, <1>2, <1>3, <2>2 DEF Response!Next1
    <3>2. SubSeq(text, 1, 1) = <<Opens>>
      BY <1>1, <2>2, <3>1, FirstOfText
    <3>3. /\ Response!Occurrences(Opens, 1) = 1
          /\ Response!Occurrences(Closes, 1) = 0
      <4> 0 \in Nat /\ 0 + 1 = 1 /\ Opens # Closes
        BY CharsFacts
      <4> QED
        BY <3>1, OccurrencesFacts
    <3>4. ~Response!Even(1)
      BY <3>3, EvenFacts
    <3>5. /\ Response!Occurrences(Opens, read)' = 1
          /\ Response!Occurrences(Closes, read)' = 0
          /\ \A n : Response!Even(n)' <=> Response!Even(n)
      BY <2>2, <3>1, <3>3 DEF Response!Even, Response!Occurrences, Opens,
                              Closes
    <3>6. \A n \in 1..read' : ~Response!Even(n)'
      BY <2>2, <3>4, <3>5
    <3>7. /\ text'[1] = Opens /\ sb' = SubSeq(text', 1, read')
          /\ Response!Occurrences(Opens, read)'
               = Response!Occurrences(Closes, read)' + braceCount'
      BY <2>1, <2>2, <3>1, <3>2, <3>5
    <3> QED
      BY <3>6, <3>7 DEF CountsBraces
  <2>7. Response!EndsWithEvenBraces'
    BY <2>1 DEF Response!EndsWithEvenBraces
  <2> QED
    BY <1>1, <1>2, <2>1, <2>2, <2>3, <2>4, <2>5, <2>6, <2>7 DEF ResponseInv
<1>4. CASE Response!Next1 # Opens
  <2>1. reading' = "done" /\ UNCHANGED <<sb, braceCount>>
    BY <1>4 DEF Response!ReadFirst, Opens
  <2>2. read' \in 0..Len(text)
    BY <1>1, <1>2 DEF Response!More
  <2>3. Response!TypeOK'
    BY <1>1, <1>2, <2>1, <2>2 DEF Response!TypeOK
  <2>4. ASSUME NEW n \in 1..Len(text), Object(n)
        PROVE  FALSE
    <3>1. text[1] = Opens /\ Len(text) >= 1
      BY <1>1, <2>4, FirstBrace
    <3> QED
      BY <1>1, <1>4, <3>1 DEF Response!Next1, Response!More
  <2>5. \A n \in 1..Len(text) : Object(n)' => Object(n)
    BY <1>2 DEF Object
  <2>6. CountsBraces'
    BY <2>1 DEF CountsBraces
  <2>7. Response!EndsWithEvenBraces'
    <3>1. read' > 0 => text'[1] # Opens
      BY <1>1, <1>2, <1>4 DEF Response!Next1, Response!More
    <3> QED
      BY <3>1 DEF Response!EndsWithEvenBraces, Opens
  <2> QED
    BY <1>1, <1>2, <2>1, <2>3, <2>4, <2>5, <2>6, <2>7 DEF ResponseInv
<1> QED
  BY <1>3, <1>4

\* The next character; that of depth 0 ends the object and the call.
LEMMA ReadNextInv == ResponseInv /\ Response!ReadNext => ResponseInv'
<1> SUFFICES ASSUME ResponseInv, Response!ReadNext PROVE ResponseInv'
  OBVIOUS
<1> DEFINE c == Response!Next1
<1>1. /\ reading = "loop" /\ read \in Nat /\ read >= 1 /\ read <= Len(text)
      /\ text \in Seq(Response!Chars) /\ closes \in BOOLEAN
      /\ Len(text) \in Nat
      /\ braceCount \in Nat /\ braceCount >= 1 /\ braceCount <= read
      /\ sb \in Seq(Response!Chars \cup {Response!EOF})
  BY DEF ResponseInv, Response!ReadNext, Response!TypeOK
<1>2. /\ read' = IF Response!More THEN read + 1 ELSE read
      /\ sb' = Append(sb, c)
      /\ UNCHANGED <<text, closes>>
  BY DEF Response!ReadNext, Response!Consume
<1>3. braceCount' = CASE c = Opens  -> braceCount + 1
                      [] c = Closes -> braceCount - 1
                      [] OTHER      -> braceCount
  BY DEF Response!ReadNext, Response!Count, Opens, Closes
<1>4. reading' = IF c = Response!EOF \/ braceCount' = 0 THEN "done" ELSE "loop"
  BY DEF Response!ReadNext, Response!Ends
<1>5. /\ c \in Response!Chars \cup {Response!EOF}
      /\ Response!More => c = text[read + 1] /\ c \in Response!Chars
      /\ ~Response!More => c = Response!EOF
  <2> Response!More => read + 1 \in 1..Len(text)
    BY <1>1 DEF Response!More
  <2> QED
    BY <1>1 DEF Response!Next1
<1> HIDE DEF c
<1>6. /\ read' \in 0..Len(text) /\ read' >= 1
      /\ braceCount' \in 0..read'
  <2>1. c # Response!EOF => Response!More
    BY <1>5
  <2>2. read' \in 0..Len(text) /\ read' >= 1
    BY <1>1, <1>2 DEF Response!More
  <2>3. c \in {Opens, Closes} => read' = read + 1
    BY <1>2, <2>1, CharsFacts
  <2>4. CASE c = Opens
    BY <1>1, <1>3, <2>2, <2>3, <2>4
  <2>5. CASE c = Closes
    BY <1>1, <1>3, <2>2, <2>3, <2>5, CharsFacts
  <2>6. CASE c \notin {Opens, Closes}
    BY <1>1, <1>2, <1>3, <2>2, <2>6
  <2> QED
    BY <2>2, <2>4, <2>5, <2>6
<1>7. Response!TypeOK'
  <2> sb' \in Seq(Response!Chars \cup {Response!EOF})
    BY <1>1, <1>2, <1>5, AppendProperties
  <2> QED
    BY <1>2, <1>4, <1>6 DEF Response!TypeOK
<1>8. reading' = "loop" => braceCount' >= 1
  BY <1>4, <1>6
<1>9. ASSUME NEW n \in 1..Len(text), Object(n)
      PROVE  ReadsObject(n)'
  <2> DEFINE s == SubSeq(text, 1, n)
             p == Response!Scan(s)[read]
             q == Response!Scan(s)[read + 1]
  <2>1. /\ read < n /\ n <= Len(text) /\ Response!More /\ n \in Nat
        /\ sb = SubSeq(text, 1, read) /\ p \in ScanStates
        /\ braceCount = p.depth
    BY <1>1, <1>9, MoreOfObject DEF ResponseInv, ReadsObject
  <2>2. read' = read + 1 /\ c = text[read + 1]
    BY <1>2, <1>5, <2>1
  <2>3. /\ q \in ScanStates
        /\ q.depth = CASE c = Opens  -> p.depth + 1
                       [] c = Closes -> p.depth - 1
                       [] OTHER      -> p.depth
        /\ (q.depth = 0) <=> (read + 1 = n)
    <3>1. read \in 1..(n - 1) /\ p.depth >= 1
      BY <1>1, <2>1
    <3> QED
      BY <1>1, <1>9, <2>1, <2>2, <3>1, NextOfObject
  <2>4. braceCount' = q.depth
    BY <1>3, <2>1, <2>3
  <2>5. sb' = SubSeq(text, 1, read + 1)
    <3> read \in 0..(Len(text) - 1)
      BY <1>1, <2>1
    <3> QED
      BY <1>1, <1>2, <2>1, <2>2, BeginningAppend
  <2>6. c # Response!EOF
    <3> c \in Response!Chars
      BY <1>5, <2>1
    <3> QED
      BY CharsFacts DEF Response!EOF
  <2>7. reading' = IF read + 1 = n THEN "done" ELSE "loop"
    BY <1>4, <2>3, <2>4, <2>6
  <2>8. Response!Scan(SubSeq(text', 1, n))[read'] = q
    BY <1>2, <2>2
  <2> HIDE DEF p, q
  <2>9. reading' = "loop" => read' < n
    BY <1>1, <2>1, <2>2, <2>7
  <2>10. reading' = "done" => read' = n /\ sb' = SubSeq(text', 1, n)
    BY <1>2, <2>2, <2>5, <2>7
  <2> QED
    BY <1>2, <2>2, <2>3, <2>4, <2>5, <2>7, <2>8, <2>9, <2>10 DEF ReadsObject
<1>10. \A n \in 1..Len(text) : Object(n)' => Object(n)
  BY <1>2 DEF Object
<1>11. reading' # "first"
  BY <1>4
<1>12. /\ text[1] = Opens /\ sb = SubSeq(text, 1, read)
       /\ Response!Occurrences(Opens, read)
            = Response!Occurrences(Closes, read) + braceCount
       /\ \A n \in 1..read : ~Response!Even(n)
  BY <1>1 DEF ResponseInv, CountsBraces
<1>13. /\ \A n : Response!Even(n)' <=> Response!Even(n)
       /\ \A b, n : Response!Occurrences(b, n)' = Response!Occurrences(b, n)
  BY <1>2 DEF Response!Even, Response!Occurrences
<1> PICK r : r = read'
  OBVIOUS
<1>16. /\ Response!Even(read)' <=> Response!Even(r)
       /\ Response!Occurrences(Opens, read)' = Response!Occurrences(Opens, r)
       /\ Response!Occurrences(Closes, read)' = Response!Occurrences(Closes, r)
  BY <1>2 DEF Response!Even, Response!Occurrences, Opens, Closes
<1>14. ASSUME Response!More
       PROVE  CountsBraces' /\ Response!EndsWithEvenBraces'
  <2>1. /\ read' = read + 1 /\ c = text[read + 1] /\ c \in Response!Chars
        /\ read \in 0..(Len(text) - 1)
    BY <1>1, <1>2, <1>5, <1>14 DEF Response!More
  <2>2. sb' = SubSeq(text, 1, read + 1)
    BY <1>1, <1>2, <1>12, <2>1, BeginningAppend
  <2>3. Response!Occurrences(Opens, read + 1)
          = Response!Occurrences(Closes, read + 1) + braceCount'
    <3> DEFINE o == Response!Occurrences(Opens, read)
               k == Response!Occurrences(Closes, read)
    <3>1. /\ o \in Nat /\ k \in Nat
          /\ Response!Occurrences(Opens, read + 1)
               = o + (IF c = Opens THEN 1 ELSE 0)
          /\ Response!Occurrences(Closes, read + 1)
               = k + (IF c = Closes THEN 1 ELSE 0)
      BY <1>1, <2>1, OccurrencesFacts
    <3>2. o = k + braceCount
      BY <1>12
    <3> HIDE DEF o, k
    <3> QED
      BY <1>1, <1>3, <3>1, <3>2, CharsFacts
  <2>4. Response!Even(read + 1) <=> braceCount' = 0
    <3> DEFINE o == Response!Occurrences(Opens, read + 1)
               k == Response!Occurrences(Closes, read + 1)
    <3>1. o = k + braceCount'
      BY <2>3
    <3>2. k \in Nat /\ braceCount' \in Nat
      <4>1. read + 1 \in Nat
        BY <1>1
      <4>2. k \in Nat
        BY <4>1, OccurrencesFacts
      <4> QED
        BY <1>6, <2>1, <4>2
    <3>3. Response!Even(read + 1) <=> o = k
      BY EvenFacts
    <3> HIDE DEF o, k
    <3>4. (o = k) <=> (braceCount' = 0)
      BY <3>1, <3>2, DifferenceOfSums
    <3> QED
      BY <3>3, <3>4
  <2>5. c # Response!EOF
    BY <2>1, CharsFacts DEF Response!EOF
  <2>6. \A n \in 1..read : ~Response!Even(n)'
    BY <1>12, <1>13
  <2>7. CASE braceCount' = 0
    <3>1. reading' = "done" /\ Response!Even(read)' /\ read' - 1 = read
      BY <1>1, <1>4, <1>16, <2>1, <2>4, <2>7
    <3>2. sb' = SubSeq(text', 1, read')
      BY <1>2, <2>1, <2>2
    <3>3. CountsBraces'
      BY <3>1 DEF CountsBraces
    <3> QED
      BY <2>6, <3>1, <3>2, <3>3 DEF Response!EndsWithEvenBraces
  <2>8. CASE braceCount' # 0
    <3>1. reading' = "loop" /\ ~Response!Even(read + 1)
      BY <1>4, <2>4, <2>5, <2>8
    <3>2. \A n \in 1..read + 1 : ~Response!Even(n)'
      <4> SUFFICES ASSUME NEW n \in 1..read + 1 PROVE ~Response!Even(n)'
        OBVIOUS
      <4>1. n \in 1..read \/ n = read + 1
        BY <1>1
      <4> QED
        BY <1>13, <2>6, <3>1, <4>1
    <3>3. /\ text'[1] = Opens /\ sb' = SubSeq(text', 1, read')
          /\ Response!Occurrences(Opens, read)'
               = Response!Occurrences(Closes, read)' + braceCount'
      BY <1>2, <1>12, <1>16, <2>1, <2>2, <2>3
    <3>4. \A n \in 1..read' : ~Response!Even(n)'
      BY <2>1, <3>2
    <3>5. CountsBraces'
      BY <3>3, <3>4 DEF CountsBraces
    <3> QED
      BY <3>1, <3>5 DEF Response!EndsWithEvenBraces
  <2> QED
    BY <2>7, <2>8
<1>15. ASSUME ~Response!More
       PROVE  CountsBraces' /\ Response!EndsWithEvenBraces'
  <2>1. c = Response!EOF /\ closes /\ read' = read /\ read = Len(text)
    BY <1>1, <1>2, <1>5, <1>15
       DEF Response!ReadNext, Response!TimesOut, Response!More
  <2>2. reading' = "done"
    BY <1>4, <2>1
  <2>3. SubSeq(text, 1, read) = text
    BY <1>1, <2>1, WholeBeginning
  <2>4. sb' = Append(text', Response!EOF)
    BY <1>2, <1>12, <2>1, <2>3
  <2>5. ~Response!Even(read) /\ ~Response!Even(read)'
    <3> read \in 1..read
      BY <1>1
    <3> QED
      BY <1>12, <1>16, <2>1
  <2>6. \A n \in 1..read - 1 : ~Response!Even(n)'
    BY <1>1, <1>12, <1>13
  <2>7. \A n \in 1..read' - 1 : ~Response!Even(n)'
    BY <2>1, <2>6
  <2>8. CountsBraces'
    BY <2>2 DEF CountsBraces
  <2>9. read' = Len(text') /\ closes'
    BY <1>2, <2>1
  <2> QED
    BY <1>2, <2>4, <2>5, <2>7, <2>8, <2>9 DEF Response!EndsWithEvenBraces
<1> QED
  BY <1>1, <1>2, <1>6, <1>7, <1>8, <1>9, <1>10, <1>11, <1>14, <1>15
     DEF ResponseInv

\* Every read of the response.
LEMMA StepResponseInv ==
    ResponseInv /\ [Response!Next]_(Response!vars) => ResponseInv'
<1>1. ASSUME ResponseInv, UNCHANGED Response!vars
      PROVE  ResponseInv'
  <2> UNCHANGED <<text, closes, read, sb, braceCount, reading>>
    BY <1>1 DEF Response!vars
  <2>1. CountsBraces' /\ Response!EndsWithEvenBraces'
    BY <1>1 DEF ResponseInv, CountsBraces, Response!EndsWithEvenBraces,
                Response!Even, Response!Occurrences
  <2> QED
    BY <1>1, <2>1 DEF ResponseInv, Response!TypeOK, Object, ReadsObject
<1> QED
  BY <1>1, TimeoutInv, ReadFirstInv, ReadNextInv, BreakInv
     DEF Response!Next, Response!Done

\* readResponse returns an object without braces in its strings whole, and
\* nothing of what comes after it, whatever its length and its contents; with
\* them it ends where the braces are even, those of strings counted.
THEOREM WholeObject ==
    Response!Spec => [](/\ Response!ReturnsObject
                        /\ Response!EndsWithEvenBraces)
<1>1. ResponseInv => Response!ReturnsObject /\ Response!EndsWithEvenBraces
  BY DEF ResponseInv, Object, ReadsObject, Response!ReturnsObject
<1> QED
  BY <1>1, InitResponseInv, StepResponseInv, PTL DEF Response!Spec

-----------------------------------------------------------------------------
(* FrameReader.                                                            *)

\* A sequence behind another one, as a name for the provers.
Behind(a, b) == a \o b

\* The sequences of a sequence, one behind the other, by induction.
LEMMA FlattenDef ==
    ASSUME NEW n \in Nat \ {0}, NEW s, Len(s) = n
    PROVE  \E f : /\ Frames!FlattenSeq(s) = f[n]
                  /\ f[1] = s[1]
                  /\ \A i \in 2..n : f[i] = Behind(f[i - 1], s[i])
<1> DEFINE At(f, i) == IF i = 1 THEN s[1] ELSE Behind(f[i - 1], s[i])
           Ok == {k \in Nat : \E f : f = [i \in 1..k |-> At(f, i)]}
<1>1. 0 \in Ok
  <2> DEFINE f == [i \in 1..0 |-> 0]
  <2> f = [i \in 1..0 |-> At(f, i)]
    OBVIOUS
  <2> QED
    OBVIOUS
<1>2. ASSUME NEW k \in Ok PROVE k + 1 \in Ok
  <2>1. PICK f : f = [i \in 1..k |-> At(f, i)]
    OBVIOUS
  <2> k \in Nat
    OBVIOUS
  <2> DEFINE g == [i \in 1..k + 1 |-> IF i <= k THEN f[i] ELSE At(f, i)]
  <2>2. ASSUME NEW i \in 1..k + 1 PROVE g[i] = At(g, i)
    <3>1. CASE i = 1
      BY <3>1, <2>1
    <3>2. CASE i # 1
      <4>1. i - 1 \in 1..k /\ g[i - 1] = f[i - 1]
        BY <3>2
      <4>2. At(g, i) = At(f, i)
        BY <4>1, <3>2
      <4>3. i <= k => f[i] = At(f, i)
        BY <2>1
      <4> QED
        BY <4>2, <4>3
    <3> QED
      BY <3>1, <3>2
  <2>3. g = [i \in 1..k + 1 |-> At(g, i)]
    BY <2>2
  <2> HIDE DEF g, At
  <2> QED
    BY <2>3
<1>3. n \in Ok
  <2> HIDE DEF Ok
  <2> QED
    BY <1>1, <1>2, NatSetInduction
<1> DEFINE f == CHOOSE f : f = [i \in 1..n |-> At(f, i)]
<1>4. f = [i \in 1..n |-> At(f, i)]
  BY <1>3
<1>5. Frames!FlattenSeq(s) = f[n]
  BY <1>4 DEF Frames!FlattenSeq, Behind
<1> HIDE DEF f
<1>6. f[1] = s[1]
  BY <1>4
<1>7. ASSUME NEW i \in 2..n PROVE f[i] = Behind(f[i - 1], s[i])
  BY <1>4
<1> QED
  BY <1>5, <1>6, <1>7

\* One sequence more.
LEMMA FlattenNext ==
    ASSUME NEW F, NEW n \in Nat \ {0}
    PROVE  Frames!FlattenSeq([i \in 1..n + 1 |-> F[i]])
             = Behind(Frames!FlattenSeq([i \in 1..n |-> F[i]]), F[n + 1])
<1> DEFINE s == [i \in 1..n |-> F[i]]
           t == [i \in 1..n + 1 |-> F[i]]
<1>1. Len(s) = n /\ Len(t) = n + 1
  OBVIOUS
<1>2. PICK f : /\ Frames!FlattenSeq(s) = f[n] /\ f[1] = s[1]
               /\ \A i \in 2..n : f[i] = Behind(f[i - 1], s[i])
  <2> HIDE DEF s
  <2> QED
    BY <1>1, FlattenDef
<1>3. PICK g : /\ Frames!FlattenSeq(t) = g[n + 1] /\ g[1] = t[1]
               /\ \A i \in 2..n + 1 : g[i] = Behind(g[i - 1], t[i])
  <2> HIDE DEF t
  <2> n + 1 \in Nat \ {0}
    OBVIOUS
  <2> QED
    BY <1>1, FlattenDef
<1> DEFINE Same == {k \in Nat : k + 1 \in 1..n => f[k + 1] = g[k + 1]}
<1>4. 0 \in Same
  BY <1>2, <1>3
<1>5. ASSUME NEW k \in Nat, k \in Same PROVE k + 1 \in Same
  <2> SUFFICES ASSUME k + 2 \in 1..n PROVE f[k + 2] = g[k + 2]
    OBVIOUS
  <2>1. f[k + 1] = g[k + 1]
    BY <1>5
  <2>2. k + 2 \in 2..n /\ k + 2 \in 2..n + 1 /\ (k + 2) - 1 = k + 1
    OBVIOUS
  <2>3. /\ f[k + 2] = Behind(f[k + 1], s[k + 2])
        /\ g[k + 2] = Behind(g[k + 1], t[k + 2])
    <3> HIDE DEF s, t
    <3> QED
      BY <2>2, <1>2, <1>3
  <2> QED
    BY <2>1, <2>2, <2>3
<1>6. f[n] = g[n]
  <2>1. n - 1 \in Same
    <3> HIDE DEF Same
    <3> QED
      BY <1>4, <1>5, NatSetInduction
  <2> QED
    BY <2>1
<1>7. g[n + 1] = Behind(g[n], t[n + 1])
  <2>1. n + 1 \in 2..n + 1 /\ (n + 1) - 1 = n
    OBVIOUS
  <2> HIDE DEF t
  <2> QED
    BY <2>1, <1>3
<1> QED
  BY <1>2, <1>3, <1>6, <1>7

\* What the server sends.
PartsOK ==
    /\ parts \in Seq(UNION Cameras) /\ Len(parts) \in Nat \ {0}
    /\ \A i \in 1..Len(parts) : Frames!IsPart(parts[i])
    /\ stream = Frames!FlattenSeq([i \in 1..Len(parts) |->
                                      Frames!PartBytes(parts[i])])

\* The markers of a frame.
LEMMA FrameMarkers ==
    ASSUME NEW f \in Seq(Nat), Len(f) >= 4,
           SubSeq(f, 1, 2) = <<255, 216>>,
           SubSeq(f, Len(f) - 1, Len(f)) = <<255, 217>>
    PROVE  f[1] = 255 /\ f[2] = 216 /\ f[Len(f) - 1] = 255 /\ f[Len(f)] = 217
<1> DEFINE n == Len(f)
<1>0. n \in Nat /\ n >= 4 /\ \A i \in 1..n : f[i] \in Nat
  OBVIOUS
<1>1. SubSeq(f, 1, 2)[1] = f[1] /\ SubSeq(f, 1, 2)[2] = f[2]
  <2>1. \A i \in 1..2 - 1 + 1 : SubSeq(f, 1, 2)[i] = f[1 + i - 1]
    <3> HIDE DEF n
    <3>1. \A i \in 1..2 : f[i] \in Nat
      BY <1>0
    <3> QED
      BY <3>1, SubSeqProperties
  <2> QED
    BY <2>1
<1>2. SubSeq(f, n - 1, n)[1] = f[n - 1] /\ SubSeq(f, n - 1, n)[2] = f[n]
  <2> HIDE DEF n
  <2>1. n - 1 \in Int /\ n \in Int /\ \A i \in n - 1..n : f[i] \in Nat
    BY <1>0
  <2>2. \A i \in 1..n - (n - 1) + 1 :
          SubSeq(f, n - 1, n)[i] = f[(n - 1) + i - 1]
    BY <2>1, SubSeqProperties
  <2> QED
    BY <2>2, <1>0
<1> DEFINE s == SubSeq(f, 1, 2)
           t == SubSeq(f, n - 1, n)
<1>3. s = <<255, 216>> /\ t = <<255, 217>>
  OBVIOUS
<1>4. s[1] = f[1] /\ s[2] = f[2] /\ t[1] = f[n - 1] /\ t[2] = f[n]
  OBVIOUS
<1> HIDE DEF s, t
<1> QED
  BY <1>3, <1>4

\* The bytes of a part.
LEMMA BytesFacts ==
    ASSUME NEW p, Frames!IsPart(p)
    PROVE  /\ p.header \in Seq(Nat \ {255}) /\ p.frame \in Seq(Nat)
           /\ Len(p.header) \in Nat /\ Len(p.header) + 2 <= FRAME_MAX_LENGTH
           /\ Len(p.frame) \in Nat /\ Len(p.frame) >= 4
           /\ SubSeq(p.frame, 1, 2) = <<255, 216>>
           /\ SubSeq(p.frame, Len(p.frame) - 1, Len(p.frame)) = <<255, 217>>
           /\ Frames!PartBytes(p) \in Seq(Nat)
           /\ Len(Frames!PartBytes(p)) = Len(p.header) + Len(p.frame)
<1> DEFINE h == p.header
           f == p.frame
<1>1. /\ h \in Seq(Nat \ {255}) /\ f \in Seq(Nat)
      /\ Len(h) + 2 <= FRAME_MAX_LENGTH /\ Len(f) >= 4
      /\ SubSeq(f, 1, 2) = <<255, 216>>
      /\ SubSeq(f, Len(f) - 1, Len(f)) = <<255, 217>>
  BY DEF Frames!IsPart, Frames!SOI_MARKER, Frames!EOF_MARKER, Frames!FF
<1>2. h \in Seq(Nat) /\ Len(h) \in Nat /\ Len(f) \in Nat
  BY <1>1
<1>3. Frames!PartBytes(p) = h \o f
  BY DEF Frames!PartBytes
<1> HIDE DEF h, f
<1>5. h \o f \in Seq(Nat) /\ Len(h \o f) = Len(h) + Len(f)
  BY <1>1, <1>2, ConcatProperties
<1>6. /\ Frames!PartBytes(p) \in Seq(Nat)
      /\ Len(Frames!PartBytes(p)) = Len(h) + Len(f)
  BY <1>3, <1>5
<1> QED
  BY <1>1, <1>2, <1>6, Zenon DEF h, f

\* Where the bytes of a part are.
LEMMA BytesPlaces ==
    ASSUME NEW p, Frames!IsPart(p)
    PROVE  /\ \A j \in 1..Len(p.header) :
                Frames!PartBytes(p)[j] = p.header[j]
           /\ \A j \in 1..Len(p.frame) :
                Frames!PartBytes(p)[Len(p.header) + j] = p.frame[j]
<1> DEFINE h == p.header
           f == p.frame
<1>1. h \in Seq(Nat) /\ f \in Seq(Nat) /\ Len(h) \in Nat /\ Len(f) \in Nat
  <2>1. h \in Seq(Nat \ {255}) /\ f \in Seq(Nat)
    BY BytesFacts
  <2> HIDE DEF h, f
  <2> QED
    BY <2>1
<1>2. Frames!PartBytes(p) = h \o f
  BY DEF Frames!PartBytes
<1> HIDE DEF h, f
<1>3. \A i \in 1..Len(h) + Len(f) :
         (h \o f)[i] = IF i <= Len(h) THEN h[i] ELSE f[i - Len(h)]
  BY <1>1, ConcatProperties
<1>4. /\ \A j \in 1..Len(h) : (h \o f)[j] = h[j]
      /\ \A j \in 1..Len(f) : (h \o f)[Len(h) + j] = f[j]
  BY <1>1, <1>3
<1> QED
  BY <1>2, <1>4, Zenon DEF h, f

\* Where the parts are in the stream.
LEMMA PlaceOfParts ==
    ASSUME PartsOK
    PROVE  /\ stream \in Seq(Nat) /\ Len(stream) \in Nat
           /\ Frames!PartEnd(0) = 0
           /\ Frames!PartEnd(Len(parts)) = Len(stream)
           /\ \A i \in 0..Len(parts) : Frames!PartEnd(i) \in 0..Len(stream)
           /\ \A i \in 1..Len(parts) :
                LET h == parts[i].header
                    f == parts[i].frame
                    from == Frames!PartEnd(i - 1)
                IN  /\ Frames!PartEnd(i) = from + Len(h) + Len(f)
                    /\ \A j \in 1..Len(h) : stream[from + j] = h[j]
                    /\ \A j \in 1..Len(f) : stream[from + Len(h) + j] = f[j]
<1> DEFINE n == Len(parts)
           F == [i \in 1..n |-> Frames!PartBytes(parts[i])]
           Flat(k) == Frames!FlattenSeq([i \in 1..k |-> F[i]])
<1>0. n \in Nat \ {0}
  BY DEF PartsOK
<1>1. ASSUME NEW i \in 1..n
      PROVE  F[i] \in Seq(Nat) /\ Frames!IsPart(parts[i])
  <2>1. Frames!IsPart(parts[i])
    BY DEF PartsOK
  <2>2. F[i] = Frames!PartBytes(parts[i])
    OBVIOUS
  <2>3. Frames!PartBytes(parts[i]) \in Seq(Nat)
    BY <2>1, BytesFacts
  <2> HIDE DEF F
  <2> QED
    BY <2>1, <2>2, <2>3
<1>2. ASSUME NEW k \in 0..n
      PROVE  Frames!PartEnd(k) = Len(Flat(k))
  <2>1. [i \in 1..k |-> F[i]] = [i \in 1..k |-> Frames!PartBytes(parts[i])]
    BY <1>0
  <2> HIDE DEF F
  <2> QED
    BY <2>1 DEF Frames!PartEnd
<1>3. stream = Flat(n)
  <2>1. [i \in 1..n |-> F[i]] = [i \in 1..n |-> Frames!PartBytes(parts[i])]
    OBVIOUS
  <2> HIDE DEF F
  <2> QED
    BY <2>1 DEF PartsOK
<1>4. Flat(0) = <<>>
  <2>1. Len([i \in 1..0 |-> F[i]]) = 0 /\ [i \in 1..0 |-> F[i]] = <<>>
    <3> HIDE DEF F
    <3> QED
      OBVIOUS
  <2> QED
    BY <2>1 DEF Frames!FlattenSeq
<1>5. Flat(1) = F[1]
  <2> DEFINE s == [i \in 1..1 |-> F[i]]
  <2>1. Len(s) = 1 /\ s[1] = F[1]
    <3> HIDE DEF F
    <3> QED
      OBVIOUS
  <2> HIDE DEF s
  <2> 1 \in Nat \ {0}
    OBVIOUS
  <2>2. PICK f : Frames!FlattenSeq(s) = f[1] /\ f[1] = s[1]
    BY <2>1, FlattenDef
  <2> QED
    BY <2>1, <2>2 DEF s
<1>6. ASSUME NEW k \in 1..n - 1 PROVE Flat(k + 1) = Behind(Flat(k), F[k + 1])
  <2> k \in Nat \ {0}
    OBVIOUS
  <2> HIDE DEF F
  <2> QED
    BY FlattenNext
<1> HIDE DEF Flat, F
\* A part more, behind those before it.
<1>7. ASSUME NEW k \in 0..n - 1, Flat(k) \in Seq(Nat)
      PROVE  /\ Flat(k + 1) \in Seq(Nat)
             /\ Len(Flat(k + 1)) = Len(Flat(k)) + Len(F[k + 1])
             /\ \A j \in 1..Len(Flat(k)) : Flat(k + 1)[j] = Flat(k)[j]
             /\ \A j \in 1..Len(F[k + 1]) :
                  Flat(k + 1)[Len(Flat(k)) + j] = F[k + 1][j]
  <2>1. k + 1 \in 1..n /\ F[k + 1] \in Seq(Nat) /\ Len(F[k + 1]) \in Nat
        /\ Len(Flat(k)) \in Nat
    BY <1>0, <1>1, <1>7
  <2>2. CASE k = 0
    BY <2>1, <2>2, <1>4, <1>5
  <2>3. CASE k # 0
    <3>1. Flat(k + 1) = Flat(k) \o F[k + 1]
      BY <2>3, <1>6, <1>0 DEF Behind
    <3> DEFINE a == Flat(k)
               b == F[k + 1]
    <3> HIDE DEF a, b
    <3>2. /\ a \o b \in Seq(Nat) /\ Len(a \o b) = Len(a) + Len(b)
          /\ \A i \in 1..Len(a) + Len(b) :
               (a \o b)[i] = IF i <= Len(a) THEN a[i] ELSE b[i - Len(a)]
      BY <1>7, <2>1, ConcatProperties DEF a, b
    <3>3. /\ \A j \in 1..Len(a) : (a \o b)[j] = a[j]
          /\ \A j \in 1..Len(b) : (a \o b)[Len(a) + j] = b[j]
      BY <3>2, <2>1 DEF a, b
    <3> QED
      BY <3>1, <3>2, <3>3 DEF a, b
  <2> QED
    BY <2>2, <2>3
<1>8. \A k \in Nat : k \in 0..n => Flat(k) \in Seq(Nat)
  <2> DEFINE S == {k \in Nat : k \in 0..n => Flat(k) \in Seq(Nat)}
  <2>1. 0 \in S
    <3> <<>> \in Seq(Nat)
      OBVIOUS
    <3> QED
      BY <1>4
  <2>2. ASSUME NEW k \in Nat, k \in S PROVE k + 1 \in S
    BY <2>2, <1>7, <1>0
  <2> HIDE DEF S
  <2>3. Nat \subseteq S
    BY <2>1, <2>2, NatSetInduction
  <2> QED
    BY <2>3 DEF S
\* What is sent first stays in its place.
<1>9. ASSUME NEW m \in 0..n
      PROVE  \A k \in Nat : k + m <= n =>
               /\ Len(Flat(m)) <= Len(Flat(k + m))
               /\ \A j \in 1..Len(Flat(m)) : Flat(k + m)[j] = Flat(m)[j]
  <2> DEFINE S == {k \in Nat : k + m <= n =>
                     /\ Len(Flat(m)) <= Len(Flat(k + m))
                     /\ \A j \in 1..Len(Flat(m)) :
                          Flat(k + m)[j] = Flat(m)[j]}
  <2>0. Flat(m) \in Seq(Nat) /\ Len(Flat(m)) \in Nat /\ m \in Nat
    BY <1>8, <1>0
  <2>1. 0 \in S
    BY <2>0
  <2>2. ASSUME NEW k \in Nat, k \in S PROVE k + 1 \in S
    <3> SUFFICES ASSUME (k + 1) + m <= n
                 PROVE  /\ Len(Flat(m)) <= Len(Flat((k + 1) + m))
                        /\ \A j \in 1..Len(Flat(m)) :
                             Flat((k + 1) + m)[j] = Flat(m)[j]
      OBVIOUS
    <3> DEFINE i == k + m
    <3>1. i \in 0..n - 1 /\ (k + 1) + m = i + 1 /\ i \in 0..n /\ i + 1 \in 1..n
      BY <2>0, <1>0
    <3>2. /\ Len(Flat(m)) <= Len(Flat(i))
          /\ \A j \in 1..Len(Flat(m)) : Flat(i)[j] = Flat(m)[j]
      BY <2>2, <3>1, <1>0
    <3> HIDE DEF i
    <3>3. Flat(i) \in Seq(Nat) /\ Len(Flat(i)) \in Nat
          /\ F[i + 1] \in Seq(Nat) /\ Len(F[i + 1]) \in Nat
      BY <1>8, <1>1, <3>1
    <3>4. /\ Len(Flat(i + 1)) = Len(Flat(i)) + Len(F[i + 1])
          /\ \A j \in 1..Len(Flat(i)) : Flat(i + 1)[j] = Flat(i)[j]
      BY <3>1, <3>3, <1>7
    <3>5. Len(Flat(m)) <= Len(Flat(i + 1))
      BY <3>2, <3>3, <3>4, <2>0
    <3>6. ASSUME NEW j \in 1..Len(Flat(m)) PROVE Flat(i + 1)[j] = Flat(m)[j]
      BY <3>2, <3>3, <3>4, <2>0
    <3> QED
      BY <3>1, <3>5, <3>6
  <2> HIDE DEF S
  <2>3. Nat \subseteq S
    BY <2>1, <2>2, NatSetInduction
  <2> QED
    BY <2>3 DEF S
<1>10. ASSUME NEW m \in 0..n
       PROVE  /\ Len(Flat(m)) \in 0..Len(stream)
              /\ \A j \in 1..Len(Flat(m)) : stream[j] = Flat(m)[j]
  <2> DEFINE k == n - m
  <2>1. k \in Nat /\ k + m = n /\ k + m <= n
    BY <1>0
  <2> HIDE DEF k
  <2>2. Len(Flat(m)) <= Len(Flat(n))
        /\ \A j \in 1..Len(Flat(m)) : Flat(n)[j] = Flat(m)[j]
    BY <2>1, <1>9
  <2>3. Len(Flat(m)) \in Nat /\ Len(Flat(n)) \in Nat
    BY <1>8, <1>0
  <2> QED
    BY <1>3, <2>2, <2>3
<1>11. stream \in Seq(Nat) /\ Len(stream) \in Nat
  BY <1>3, <1>8, <1>0
<1>12. ASSUME NEW i \in 1..n
       PROVE  LET h == parts[i].header
                  f == parts[i].frame
                  from == Frames!PartEnd(i - 1)
              IN  /\ Frames!PartEnd(i) = from + Len(h) + Len(f)
                  /\ \A j \in 1..Len(h) : stream[from + j] = h[j]
                  /\ \A j \in 1..Len(f) : stream[from + Len(h) + j] = f[j]
  <2> DEFINE h == parts[i].header
             f == parts[i].frame
             from == Frames!PartEnd(i - 1)
             b == F[i]
  <2>1. /\ Len(h) \in Nat /\ Len(f) \in Nat /\ Len(b) = Len(h) + Len(f)
        /\ \A j \in 1..Len(h) : b[j] = h[j]
        /\ \A j \in 1..Len(f) : b[Len(h) + j] = f[j]
    <3>1. b = Frames!PartBytes(parts[i])
      BY DEF F
    <3> DEFINE c == Frames!PartBytes(parts[i])
    <3>2. /\ Len(h) \in Nat /\ Len(f) \in Nat /\ Len(c) = Len(h) + Len(f)
          /\ \A j \in 1..Len(h) : c[j] = h[j]
          /\ \A j \in 1..Len(f) : c[Len(h) + j] = f[j]
      <4> DEFINE p == parts[i]
      <4>1. Frames!IsPart(p)
        BY <1>1
      <4> HIDE DEF p
      <4>2. /\ Len(p.header) \in Nat /\ Len(p.frame) \in Nat
            /\ Len(Frames!PartBytes(p)) = Len(p.header) + Len(p.frame)
        BY <4>1, BytesFacts
      <4>3. \A j \in 1..Len(p.header) :
               Frames!PartBytes(p)[j] = p.header[j]
        BY <4>1, BytesPlaces, Zenon
      <4>4. \A j \in 1..Len(p.frame) :
               Frames!PartBytes(p)[Len(p.header) + j] = p.frame[j]
        BY <4>1, BytesPlaces, Zenon
      <4> QED
        BY <4>2, <4>3, <4>4, Zenon DEF p
    <3> HIDE DEF b, c, h, f
    <3> QED
      BY <3>1, <3>2 DEF c
  <2>2. i - 1 \in 0..n - 1 /\ i - 1 \in 0..n /\ (i - 1) + 1 = i /\ i \in 0..n
    BY <1>0
  <2>3. from = Len(Flat(i - 1)) /\ Frames!PartEnd(i) = Len(Flat(i))
        /\ Flat(i - 1) \in Seq(Nat) /\ from \in Nat
    BY <2>2, <1>2, <1>8
  <2>4. Len(Flat(i)) = from + Len(b)
        /\ \A j \in 1..Len(b) : Flat(i)[from + j] = b[j]
    BY <2>2, <2>3, <1>7
  <2>5. \A j \in 1..Len(Flat(i)) : stream[j] = Flat(i)[j]
    BY <2>2, <1>10
  <2> HIDE DEF h, f, from, b
  <2>6. ASSUME NEW j \in 1..Len(b) PROVE stream[from + j] = b[j]
    BY <2>1, <2>3, <2>4, <2>5
  <2>7. ASSUME NEW j \in 1..Len(h) PROVE stream[from + j] = h[j]
    BY <2>1, <2>6
  <2>8. ASSUME NEW j \in 1..Len(f) PROVE stream[from + Len(h) + j] = f[j]
    <3>1. Len(h) + j \in 1..Len(b) /\ from + Len(h) + j = from + (Len(h) + j)
      BY <2>1, <2>3
    <3> QED
      BY <3>1, <2>1, <2>6
  <2>9. Frames!PartEnd(i) = from + Len(h) + Len(f)
    BY <2>1, <2>3, <2>4
  <2> QED
    BY <2>7, <2>8, <2>9 DEF h, f, from
<1>13. ASSUME NEW i \in 0..n PROVE Frames!PartEnd(i) \in 0..Len(stream)
  BY <1>2, <1>10
<1>14. Frames!PartEnd(0) = 0
  BY <1>0, <1>2, <1>4
<1>15. Frames!PartEnd(n) = Len(stream)
  BY <1>0, <1>2, <1>3
<1> QED
  BY <1>11, <1>12, <1>13, <1>14, <1>15

\* How much of the sequence has been seen after last, at a byte.
Seen(from, sequence, i, last) ==
    IF \/ from + i > Len(stream) \/ last = 2
       \/ stream[from + i] # sequence[last + 1]
    THEN 0 ELSE last + 1

\* The least of the places where a sequence is complete, if there is one.
First(ends) == CHOOSE n \in ends : \A m \in ends : n <= m

\* It is in the set, and the least.
LEMMA FirstFacts ==
    ASSUME NEW S, NEW e \in S, \A m \in S : e <= m
    PROVE  First(S) \in S /\ \A m \in S : First(S) <= m
<1> DEFINE P(n) == \A m \in S : n <= m
<1>1. First(S) = CHOOSE n \in S : P(n)
  BY DEF First
<1>2. P(e)
  OBVIOUS
<1> HIDE DEF P
<1>3. First(S) \in S /\ P(First(S))
  BY <1>1, <1>2, Zenon
<1> QED
  BY <1>3 DEF P

Answer(ends, from, limit) ==
    IF ends # {} THEN First(ends)
    ELSE IF from + limit > Len(stream) THEN -2 ELSE -1

\* g is what has been seen after each byte, n the answer.
IsSearch(g, from, limit, sequence, n) ==
    /\ g[0] = 0
    /\ \A i \in 1..limit : g[i] = Seen(from, sequence, i, g[i - 1])
    /\ n = Answer({k \in 0..limit : g[k] = 2}, from, limit)

\* A search, by induction on the bytes it has read.
LEMMA SearchDef ==
    ASSUME NEW from \in Nat, NEW limit \in Nat, NEW sequence
    PROVE  \E g :
             IsSearch(g, from, limit, sequence,
                      Frames!getEndOfSeqeunce(from, limit, sequence))
<1> DEFINE At(f, i) == IF i = 0 THEN 0 ELSE Seen(from, sequence, i, f[i - 1])
           Ok == {k \in Nat : \E f : f = [i \in 0..k |-> At(f, i)]}
<1>1. 0 \in Ok
  <2> DEFINE f == [i \in 0..0 |-> 0]
  <2> f = [i \in 0..0 |-> At(f, i)]
    OBVIOUS
  <2> QED
    OBVIOUS
<1>2. ASSUME NEW k \in Ok PROVE k + 1 \in Ok
  <2>1. PICK f : f = [i \in 0..k |-> At(f, i)]
    OBVIOUS
  <2> k \in Nat
    OBVIOUS
  <2> DEFINE g == [i \in 0..k + 1 |-> IF i <= k THEN f[i] ELSE At(f, i)]
  <2>2. ASSUME NEW i \in 0..k + 1 PROVE g[i] = At(g, i)
    <3>1. CASE i = 0
      BY <3>1, <2>1
    <3>2. CASE i # 0
      <4>1. i - 1 \in 0..k /\ g[i - 1] = f[i - 1]
        BY <3>2
      <4>2. At(g, i) = At(f, i)
        BY <4>1, <3>2
      <4>3. i <= k => f[i] = At(f, i)
        BY <2>1
      <4> QED
        BY <4>2, <4>3
    <3> QED
      BY <3>1, <3>2
  <2>3. g = [i \in 0..k + 1 |-> At(g, i)]
    BY <2>2
  <2> HIDE DEF g, At
  <2> QED
    BY <2>3
<1>3. limit \in Ok
  <2> HIDE DEF Ok
  <2> QED
    BY <1>1, <1>2, NatSetInduction
<1> DEFINE Body(f, i) ==
             IF i = 0 \/ from + i > Len(stream) THEN 0
             ELSE LET last == f[i - 1]
                  IN  IF last = 2 \/ stream[from + i] # sequence[last + 1]
                      THEN 0 ELSE last + 1
           g == CHOOSE f : f = [i \in 0..limit |-> Body(f, i)]
<1>4. \A f, i : Body(f, i) = At(f, i)
  BY DEF Seen
<1>5. g = [i \in 0..limit |-> Body(g, i)]
  <2>1. PICK f : f = [i \in 0..limit |-> At(f, i)]
    BY <1>3
  <2>2. f = [i \in 0..limit |-> Body(f, i)]
    <3> HIDE DEF Body, At
    <3> QED
      BY <1>4, <2>1
  <2> HIDE DEF Body
  <2> QED
    BY <2>2
<1>6. Frames!getEndOfSeqeunce(from, limit, sequence) =
        Answer({k \in 0..limit : g[k] = 2}, from, limit)
  BY DEF Frames!getEndOfSeqeunce, Frames!Missing, Frames!AtEnd, Answer, First
<1> HIDE DEF g
<1>7. g[0] = 0
  BY <1>5
<1>8. ASSUME NEW i \in 1..limit PROVE g[i] = Seen(from, sequence, i, g[i - 1])
  <2>1. g[i] = Body(g, i) /\ i # 0
    <3> HIDE DEF Body
    <3> QED
      BY <1>5
  <2>2. g[i] = At(g, i)
    <3> HIDE DEF Body, At
    <3> QED
      BY <1>4, <2>1
  <2> QED
    BY <2>1, <2>2
<1> QED
  BY <1>6, <1>7, <1>8 DEF IsSearch

\* What a search answers.
LEMMA SearchRange ==
    ASSUME NEW from \in Nat, NEW limit \in Nat, NEW sequence,
           Len(stream) \in Nat
    PROVE  LET n == Frames!getEndOfSeqeunce(from, limit, sequence)
           IN  n = -1 \/ n = -2 \/ (n \in 2..limit /\ from + n <= Len(stream))
<1> DEFINE n == Frames!getEndOfSeqeunce(from, limit, sequence)
<1>0. PICK g : IsSearch(g, from, limit, sequence, n)
  BY SearchDef
<1>1. /\ g[0] = 0
      /\ \A i \in 1..limit : g[i] = Seen(from, sequence, i, g[i - 1])
      /\ n = Answer({k \in 0..limit : g[k] = 2}, from, limit)
  BY <1>0 DEF IsSearch
<1> DEFINE Ends == {k \in 0..limit : g[k] = 2}
<1>2. CASE Ends = {}
  BY <1>1, <1>2 DEF Answer
<1>3. CASE Ends # {}
  <2>1. n = First(Ends)
    BY <1>1, <1>3 DEF Answer
  <2>2. n \in Ends
    <3>1. Ends \subseteq Nat
      OBVIOUS
    <3> HIDE DEF Ends, n
    <3>2. \E e \in Ends : \A m \in Ends : e <= m
      BY <3>1, <1>3, LeastOfNat
    <3> QED
      BY <3>2, <2>1, FirstFacts
  <2>3. n \in 0..limit /\ g[n] = 2
    BY <2>2
  <2> HIDE DEF n
  <2>4. n \in 1..limit /\ n - 1 \in 0..limit
    BY <2>3, <1>1
  <2>5. g[n] = Seen(from, sequence, n, g[n - 1])
    BY <2>4, <1>1
  <2>6. from + n <= Len(stream) /\ g[n - 1] + 1 = 2
    BY <2>3, <2>5, <2>4 DEF Seen
  <2>7. n # 1
    BY <2>6, <1>1
  <2> QED
    BY <2>4, <2>6, <2>7 DEF n
<1> QED
  BY <1>2, <1>3

\* A search from the end of the stream.
LEMMA SearchEnds ==
    ASSUME NEW limit \in Nat \ {0}, NEW sequence, Len(stream) \in Nat
    PROVE  Frames!getEndOfSeqeunce(Len(stream), limit, sequence) = -2
<1> DEFINE from == Len(stream)
           n == Frames!getEndOfSeqeunce(from, limit, sequence)
<1>0. PICK g : IsSearch(g, from, limit, sequence, n)
  BY SearchDef
<1>1. /\ g[0] = 0
      /\ \A i \in 1..limit : g[i] = Seen(from, sequence, i, g[i - 1])
      /\ n = Answer({k \in 0..limit : g[k] = 2}, from, limit)
  BY <1>0 DEF IsSearch
<1>2. ASSUME NEW i \in 0..limit PROVE g[i] = 0
  <2>1. CASE i = 0
    BY <2>1, <1>1
  <2>2. CASE i # 0
    <3>1. g[i] = Seen(from, sequence, i, g[i - 1])
      BY <2>2, <1>1
    <3>2. from + i > Len(stream)
      BY <2>2
    <3> QED
      BY <3>1, <3>2 DEF Seen
  <2> QED
    BY <2>1, <2>2
<1>3. {k \in 0..limit : g[k] = 2} = {}
  BY <1>2
<1>4. from + limit > Len(stream)
  OBVIOUS
<1> QED
  BY <1>1, <1>3, <1>4 DEF Answer

\* A marker that is e bytes away, with none before it, and no byte before it
\* that begins a marker and is followed by another one.
FirstMarker(from, e, b) ==
    /\ e >= 2 /\ from + e <= Len(stream)
    /\ stream[from + e - 1] = 255 /\ stream[from + e] = b
    /\ \A i \in 1..e - 2 :
         stream[from + i] = 255 => /\ stream[from + (i + 1)] # 255
                                   /\ stream[from + (i + 1)] # b

\* It is found, if the search goes so far.
LEMMA SearchFinds ==
    ASSUME NEW from \in Nat, NEW limit \in Nat, NEW e \in Nat, NEW b \in Nat,
           b # 255, Len(stream) \in Nat, FirstMarker(from, e, b)
    PROVE  Frames!getEndOfSeqeunce(from, limit, <<255, b>>)
             = IF e <= limit THEN e ELSE -1
<1> DEFINE sequence == <<255, b>>
           n == Frames!getEndOfSeqeunce(from, limit, sequence)
<1>9. sequence[1] = 255 /\ sequence[2] = b
  OBVIOUS
<1> HIDE DEF sequence
<1>0. PICK g : IsSearch(g, from, limit, sequence, n)
  BY SearchDef
<1>1. /\ g[0] = 0
      /\ \A i \in 1..limit : g[i] = Seen(from, sequence, i, g[i - 1])
      /\ n = Answer({k \in 0..limit : g[k] = 2}, from, limit)
  BY <1>0 DEF IsSearch
<1> DEFINE Begun(i) == IF i >= 1 /\ stream[from + i] = 255 THEN 1 ELSE 0
           S == {i \in Nat : i <= limit /\ i <= e - 1 => g[i] = Begun(i)}
           Ends == {k \in 0..limit : g[k] = 2}
<1> USE DEF FirstMarker
<1>2. 0 \in S
  BY <1>1
<1>3. ASSUME NEW i \in Nat, i \in S PROVE i + 1 \in S
  <2> SUFFICES ASSUME i + 1 <= limit, i + 1 <= e - 1
               PROVE  g[i + 1] = Begun(i + 1)
    OBVIOUS
  <2>1. g[i] = Begun(i)
    BY <1>3
  <2>2. i + 1 \in 1..limit /\ (i + 1) - 1 = i
    OBVIOUS
  <2>3. g[i + 1] = Seen(from, sequence, i + 1, g[i])
    BY <1>1, <2>2
  <2>4. from + (i + 1) <= Len(stream)
    OBVIOUS
  <2>5. CASE i >= 1 /\ stream[from + i] = 255
    <3>1. i \in 1..e - 2 /\ g[i] = 1
      BY <2>1, <2>5
    <3>2. stream[from + (i + 1)] # 255 /\ stream[from + (i + 1)] # b
      BY <3>1, <2>5
    <3> QED
      BY <3>1, <3>2, <2>3, <2>4, <1>9 DEF Seen
  <2>6. CASE ~ (i >= 1 /\ stream[from + i] = 255)
    <3>1. g[i] = 0
      BY <2>1, <2>6
    <3> QED
      BY <3>1, <2>3, <2>4, <1>9 DEF Seen
  <2> QED
    BY <2>5, <2>6
<1>4. ASSUME NEW i \in 0..limit, i <= e - 1 PROVE g[i] = Begun(i)
  <2>1. Nat \subseteq S
    <3> HIDE DEF S
    <3> QED
      BY <1>2, <1>3, NatSetInduction
  <2> QED
    BY <2>1, <1>4
<1>5. ASSUME NEW i \in Ends PROVE i >= e
  BY <1>4, <1>5
<1>6. CASE e <= limit
  <2>1. e \in 1..limit /\ e - 1 \in 0..limit /\ from + (e - 1) = from + e - 1
    BY <1>6
  <2>2. g[e - 1] = 1
    BY <2>1, <1>4
  <2>3. g[e] = 2
    <3>1. g[e] = Seen(from, sequence, e, g[e - 1])
      BY <2>1, <1>1
    <3> QED
      BY <3>1, <2>2, <1>9 DEF Seen
  <2>4. e \in Ends
    BY <2>1, <2>3
  <2>5. n = First(Ends)
    BY <1>1, <2>4 DEF Answer
  <2>6. n \in Ends /\ n <= e
    <3>1. \A m \in Ends : e <= m
      BY <1>5
    <3> HIDE DEF Ends, n, S, Begun
    <3>2. \E k \in Ends : \A m \in Ends : k <= m
      BY <3>1, <2>4
    <3>3. n \in Ends /\ \A m \in Ends : n <= m
      BY <3>2, <2>5, FirstFacts
    <3> QED
      BY <3>3, <2>4
  <2>7. n \in Nat
    BY <2>6
  <2> HIDE DEF n, Ends
  <2>8. n >= e
    BY <2>6, <1>5
  <2> QED
    BY <1>6, <2>6, <2>7, <2>8 DEF n, sequence
<1>7. CASE ~ (e <= limit)
  <2>1. Ends = {}
    BY <1>5, <1>7
  <2>2. ~ (from + limit > Len(stream))
    BY <1>7
  <2> QED
    BY <2>1, <2>2, <1>1, <1>7 DEF sequence, Answer
<1> QED
  BY <1>6, <1>7

-----------------------------------------------------------------------------
\* The length of the header, and of the frame behind it, as they are read.
HeaderLen == Frames!HeaderLength(
               Frames!getEndOfSeqeunce(at, FRAME_MAX_LENGTH, <<255, 216>>))
FrameLen  == Frames!FrameLength(HeaderLen)

\* The length that a header gives.
LEMMA GivenRange ==
    ASSUME NEW s, \A i \in DOMAIN s : s[i] \in Nat
    PROVE  Frames!parseContentLength(s) \in Nat \cup {-1}
<1> DEFINE Given == {b \in Frames!ToSet(s) : Frames!IsLength(b)}
           b == CHOOSE b \in Frames!ToSet(s) : Frames!IsLength(b)
<1>1. CASE \E c \in Frames!ToSet(s) : Frames!IsLength(c)
  <2>1. b \in Frames!ToSet(s) /\ Frames!IsLength(b)
    BY <1>1
  <2>2. Frames!parseContentLength(s) = b - 1000
    BY <1>1 DEF Frames!parseContentLength
  <2> HIDE DEF b
  <2> QED
    BY <2>1, <2>2 DEF Frames!IsLength, Frames!ToSet
<1>2. CASE ~ \E c \in Frames!ToSet(s) : Frames!IsLength(c)
  BY <1>2 DEF Frames!parseContentLength, Frames!Missing
<1> QED
  BY <1>1, <1>2

\* A header without bytes gives no length.
LEMMA NothingGiven == Frames!parseContentLength(<<>>) = -1
BY DEF Frames!parseContentLength, Frames!Missing, Frames!ToSet

\* What the search near the last frame's length answers.
LEMMA NearRange ==
    ASSUME NEW from \in Nat, Len(stream) \in Nat, mContentLength \in Int
    PROVE  Frames!getEndOfSeqeunceSimplified(from).length
             \in Nat \cup {-1, -2}
<1> DEFINE startPos == IF mContentLength < 0 THEN 0 ELSE mContentLength \div 2
           endPos   == IF mContentLength < 0 THEN -1
                       ELSE (3 * mContentLength) \div 2
           skipped  == IF -1 + startPos < 0 THEN 0 ELSE -1 + startPos
           n        == IF endPos <= startPos THEN -1
                       ELSE Frames!getEndOfSeqeunce(from + skipped,
                              endPos - startPos, Frames!EOF_MARKER)
<1>1. Frames!getEndOfSeqeunceSimplified(from).length =
        IF n < 0 THEN n ELSE -1 + startPos + n
  BY DEF Frames!getEndOfSeqeunceSimplified, Frames!headerLen, Frames!Missing
<1>2. /\ startPos \in Nat /\ endPos \in Int /\ from + skipped \in Nat
      /\ (endPos > startPos => endPos - startPos \in Nat)
  OBVIOUS
<1> HIDE DEF startPos, endPos, skipped
<1>3. n = -1 \/ n = -2 \/ (n \in Nat /\ n >= 2)
  <2>1. CASE endPos <= startPos
    BY <2>1
  <2>2. CASE ~ (endPos <= startPos)
    <3>1. endPos - startPos \in Nat
      BY <1>2, <2>2
    <3>2. n = Frames!getEndOfSeqeunce(from + skipped, endPos - startPos,
                                      Frames!EOF_MARKER)
      BY <2>2
    <3> DEFINE a == from + skipped
               limit == endPos - startPos
    <3> HIDE DEF a, limit, n
    <3>3. \/ n = -1 \/ n = -2
          \/ n \in 2..limit /\ a + n <= Len(stream)
      BY <1>2, <3>1, <3>2, SearchRange DEF a, limit
    <3> QED
      BY <3>3, <3>1 DEF limit
  <2> QED
    BY <2>1, <2>2
<1> HIDE DEF n
<1> QED
  BY <1>1, <1>2, <1>3

\* What is read of a header and of a frame.
LEMMA LengthsRange ==
    ASSUME Frames!TypeOK, stream \in Seq(Nat)
    PROVE  /\ HeaderLen \in Nat \cup {-1, -2}
           /\ HeaderLen \in Nat => /\ at + HeaderLen <= Len(stream)
                                   /\ FrameLen \in Nat \cup {-1, -2, -3}
<1>0. /\ at \in Nat /\ Len(stream) \in Nat /\ mContentLength \in Int
      /\ FRAME_MAX_LENGTH \in Nat
  BY HomeAssumptions DEF Frames!TypeOK, Frames!FrameAssumption
<1> DEFINE n == Frames!getEndOfSeqeunce(at, FRAME_MAX_LENGTH, <<255, 216>>)
<1>1. n = -1 \/ n = -2
        \/ (n \in 2..FRAME_MAX_LENGTH /\ at + n <= Len(stream))
  BY <1>0, SearchRange
<1>2. HeaderLen = IF n < 0 THEN n ELSE n - 2
  BY DEF HeaderLen, Frames!HeaderLength, Frames!SOI_MARKER
<1> HIDE DEF n
<1>3. /\ HeaderLen \in Nat \cup {-1, -2}
      /\ HeaderLen \in Nat => at + HeaderLen <= Len(stream)
  BY <1>0, <1>1, <1>2
<1>4. ASSUME HeaderLen \in Nat PROVE FrameLen \in Nat \cup {-1, -2, -3}
  <2> DEFINE h == HeaderLen
             s == SubSeq(stream, at + 1, at + h)
             given == Frames!parseContentLength(s)
             near == Frames!getEndOfSeqeunceSimplified(at + h)
             worst == Frames!getEndOfSeqeunce(at, FRAME_MAX_LENGTH,
                                              Frames!EOF_MARKER)
  <2> HIDE DEF h
  <2>0. h \in Nat /\ at + h \in Nat /\ at + h <= Len(stream)
    BY <1>0, <1>3, <1>4 DEF h
  <2>1. given \in Nat \cup {-1}
    <3>1. \A i \in at + 1..at + h : stream[i] \in Nat
      BY <1>0, <2>0
    <3>2. s \in Seq(Nat)
      BY <1>0, <2>0, <3>1, SubSeqProperties
    <3> HIDE DEF s
    <3>3. \A i \in DOMAIN s : s[i] \in Nat
      BY <3>2
    <3> QED
      BY <3>3, GivenRange
  <2>2. near.length \in Nat \cup {-1, -2}
    BY <1>0, <2>0, NearRange
  <2>3. worst \in Nat \cup {-1, -2}
    <3>1. worst = -1 \/ worst = -2
            \/ (worst \in 2..FRAME_MAX_LENGTH /\ at + worst <= Len(stream))
      BY <1>0, SearchRange
    <3> HIDE DEF worst
    <3> QED
      BY <1>0, <3>1
  <2>4. FrameLen = IF given # -1 THEN given
                   ELSE IF near.length = -2 THEN -2
                   ELSE IF h + near.read > FRAME_MAX_LENGTH THEN -3
                   ELSE IF near.length # -1 THEN near.length ELSE worst
    BY DEF FrameLen, Frames!FrameLength, Frames!Missing, Frames!AtEnd,
           Frames!Unmarked, h
  <2> HIDE DEF given, near, worst
  <2> QED
    BY <2>1, <2>2, <2>3, <2>4
<1> QED
  BY <1>3, <1>4

\* A frame is returned, or the reading ends and nothing else changes.
Returns ==
    /\ HeaderLen \in Nat /\ FrameLen \in Nat
    /\ at + HeaderLen + FrameLen <= Len(stream)
    /\ frames' = Append(frames, [from |-> at + HeaderLen,
                                 to |-> at + HeaderLen + FrameLen])
    /\ at' = at + HeaderLen + FrameLen
    /\ mContentLength' = FrameLen
    /\ outcome = "frame" /\ outcome' = outcome

Ends ==
    /\ \/ outcome' = "ended" /\ HeaderLen = -2
       \/ /\ outcome' = "badLength"
          /\ HeaderLen = -1 \/ (HeaderLen \in Nat /\ FrameLen = -1)
       \/ outcome' = "markLost" /\ HeaderLen \in Nat /\ FrameLen = -3
       \/ /\ outcome' = "ioException"
          /\ HeaderLen \in Nat
          /\ \/ FrameLen = -2
             \/ FrameLen \in Nat /\ at + HeaderLen + FrameLen > Len(stream)
    /\ UNCHANGED <<at, mContentLength, frames>>

\* readMjpegFrame returns a frame or ends the reading.
LEMMA ReadCases ==
    ASSUME Frames!TypeOK, stream \in Seq(Nat), Frames!readMjpegFrame
    PROVE  /\ outcome = "frame" /\ UNCHANGED <<parts, stream>>
           /\ Returns \/ Ends
<1> DEFINE h == HeaderLen
           l == FrameLen
           to == at + h + l
           Go == IF to > Len(stream) THEN Frames!End("ioException")
                 ELSE /\ frames' = Append(frames, [from |-> at + h, to |-> to])
                      /\ at' = to
                      /\ mContentLength' = l
                      /\ UNCHANGED <<parts, stream, outcome>>
<1>1. /\ outcome = "frame"
      /\ CASE h = -2 -> Frames!End("ended")
           [] h = -1 -> Frames!End("badLength")
           [] h >= 0 /\ l = -2 -> Frames!End("ioException")
           [] h >= 0 /\ l = -3 -> Frames!End("markLost")
           [] h >= 0 /\ l = -1 -> Frames!End("badLength")
           [] h >= 0 /\ l >= 0 -> Go
  BY DEF Frames!readMjpegFrame, HeaderLen, FrameLen, Frames!SOI_MARKER,
         Frames!Missing, Frames!AtEnd, Frames!Unmarked
<1>2. /\ h \in Nat \cup {-1, -2}
      /\ h \in Nat => l \in Nat \cup {-1, -2, -3}
  BY LengthsRange
<1>3. at \in Nat /\ Len(stream) \in Nat
  BY DEF Frames!TypeOK
<1> HIDE DEF h, l, Go
<1>4. CASE h = -2
  <2>1. Frames!End("ended")
    BY <1>1, <1>4
  <2> QED
    BY <1>1, <1>4, <2>1 DEF Frames!End, Ends, h
<1>5. CASE h = -1
  <2>1. Frames!End("badLength")
    BY <1>1, <1>5
  <2> QED
    BY <1>1, <1>5, <2>1 DEF Frames!End, Ends, h
<1>6. CASE h \in Nat /\ l = -2
  <2>1. Frames!End("ioException")
    BY <1>1, <1>6
  <2> QED
    BY <1>1, <1>6, <2>1 DEF Frames!End, Ends, h, l
<1>9. CASE h \in Nat /\ l = -3
  <2>1. Frames!End("markLost")
    BY <1>1, <1>9
  <2> QED
    BY <1>1, <1>9, <2>1 DEF Frames!End, Ends, h, l
<1>7. CASE h \in Nat /\ l = -1
  <2>1. Frames!End("badLength")
    BY <1>1, <1>7
  <2> QED
    BY <1>1, <1>7, <2>1 DEF Frames!End, Ends, h, l
<1>8. CASE h \in Nat /\ l \in Nat
  <2>1. Go
    BY <1>1, <1>8
  <2>2. CASE to > Len(stream)
    <3>1. Frames!End("ioException")
      BY <2>1, <2>2 DEF Go
    <3> QED
      BY <1>1, <1>8, <2>2, <3>1 DEF Frames!End, Ends, h, l
  <2>3. CASE ~ (to > Len(stream))
    <3>1. /\ frames' = Append(frames, [from |-> at + h, to |-> to])
          /\ at' = to /\ mContentLength' = l
          /\ UNCHANGED <<parts, stream, outcome>>
      BY <2>1, <2>3 DEF Go
    <3>2. to <= Len(stream)
      BY <1>3, <1>8, <2>3
    <3> QED
      BY <1>1, <1>8, <3>1, <3>2 DEF Returns, h, l
  <2> QED
    BY <2>2, <2>3
<1> QED
  BY <1>2, <1>4, <1>5, <1>6, <1>7, <1>8, <1>9

-----------------------------------------------------------------------------
\* The reading is hl bytes before the image of part i.
Ahead(i, hl) ==
    /\ hl = 0 \/ hl = Len(parts[i].header)
    /\ at + hl = Frames!PartEnd(i - 1) + Len(parts[i].header)

\* What lies ahead then.
LEMMA AheadBytes ==
    ASSUME PartsOK, at \in Nat, NEW i \in 1..Len(parts), NEW hl, Ahead(i, hl)
    PROVE  LET h == parts[i].header
               f == parts[i].frame
           IN  /\ hl \in Nat /\ hl + 2 <= FRAME_MAX_LENGTH
               /\ f \in Seq(Nat) /\ Len(f) \in Nat /\ Len(f) >= 4
               /\ Len(h) \in Nat
               /\ at + hl + Len(f) = Frames!PartEnd(i)
               /\ at + hl + Len(f) <= Len(stream) /\ Len(stream) \in Nat
               /\ f[1] = 255 /\ f[2] = 216
               /\ f[Len(f) - 1] = 255 /\ f[Len(f)] = 217
               /\ \A j \in 1..hl : stream[at + j] = h[j] /\ h[j] # 255
               /\ \A j \in 1..Len(f) : stream[at + hl + j] = f[j]
<1> DEFINE q == parts[i]
           h == q.header
           f == q.frame
           from == Frames!PartEnd(i - 1)
<1>0. i \in 0..Len(parts) /\ i - 1 \in 0..Len(parts) /\ Len(parts) \in Nat
  BY DEF PartsOK
<1>1. /\ Len(stream) \in Nat /\ Frames!PartEnd(i) \in 0..Len(stream)
      /\ from \in 0..Len(stream)
  BY <1>0, PlaceOfParts
<1>2. /\ Frames!PartEnd(i) = from + Len(h) + Len(f)
      /\ \A j \in 1..Len(h) : stream[from + j] = h[j]
      /\ \A j \in 1..Len(f) : stream[from + Len(h) + j] = f[j]
  BY PlaceOfParts
<1>3. Frames!IsPart(q)
  BY DEF PartsOK
<1>4. /\ hl = 0 \/ hl = Len(h)
      /\ at + hl = from + Len(h)
  BY DEF Ahead
<1> HIDE DEF q, from
<1>5. /\ h \in Seq(Nat \ {255}) /\ f \in Seq(Nat)
      /\ Len(h) \in Nat /\ Len(h) + 2 <= FRAME_MAX_LENGTH
      /\ Len(f) \in Nat /\ Len(f) >= 4
      /\ f[1] = 255 /\ f[2] = 216 /\ f[Len(f) - 1] = 255 /\ f[Len(f)] = 217
  <2>1. h \in Seq(Nat \ {255}) /\ f \in Seq(Nat)
    BY <1>3, BytesFacts
  <2>2. Len(h) \in Nat /\ Len(h) + 2 <= FRAME_MAX_LENGTH
    BY <1>3, BytesFacts
  <2>3. Len(f) \in Nat /\ Len(f) >= 4
    BY <1>3, BytesFacts
  <2>4. f[1] = 255 /\ f[2] = 216 /\ f[Len(f) - 1] = 255 /\ f[Len(f)] = 217
    <3>1. /\ SubSeq(f, 1, 2) = <<255, 216>>
          /\ SubSeq(f, Len(f) - 1, Len(f)) = <<255, 217>>
      BY <1>3 DEF Frames!IsPart, Frames!SOI_MARKER, Frames!EOF_MARKER
    <3> HIDE DEF f
    <3> QED
      BY <2>1, <2>3, <3>1, FrameMarkers
  <2> QED
    BY <2>1, <2>2, <2>3, <2>4
<1>6. FRAME_MAX_LENGTH \in Nat
  BY HomeAssumptions DEF Frames!FrameAssumption
<1> HIDE DEF h, f
<1>7. hl \in Nat /\ hl + 2 <= FRAME_MAX_LENGTH
  BY <1>4, <1>5, <1>6
<1>8. ASSUME NEW j \in 1..hl PROVE stream[at + j] = h[j] /\ h[j] # 255
  <2>1. hl = Len(h) /\ at = from /\ j \in 1..Len(h)
    <3>1. hl # 0
      OBVIOUS
    <3>2. hl = Len(h)
      BY <1>4, <3>1
    <3> QED
      BY <1>1, <1>4, <1>5, <3>2
  <2>2. h[j] \in Nat \ {255}
    BY <2>1, <1>5
  <2> QED
    BY <2>1, <2>2, <1>2
<1>9. ASSUME NEW j \in 1..Len(f) PROVE stream[at + hl + j] = f[j]
  BY <1>1, <1>2, <1>4
<1>10. at + hl + Len(f) = Frames!PartEnd(i)
  BY <1>1, <1>2, <1>4
<1>11. at + hl + Len(f) <= Len(stream)
  BY <1>1, <1>10
<1> QED
  BY <1>1, <1>5, <1>7, <1>8, <1>9, <1>10, <1>11 DEF h, f, q

\* The start of the image is found.
LEMMA HeaderFound ==
    ASSUME PartsOK, at \in Nat, NEW i \in 1..Len(parts), NEW hl, Ahead(i, hl)
    PROVE  HeaderLen = hl
<1> DEFINE f == parts[i].frame
           h == parts[i].header
<1>1. /\ hl \in Nat /\ hl + 2 <= FRAME_MAX_LENGTH
      /\ Len(f) \in Nat /\ Len(f) >= 4
      /\ at + hl + Len(f) <= Len(stream) /\ Len(stream) \in Nat
      /\ f[1] = 255 /\ f[2] = 216
  BY AheadBytes
<1>7. \A j \in 1..hl : stream[at + j] = h[j] /\ h[j] # 255
  BY AheadBytes
<1>8. \A j \in 1..Len(f) : stream[at + hl + j] = f[j]
  BY AheadBytes
<1> HIDE DEF f, h
<1>2. stream[at + hl + 1] = 255 /\ stream[at + hl + 2] = 216
  <2>1. 1 \in 1..Len(f) /\ 2 \in 1..Len(f)
    BY <1>1
  <2>2. stream[at + hl + 1] = f[1] /\ stream[at + hl + 2] = f[2]
    BY <2>1, <1>8
  <2> QED
    BY <1>1, <2>2
<1>3. FirstMarker(at, hl + 2, 216)
  <2>1. at + (hl + 2) - 1 = at + hl + 1 /\ at + (hl + 2) = at + hl + 2
    BY <1>1
  <2>2. ASSUME NEW j \in 1..(hl + 2) - 2 PROVE stream[at + j] # 255
    <3>1. j \in 1..hl
      BY <1>1
    <3> QED
      BY <3>1, <1>7
  <2>3. hl + 2 >= 2 /\ at + (hl + 2) <= Len(stream)
    BY <1>1
  <2> QED
    BY <1>2, <2>1, <2>2, <2>3 DEF FirstMarker
<1>4. FRAME_MAX_LENGTH \in Nat
  BY HomeAssumptions DEF Frames!FrameAssumption
<1> DEFINE n == Frames!getEndOfSeqeunce(at, FRAME_MAX_LENGTH, <<255, 216>>)
<1>5. n = hl + 2
  <2> hl + 2 \in Nat
    BY <1>1
  <2>1. n = IF hl + 2 <= FRAME_MAX_LENGTH THEN hl + 2 ELSE -1
    BY <1>1, <1>3, <1>4, SearchFinds
  <2> QED
    BY <1>1, <2>1
<1>6. HeaderLen = IF n < 0 THEN n ELSE n - 2
  BY DEF HeaderLen, Frames!HeaderLength, Frames!SOI_MARKER
<1> HIDE DEF n
<1> QED
  BY <1>1, <1>5, <1>6

\* The header is read as it is, or without its bytes.
LEMMA HeaderRead ==
    ASSUME PartsOK, at \in Nat, NEW i \in 1..Len(parts), NEW hl, Ahead(i, hl)
    PROVE  /\ hl = 0 => SubSeq(stream, at + 1, at + hl) = <<>>
           /\ hl = Len(parts[i].header) =>
                SubSeq(stream, at + 1, at + hl) = parts[i].header
<1> DEFINE p == parts[i]
           h == p.header
<1>1. /\ hl \in Nat /\ Len(h) \in Nat
      /\ Len(stream) \in Nat
  BY AheadBytes
<1>6. \A j \in 1..hl : stream[at + j] = h[j] /\ h[j] # 255
  BY AheadBytes
<1>2. Frames!IsPart(p)
  BY DEF PartsOK
<1> HIDE DEF p
<1>3. h \in Seq(Nat \ {255})
  BY <1>2, BytesFacts
<1> HIDE DEF h
<1>4. ASSUME hl = 0 PROVE SubSeq(stream, at + 1, at + hl) = <<>>
  <2>1. at + 1 \in Int /\ at + hl \in Int /\ at + hl < at + 1
    BY <1>4
  <2> QED
    BY <2>1, SubSeqEmpty
<1>5. ASSUME hl = Len(h) PROVE SubSeq(stream, at + 1, at + hl) = h
  <2> DEFINE a == at + 1
             b == at + hl
             s == SubSeq(stream, a, b)
  <2>1. a \in Int /\ b \in Int /\ \A k \in a..b : stream[k] \in Nat
    <3> SUFFICES ASSUME NEW k \in a..b PROVE stream[k] \in Nat
      BY <1>1
    <3>1. k - at \in 1..hl /\ at + (k - at) = k
      BY <1>1
    <3>2. stream[k] = h[k - at] /\ h[k - at] \in Nat
      BY <3>1, <1>6, <1>3, <1>5
    <3> QED
      BY <3>2
  <2>2. b - a + 1 = hl /\ (IF a <= b THEN b - a + 1 ELSE 0) = hl
    BY <1>1
  <2> HIDE DEF a, b
  <2>3. /\ s \in Seq(Nat) /\ Len(s) = hl
        /\ \A j \in 1..hl : s[j] = stream[a + j - 1]
    BY <2>1, <2>2, SubSeqProperties
  <2> HIDE DEF s
  <2>4. \A j \in 1..hl : s[j] = h[j]
    <3> SUFFICES ASSUME NEW j \in 1..hl PROVE s[j] = h[j]
      OBVIOUS
    <3>1. a + j - 1 = at + j
      BY <1>1 DEF a
    <3> QED
      BY <3>1, <2>3, <1>6
  <2>5. h \in Seq(Nat)
    BY <1>3
  <2>6. s = h
    BY <1>5, <2>3, <2>4, <2>5, SeqEqual
  <2> QED
    BY <2>6 DEF s, a, b
<1> QED
  BY <1>4, <1>5 DEF h, p

\* A length that the header gives is the frame's.
LEMMA GivenFound ==
    ASSUME PartsOK, at \in Nat, NEW i \in 1..Len(parts),
           Ahead(i, Len(parts[i].header)),
           Frames!parseContentLength(parts[i].header) = Len(parts[i].frame)
    PROVE  FrameLen = Len(parts[i].frame)
<1> DEFINE hl == Len(parts[i].header)
           l == Len(parts[i].frame)
           s == SubSeq(stream, at + 1, at + hl)
<1>1. HeaderLen = hl
  BY HeaderFound
<1>2. s = parts[i].header
  BY HeaderRead
<1>3. l \in Nat
  BY AheadBytes
<1> HIDE DEF s
<1>4. Frames!parseContentLength(s) = l
  BY <1>2
<1> HIDE DEF hl, l
<1>5. l # -1
  BY <1>3
<1>6. FrameLen = l
  BY <1>1, <1>4, <1>5 DEF FrameLen, Frames!FrameLength, Frames!Missing, s
<1> QED
  BY <1>6 DEF l

\* A frame that begins no marker inside.
PlainFrame(f) == \A j \in 2..Len(f) - 2 : f[j] # 255

\* Part i lies ahead, and a search that begins k bytes away, at start, is d
\* bytes before its end.
EndAhead(i, hl, k, start, d) ==
    /\ i \in 1..Len(parts) /\ Ahead(i, hl)
    /\ k \in Nat /\ start \in Nat /\ d \in Nat
    /\ k = 0 \/ (k > hl /\ k <= hl + Len(parts[i].frame) - 2)
    /\ start = at + k
    /\ d = hl + Len(parts[i].frame) - k

\* The end of a plain frame is the first end that a search meets, if it begins
\* before the header or behind the frame's first byte.
LEMMA EndFound ==
    ASSUME PartsOK, at \in Nat, NEW i, NEW hl, NEW k, NEW start, NEW d,
           EndAhead(i, hl, k, start, d), PlainFrame(parts[i].frame),
           NEW limit \in Nat
    PROVE  Frames!getEndOfSeqeunce(start, limit, <<255, 217>>)
             = IF d <= limit THEN d ELSE -1
<1> DEFINE f == parts[i].frame
           h == parts[i].header
<1>0. i \in 1..Len(parts) /\ Ahead(i, hl)
  BY DEF EndAhead
<1>1. /\ hl \in Nat /\ Len(f) \in Nat /\ Len(f) >= 4
      /\ at + hl + Len(f) <= Len(stream) /\ Len(stream) \in Nat
      /\ f[1] = 255 /\ f[2] = 216
      /\ f[Len(f) - 1] = 255 /\ f[Len(f)] = 217
  BY <1>0, AheadBytes
<1>9. \A j \in 1..hl : stream[at + j] = h[j] /\ h[j] # 255
  BY <1>0, AheadBytes, SMTT(40)
<1>10. \A j \in 1..Len(f) : stream[at + hl + j] = f[j]
  BY <1>0, AheadBytes
<1>11. /\ k \in Nat /\ start \in Nat /\ d \in Nat
       /\ start = at + k /\ d = hl + Len(f) - k
  BY DEF EndAhead
<1>2. \A j \in 2..Len(f) - 2 : f[j] # 255
  BY DEF PlainFrame
<1>3. k = 0 \/ (k > hl /\ k <= hl + Len(f) - 2)
  BY DEF EndAhead
<1> HIDE DEF f, h
<1>4. d \in Nat /\ d >= 2 /\ start + d <= Len(stream) /\ start \in Nat
  BY <1>1, <1>3, <1>11
<1>5. stream[start + d - 1] = 255 /\ stream[start + d] = 217
  <2>1. Len(f) - 1 \in 1..Len(f) /\ Len(f) \in 1..Len(f)
    BY <1>1
  <2>2. /\ stream[at + hl + (Len(f) - 1)] = 255
        /\ stream[at + hl + Len(f)] = 217
    <3>1. /\ stream[at + hl + (Len(f) - 1)] = f[Len(f) - 1]
          /\ stream[at + hl + Len(f)] = f[Len(f)]
      BY <2>1, <1>10
    <3> QED
      BY <3>1, <1>1
  <2>3. /\ start + d - 1 = at + hl + (Len(f) - 1)
        /\ start + d = at + hl + Len(f)
    BY <1>1, <1>4, <1>11
  <2> QED
    BY <2>2, <2>3
<1>6. ASSUME NEW j \in 1..d - 2, stream[start + j] = 255
      PROVE  /\ stream[start + (j + 1)] # 255
             /\ stream[start + (j + 1)] # 217
  <2>1. k + j > hl
    <3> SUFFICES ASSUME ~ (k + j > hl) PROVE FALSE
      OBVIOUS
    <3>1. k = 0 /\ j \in 1..hl /\ start + j = at + j
      BY <1>1, <1>3, <1>11
    <3>2. stream[at + j] # 255
      BY <3>1, <1>9
    <3> QED
      BY <3>1, <3>2, <1>6
  <2> DEFINE m == k + j - hl
  <2>2. m \in 1..Len(f) - 2 /\ start + j = at + hl + m
        /\ start + (j + 1) = at + hl + (m + 1)
        /\ m \in 1..Len(f) /\ m + 1 \in 1..Len(f)
    BY <1>1, <1>4, <1>11, <2>1
  <2> HIDE DEF m
  <2>3. f[m] = 255
    BY <1>6, <1>10, <2>2
  <2>4. ~ (m \in 2..Len(f) - 2)
    BY <1>2, <2>3
  <2>5. m = 1
    BY <2>2, <2>4, <1>1
  <2>6. stream[at + hl + 2] = 216
    <3>1. 2 \in 1..Len(f)
      BY <1>1
    <3>2. stream[at + hl + 2] = f[2]
      BY <3>1, <1>10
    <3> QED
      BY <3>2, <1>1
  <2> QED
    BY <2>2, <2>5, <2>6
<1>7. FirstMarker(start, d, 217)
  BY <1>4, <1>5, <1>6 DEF FirstMarker
<1>8. Frames!getEndOfSeqeunce(start, limit, <<255, 217>>)
        = IF d <= limit THEN d ELSE -1
  <2>1. 217 \in Nat /\ 217 # 255
    OBVIOUS
  <2> DEFINE n == Frames!getEndOfSeqeunce(start, limit, <<255, 217>>)
  <2>2. start \in Nat /\ d \in Nat /\ Len(stream) \in Nat
    BY <1>1, <1>4
  <2>3. n = IF d <= limit THEN d ELSE -1
    BY <1>7, <2>1, <2>2, SearchFinds
  <2> HIDE DEF n
  <2> QED
    BY <2>3 DEF n
<1> QED
  BY <1>8

\* The search near the length of the last frame, if it was not twice as long,
\* finds the frame's length, or nothing if the frame is one half as long again,
\* and does not read beyond the frame.
LEMMA NearFound ==
    ASSUME PartsOK, at \in Nat, NEW i \in 1..Len(parts), NEW hl, Ahead(i, hl),
           PlainFrame(parts[i].frame),
           \/ mContentLength = -1
           \/ /\ mContentLength \in Nat /\ mContentLength >= 4
              /\ mContentLength < 2 * Len(parts[i].frame)
    PROVE  LET near == Frames!getEndOfSeqeunceSimplified(at + hl)
               l == Len(parts[i].frame)
           IN  /\ near.length \in {-1, l}
               /\ near.read \in Nat /\ near.read <= l
               /\ near.length = -1 =>
                    mContentLength = -1 \/ (3 * mContentLength) \div 2 <= l
<1> DEFINE l == Len(parts[i].frame)
           m == mContentLength
           startPos == IF m < 0 THEN 0 ELSE m \div 2
           endPos   == IF m < 0 THEN -1 ELSE (3 * m) \div 2
           skipped  == IF -1 + startPos < 0 THEN 0 ELSE -1 + startPos
           n        == IF endPos <= startPos THEN -1
                       ELSE Frames!getEndOfSeqeunce((at + hl) + skipped,
                              endPos - startPos, <<255, 217>>)
           near == Frames!getEndOfSeqeunceSimplified(at + hl)
<1>1. /\ near.length = IF n < 0 THEN n ELSE -1 + startPos + n
      /\ near.read = IF n < 0 THEN skipped + (IF endPos > startPos
                                              THEN endPos - startPos ELSE 0)
                     ELSE skipped + n
  BY DEF Frames!getEndOfSeqeunceSimplified, Frames!headerLen, Frames!Missing,
         Frames!EOF_MARKER
<1> HIDE DEF near
<1>2. hl \in Nat /\ l \in Nat /\ l >= 4
  BY AheadBytes
<1>3. CASE m = -1
  <2>1. n = -1 /\ skipped = 0 /\ startPos = 0 /\ endPos = -1
    BY <1>3
  <2> HIDE DEF n, startPos, endPos, skipped, l
  <2> QED
    BY <1>1, <1>2, <1>3, <2>1 DEF near, l
<1>4. CASE m \in Nat /\ m >= 4 /\ m < 2 * l
  <2>1. /\ startPos \in Nat /\ startPos >= 2 /\ startPos < l
        /\ endPos \in Nat /\ endPos > startPos
        /\ skipped = startPos - 1
        /\ endPos = (3 * m) \div 2
    BY <1>2, <1>4
  <2> HIDE DEF startPos, endPos, skipped, m
  <2> DEFINE k == hl + skipped
             limit == endPos - startPos
             d == l - skipped
  <2>2. /\ k \in Nat /\ k > hl /\ k <= hl + l - 2 /\ limit \in Nat
        /\ (at + hl) + skipped = at + k
        /\ hl + l - k = d /\ d \in Nat /\ -1 + startPos + d = l
    BY <1>2, <2>1
  <2>3. n = Frames!getEndOfSeqeunce(at + k, limit, <<255, 217>>)
    BY <2>1, <2>2
  <2> HIDE DEF k, limit, n
  <2>4. n = IF d <= limit THEN d ELSE -1
    <3> DEFINE start == at + k
    <3>1. start = at + k /\ start \in Nat
      BY <2>2
    <3>2. EndAhead(i, hl, k, start, d)
      BY <2>2, <3>1 DEF EndAhead
    <3>3. limit \in Nat
      BY <2>2
    <3> HIDE DEF start, d, l
    <3>4. Frames!getEndOfSeqeunce(start, limit, <<255, 217>>)
            = IF d <= limit THEN d ELSE -1
      BY <3>2, <3>3, EndFound
    <3> QED
      BY <2>3, <3>1, <3>4
  <2>5. limit = endPos - startPos /\ d = l - skipped
    BY DEF limit
  <2> HIDE DEF d, l
  <2>6. CASE d <= limit
    <3>1. n = d /\ near.length = l /\ near.read = l
      BY <1>1, <1>2, <2>1, <2>2, <2>4, <2>5, <2>6
    <3> QED
      BY <1>2, <3>1 DEF near, l
  <2>7. CASE ~ (d <= limit)
    <3>1. n = -1 /\ near.length = -1 /\ endPos <= l
      BY <1>1, <1>2, <2>1, <2>2, <2>4, <2>5, <2>7
    <3>2. near.read = skipped + (endPos - startPos)
      BY <1>1, <2>1, <3>1
    <3>3. near.read \in Nat /\ near.read <= l
      BY <1>2, <2>1, <3>1, <3>2
    <3> QED
      BY <2>1, <3>1, <3>3 DEF near, l, m
  <2> QED
    BY <2>6, <2>7
<1> QED
  BY <1>3, <1>4

\* Without a length in the header, the search finds the frame, with the bytes
\* of the header counted or not; they are for a frame that is the first one
\* or one half as long again as what was read for the one before.
LEMMA SearchedFound ==
    ASSUME PartsOK, at \in Nat, NEW i \in 1..Len(parts), NEW hl, Ahead(i, hl),
           PlainFrame(parts[i].frame),
           Frames!parseContentLength(parts[i].header) = -1,
           Len(parts[i].header) + Len(parts[i].frame) <= FRAME_MAX_LENGTH,
           \/ mContentLength = -1
           \/ /\ mContentLength \in Nat /\ mContentLength >= 4
              /\ mContentLength < 2 * Len(parts[i].frame)
    PROVE  LET l == Len(parts[i].frame)
           IN  /\ FrameLen \in {l, hl + l}
               /\ FrameLen # l =>
                    mContentLength = -1 \/ (3 * mContentLength) \div 2 <= l
<1> DEFINE l == Len(parts[i].frame)
           s == SubSeq(stream, at + 1, at + hl)
           given == Frames!parseContentLength(s)
           near == Frames!getEndOfSeqeunceSimplified(at + hl)
           worst == Frames!getEndOfSeqeunce(at, FRAME_MAX_LENGTH, <<255, 217>>)
<1>1. HeaderLen = hl
  BY HeaderFound
<1>2. /\ hl \in Nat /\ l \in Nat /\ Len(parts[i].header) \in Nat
      /\ FRAME_MAX_LENGTH \in Nat
  BY AheadBytes, HomeAssumptions DEF Frames!FrameAssumption
<1>3. given = -1
  <2>1. hl = 0 => s = <<>>
    BY HeaderRead
  <2>2. hl = Len(parts[i].header) => s = parts[i].header
    BY HeaderRead
  <2>3. hl = 0 \/ hl = Len(parts[i].header)
    BY DEF Ahead
  <2> HIDE DEF s
  <2> QED
    BY <2>1, <2>2, <2>3, NothingGiven
<1>4. /\ near.length \in {-1, l}
      /\ near.read \in Nat /\ near.read <= l
      /\ near.length = -1 =>
           mContentLength = -1 \/ (3 * mContentLength) \div 2 <= l
  BY NearFound
<1>9. hl + l <= FRAME_MAX_LENGTH
  <2> DEFINE h == Len(parts[i].header)
  <2>1. hl = 0 \/ hl = h
    BY DEF Ahead
  <2>2. h + l <= FRAME_MAX_LENGTH
    OBVIOUS
  <2> HIDE DEF h, l
  <2> QED
    BY <1>2, <2>1, <2>2 DEF h
<1>5. worst = hl + l
  <2> DEFINE d == hl + l
  <2>1. EndAhead(i, hl, 0, at, d)
    BY <1>2 DEF EndAhead
  <2>3. d <= FRAME_MAX_LENGTH
    BY <1>9
  <2> HIDE DEF d
  <2>4. worst = IF d <= FRAME_MAX_LENGTH THEN d ELSE -1
    BY <1>2, <2>1, EndFound
  <2> QED
    BY <2>3, <2>4 DEF d
<1>6. FrameLen = IF given # -1 THEN given
                 ELSE IF near.length = -2 THEN -2
                 ELSE IF hl + near.read > FRAME_MAX_LENGTH THEN -3
                 ELSE IF near.length # -1 THEN near.length ELSE worst
  BY <1>1 DEF FrameLen, Frames!FrameLength, Frames!Missing, Frames!AtEnd,
              Frames!Unmarked, Frames!EOF_MARKER
<1> HIDE DEF given, near, worst, l
<1>7. near.length # -2 /\ ~ (hl + near.read > FRAME_MAX_LENGTH)
  BY <1>2, <1>4, <1>9
<1>8. FrameLen = IF near.length # -1 THEN near.length ELSE worst
  BY <1>3, <1>6, <1>7
<1>10. CASE near.length = -1
  BY <1>4, <1>5, <1>8, <1>10 DEF l
<1>11. CASE near.length # -1
  BY <1>4, <1>8, <1>11 DEF l
<1> QED
  BY <1>10, <1>11

-----------------------------------------------------------------------------
\* With their lengths, the frames so far are those of the parts, and the
\* reading is where the last one ends.
InOrder ==
    /\ Len(frames) <= Len(parts)
    /\ at = Frames!PartEnd(Len(frames))
    /\ \A k \in 1..Len(frames) : frames[k] = Frames!PartFrame(k)
    /\ outcome = "ended" => Len(frames) = Len(parts)
    /\ outcome \in {"frame", "ended"}

\* The last frame is the one that is lost.
LastIsLost ==
    LET last == Len(parts)
    IN  /\ Len(frames) = last - 1
        /\ parts[last].header # <<>>
        /\ last > 1 => 2 * Len(parts[last].frame)
                         >= 3 * Len(parts[last - 1].frame) - 1

\* When they are searched for, the reading is where the last frame ends or
\* behind the header of the next one, and no more than the last part has been
\* taken for its frame.
Searched ==
    /\ Len(frames) <= Len(parts)
    /\ \/ at = Frames!PartEnd(Len(frames))
       \/ /\ Len(frames) < Len(parts)
          /\ at = Frames!PartEnd(Len(frames))
                    + Len(parts[Len(frames) + 1].header)
    /\ \/ Len(frames) = 0 /\ mContentLength = -1
       \/ /\ Len(frames) > 0
          /\ Len(parts[Len(frames)].frame) <= mContentLength
          /\ mContentLength <= Len(parts[Len(frames)].header)
                                 + Len(parts[Len(frames)].frame)
    /\ \A k \in 1..Len(frames) :
         /\ frames[k].from = Frames!PartFrame(k).from
         /\ frames[k].to >= Frames!PartFrame(k).to
         /\ frames[k].to <= Frames!PartFrame(k).to + Len(parts[k].header)
    /\ outcome = "ended" => Len(frames) = Len(parts)
    /\ outcome = "ioException" => LastIsLost
    /\ outcome \notin {"markLost", "badLength"}

FramesInv ==
    /\ Frames!TypeOK
    /\ frames \in Seq([from : Nat, to : Nat])
    /\ PartsOK
    /\ Frames!WithLength => InOrder
    /\ Frames!WithoutLength /\ Frames!PlainFrames => Searched

\* What the invariant says of numbers.
LEMMA FramesTypes ==
    ASSUME FramesInv
    PROVE  /\ at \in Nat /\ Len(stream) \in Nat /\ at <= Len(stream)
           /\ mContentLength \in Int /\ stream \in Seq(Nat)
           /\ Len(parts) \in Nat \ {0} /\ Len(frames) \in Nat
           /\ Frames!TypeOK /\ PartsOK
<1>1. /\ Frames!TypeOK /\ PartsOK /\ Len(frames) \in Nat
  BY DEF FramesInv
<1>2. stream \in Seq(Nat) /\ Len(stream) \in Nat
  BY <1>1, PlaceOfParts
<1>3. Len(parts) \in Nat \ {0}
  BY <1>1 DEF PartsOK
<1>4. at \in 0..Len(stream) /\ mContentLength \in -1..Len(stream)
  BY <1>1 DEF Frames!TypeOK
<1> QED
  BY <1>1, <1>2, <1>3, <1>4

\* The parts do not change, nor does where they are.
LEMMA PartsStay ==
    ASSUME UNCHANGED <<parts, stream>>
    PROVE  /\ PartsOK => PartsOK'
           /\ Frames!WithLength' = Frames!WithLength
           /\ Frames!WithoutLength' = Frames!WithoutLength
           /\ Frames!PlainFrames' = Frames!PlainFrames
           /\ \A k : Frames!PartEnd(k)' = Frames!PartEnd(k)
           /\ \A k : Frames!PartFrame(k)' = Frames!PartFrame(k)
BY DEF PartsOK, Frames!WithLength, Frames!WithoutLength, Frames!PlainFrames,
       Frames!PartEnd, Frames!PartFrame, Frames!parseContentLength

\* A frame returned is one more record, and the types stay.
LEMMA ReturnsTypes ==
    ASSUME FramesInv, Returns, UNCHANGED <<parts, stream>>
    PROVE  /\ Frames!TypeOK' /\ frames' \in Seq([from : Nat, to : Nat])
           /\ Len(frames') = Len(frames) + 1
           /\ \A k \in 1..Len(frames) : frames'[k] = frames[k]
           /\ frames'[Len(frames) + 1] = [from |-> at + HeaderLen,
                                          to |-> at + HeaderLen + FrameLen]
<1> DEFINE Spans == [from : Nat, to : Nat]
           r == [from |-> at + HeaderLen, to |-> at + HeaderLen + FrameLen]
<1>1. /\ at \in Nat /\ Len(stream) \in Nat /\ at <= Len(stream)
      /\ Len(frames) \in Nat /\ frames \in Seq(Spans)
  BY FramesTypes DEF FramesInv
<1>2. /\ HeaderLen \in Nat /\ FrameLen \in Nat
      /\ at + HeaderLen + FrameLen <= Len(stream)
      /\ frames' = Append(frames, r)
      /\ at' = at + HeaderLen + FrameLen
      /\ mContentLength' = FrameLen
      /\ outcome' = outcome
  BY DEF Returns
<1>3. r \in Spans /\ r.from = at + HeaderLen /\ r.to = at'
  BY <1>1, <1>2
<1> HIDE DEF r, Spans
<1>4. /\ frames' \in Seq(Spans) /\ Len(frames') = Len(frames) + 1
      /\ \A k \in 1..Len(frames) : frames'[k] = frames[k]
      /\ frames'[Len(frames) + 1] = r
  BY <1>1, <1>2, <1>3, AppendProperties
<1>5. Frames!TypeOK'
  <2>1. /\ parts' \in Seq(UNION Cameras) /\ outcome' \in Frames!Outcomes
        /\ \A f \in Frames!ToSet(frames) :
             0 <= f.from /\ f.from <= f.to /\ f.to <= at
    BY <1>2 DEF FramesInv, Frames!TypeOK
  <2>2. at' \in 0..Len(stream') /\ mContentLength' \in -1..Len(stream')
    BY <1>1, <1>2
  <2>3. ASSUME NEW f \in Frames!ToSet(frames')
        PROVE  0 <= f.from /\ f.from <= f.to /\ f.to <= at'
    <3>1. PICK k \in 1..Len(frames') : f = frames'[k]
      BY <1>4 DEF Frames!ToSet
    <3>2. CASE k \in 1..Len(frames)
      <4>1. f \in Frames!ToSet(frames)
        BY <3>1, <3>2, <1>1, <1>4 DEF Frames!ToSet
      <4>2. f \in Spans
        BY <3>1, <3>2, <1>1, <1>4
      <4>3. f.from \in Nat /\ f.to \in Nat
        BY <4>2 DEF Spans
      <4> QED
        BY <4>1, <4>3, <2>1, <1>1, <1>2
    <3>3. CASE k = Len(frames) + 1
      BY <3>1, <3>3, <1>1, <1>2, <1>3, <1>4
    <3> QED
      BY <3>1, <3>2, <3>3, <1>1, <1>4
  <2> QED
    BY <2>1, <2>2, <2>3 DEF Frames!TypeOK
<1> QED
  BY <1>4, <1>5 DEF Spans, r

\* The invariant stays when the reading ends, if it ends as it should.
LEMMA EndsInv ==
    ASSUME FramesInv, Ends, UNCHANGED <<parts, stream>>,
           Frames!WithLength =>
             outcome' = "ended" /\ Len(frames) = Len(parts),
           Frames!WithoutLength /\ Frames!PlainFrames =>
             \/ outcome' = "ended" /\ Len(frames) = Len(parts)
             \/ outcome' = "ioException" /\ LastIsLost
    PROVE  FramesInv'
<1>1. /\ UNCHANGED <<parts, stream, at, mContentLength, frames>>
      /\ outcome' \in {"ended", "badLength", "markLost", "ioException"}
  BY DEF Ends
<1>2. Frames!TypeOK' /\ frames' \in Seq([from : Nat, to : Nat])
  BY <1>1 DEF FramesInv, Frames!TypeOK, Frames!Outcomes
<1>3. PartsOK'
  BY PartsStay DEF FramesInv
<1>4. ASSUME Frames!WithLength' PROVE InOrder'
  <2>1. Frames!WithLength
    BY <1>4, PartsStay
  <2>2. InOrder
    BY <2>1 DEF FramesInv
  <2>3. outcome' = "ended" /\ Len(frames) = Len(parts)
    BY <2>1
  <2>4. /\ \A k : Frames!PartEnd(k)' = Frames!PartEnd(k)
        /\ \A k : Frames!PartFrame(k)' = Frames!PartFrame(k)
    BY PartsStay
  <2> QED
    BY <1>1, <2>2, <2>3, <2>4 DEF InOrder
<1>5. ASSUME Frames!WithoutLength', Frames!PlainFrames' PROVE Searched'
  <2>1. Frames!WithoutLength /\ Frames!PlainFrames
    BY <1>5, PartsStay
  <2>2. Searched
    BY <2>1 DEF FramesInv
  <2>3. \/ outcome' = "ended" /\ Len(frames) = Len(parts)
        \/ outcome' = "ioException" /\ LastIsLost
    BY <2>1
  <2>5. LastIsLost' <=> LastIsLost
    BY <1>1 DEF LastIsLost
  <2>4. /\ \A k : Frames!PartEnd(k)' = Frames!PartEnd(k)
        /\ \A k : Frames!PartFrame(k)' = Frames!PartFrame(k)
    BY PartsStay
  <2> QED
    BY <1>1, <2>2, <2>3, <2>4, <2>5 DEF Searched
<1> QED
  BY <1>2, <1>3, <1>4, <1>5 DEF FramesInv

-----------------------------------------------------------------------------
\* What frames that are searched for are like.
LEMMA WithoutLengthFacts ==
    ASSUME PartsOK, Frames!WithoutLength, NEW i \in 1..Len(parts)
    PROVE  /\ Frames!parseContentLength(parts[i].header) = -1
           /\ \A j \in 1..Len(parts) :
                Len(parts[i].header) = Len(parts[j].header)
           /\ Len(parts[i].header) + Len(parts[i].frame) <= FRAME_MAX_LENGTH
           /\ i > 1 => Len(parts[i - 1].header) + Len(parts[i - 1].frame)
                         < 2 * Len(parts[i].frame)
<1>1. DOMAIN parts = 1..Len(parts) /\ Len(parts) \in Nat
  BY DEF PartsOK
<1>2. \A j \in 1..Len(parts) :
        /\ Frames!parseContentLength(parts[i].header) = -1
        /\ Len(parts[i].header) = Len(parts[j].header)
        /\ Len(Frames!PartBytes(parts[i])) <= FRAME_MAX_LENGTH
        /\ i = j + 1 => 2 * Len(parts[i].frame)
                          > Len(Frames!PartBytes(parts[j]))
  BY <1>1 DEF Frames!WithoutLength, Frames!Missing
<1>3. ASSUME NEW j \in 1..Len(parts)
      PROVE  /\ Len(Frames!PartBytes(parts[j]))
                  = Len(parts[j].header) + Len(parts[j].frame)
             /\ Len(parts[j].header) \in Nat /\ Len(parts[j].frame) \in Nat
  <2> DEFINE q == parts[j]
  <2>1. Frames!IsPart(q)
    BY DEF PartsOK
  <2> HIDE DEF q
  <2>2. /\ Len(Frames!PartBytes(q)) = Len(q.header) + Len(q.frame)
        /\ Len(q.header) \in Nat /\ Len(q.frame) \in Nat
    BY <2>1, BytesFacts
  <2> QED
    BY <2>2 DEF q
<1>4. Len(parts[i].header) + Len(parts[i].frame) <= FRAME_MAX_LENGTH
  BY <1>2, <1>3
<1>5. ASSUME i > 1
      PROVE  Len(parts[i - 1].header) + Len(parts[i - 1].frame)
               < 2 * Len(parts[i].frame)
  <2> DEFINE j == i - 1
  <2>1. j \in 1..Len(parts) /\ i = j + 1
    BY <1>1, <1>5
  <2> HIDE DEF j
  <2>2. /\ 2 * Len(parts[i].frame) > Len(Frames!PartBytes(parts[j]))
        /\ Len(Frames!PartBytes(parts[j]))
             = Len(parts[j].header) + Len(parts[j].frame)
        /\ Len(parts[j].header) \in Nat /\ Len(parts[j].frame) \in Nat
        /\ Len(parts[i].frame) \in Nat
    BY <1>2, <1>3, <2>1
  <2>3. Len(parts[j].header) + Len(parts[j].frame) < 2 * Len(parts[i].frame)
    BY <2>2
  <2> QED
    BY <2>3 DEF j
<1> QED
  BY <1>2, <1>4, <1>5

\* The frames of plain parts are plain.
LEMMA PlainFacts ==
    ASSUME PartsOK, Frames!PlainFrames, NEW i \in 1..Len(parts)
    PROVE  PlainFrame(parts[i].frame)
<1> DEFINE q == parts[i]
<1>1. Frames!IsPart(q)
  BY DEF PartsOK
<1>2. DOMAIN parts = 1..Len(parts)
  BY DEF PartsOK
<1>3. q.plain
  BY <1>2, Zenon DEF Frames!PlainFrames
<1> HIDE DEF q
<1>4. q.plain => \A j \in 2..Len(q.frame) - 2 : q.frame[j] # Frames!FF
  BY <1>1, Zenon DEF Frames!IsPart
<1>5. \A j \in 2..Len(q.frame) - 2 : q.frame[j] # 255
  BY <1>3, <1>4, Zenon DEF Frames!FF
<1> QED
  BY <1>5, Zenon DEF PlainFrame, q

\* At the end of the stream no image starts.
LEMMA NothingAhead ==
    ASSUME FramesInv, at = Len(stream)
    PROVE  HeaderLen = -2
<1>1. Len(stream) \in Nat /\ Len(parts) \in Nat \ {0} /\ PartsOK
  BY FramesTypes
<1>2. FRAME_MAX_LENGTH \in Nat \ {0}
  <2> DEFINE q == parts[1]
  <2>1. Frames!IsPart(q)
    BY <1>1 DEF PartsOK
  <2> HIDE DEF q
  <2>2. Len(q.header) \in Nat /\ Len(q.header) + 2 <= FRAME_MAX_LENGTH
    BY <2>1, BytesFacts
  <2>3. FRAME_MAX_LENGTH \in Nat
    BY HomeAssumptions DEF Frames!FrameAssumption
  <2> QED
    BY <2>2, <2>3
<1> DEFINE n == Frames!getEndOfSeqeunce(at, FRAME_MAX_LENGTH, <<255, 216>>)
<1>3. n = -2
  BY <1>1, <1>2, SearchEnds
<1>4. HeaderLen = IF n < 0 THEN n ELSE n - 2
  BY DEF HeaderLen, Frames!HeaderLength, Frames!SOI_MARKER
<1> HIDE DEF n
<1> QED
  BY <1>3, <1>4

\* The next frame, if the headers give the lengths.
LEMMA NextInOrder ==
    ASSUME FramesInv, Frames!WithLength
    PROVE  LET n == Len(frames)
           IN  \/ n = Len(parts) /\ HeaderLen = -2
               \/ /\ n + 1 \in 1..Len(parts)
                  /\ HeaderLen \in Nat /\ FrameLen \in Nat
                  /\ FrameLen = Len(parts[n + 1].frame)
                  /\ at + HeaderLen + FrameLen = Frames!PartEnd(n + 1)
                  /\ at + HeaderLen + FrameLen <= Len(stream)
<1> DEFINE n == Len(frames)
           i == n + 1
<1>1. /\ at \in Nat /\ Len(stream) \in Nat /\ n \in Nat
      /\ Len(parts) \in Nat /\ PartsOK
  BY FramesTypes
<1>2. n <= Len(parts) /\ at = Frames!PartEnd(n)
  BY DEF FramesInv, InOrder
<1> HIDE DEF n
<1>3. CASE n = Len(parts)
  <2>1. at = Len(stream)
    BY <1>1, <1>2, <1>3, PlaceOfParts
  <2> QED
    BY <1>3, <2>1, NothingAhead DEF n
<1>4. CASE n # Len(parts)
  <2> DEFINE h == Len(parts[i].header)
  <2>1. i \in 1..Len(parts) /\ i - 1 = n
    BY <1>1, <1>2, <1>4
  <2>2. Ahead(i, h)
    BY <1>2, <2>1 DEF Ahead
  <2> HIDE DEF i
  <2>3. HeaderLen = h
    BY <1>1, <2>1, <2>2, HeaderFound
  <2> DEFINE l == Len(parts[i].frame)
  <2>4. /\ h \in Nat /\ l \in Nat
        /\ at + h + l = Frames!PartEnd(i) /\ at + h + l <= Len(stream)
    <3> HIDE DEF h
    <3> QED
      BY <1>1, <2>1, <2>2, AheadBytes
  <2>5. DOMAIN parts = 1..Len(parts)
    BY <1>1 DEF PartsOK
  <2>6. Frames!parseContentLength(parts[i].header) = Len(parts[i].frame)
    BY <2>1, <2>5 DEF Frames!WithLength
  <2>7. FrameLen = l
    BY <1>1, <2>1, <2>2, <2>6, GivenFound
  <2>8. /\ HeaderLen \in Nat /\ FrameLen \in Nat
        /\ at + HeaderLen + FrameLen = Frames!PartEnd(i)
        /\ at + HeaderLen + FrameLen <= Len(stream)
    <3> HIDE DEF h, l
    <3> QED
      BY <2>3, <2>4, <2>7
  <2> QED
    BY <2>1, <2>7, <2>8 DEF i, n
<1> QED
  BY <1>3, <1>4

\* The next frame, if it is searched for.
LEMMA NextSearched ==
    ASSUME FramesInv, Frames!WithoutLength, Frames!PlainFrames
    PROVE  LET n == Len(frames)
               l == Len(parts[n + 1].frame)
           IN  \/ n = Len(parts) /\ HeaderLen = -2
               \/ /\ n + 1 \in 1..Len(parts)
                  /\ Ahead(n + 1, HeaderLen)
                  /\ HeaderLen \in Nat /\ l \in Nat
                  /\ FrameLen \in {l, HeaderLen + l}
                  /\ FrameLen # l =>
                       \/ mContentLength = -1
                       \/ (3 * mContentLength) \div 2 <= l
                  /\ at + HeaderLen + l = Frames!PartEnd(n + 1)
                  /\ at + HeaderLen + l <= Len(stream)
<1> DEFINE n == Len(frames)
           i == n + 1
<1>1. /\ at \in Nat /\ Len(stream) \in Nat /\ n \in Nat
      /\ at <= Len(stream) /\ mContentLength \in Int
      /\ Len(parts) \in Nat /\ PartsOK
  BY FramesTypes
<1>2. /\ n <= Len(parts)
      /\ \/ at = Frames!PartEnd(n)
         \/ /\ n < Len(parts)
            /\ at = Frames!PartEnd(n) + Len(parts[i].header)
      /\ \/ n = 0 /\ mContentLength = -1
         \/ /\ n > 0 /\ Len(parts[n].frame) <= mContentLength
            /\ mContentLength <= Len(parts[n].header) + Len(parts[n].frame)
  BY DEF FramesInv, Searched
<1> HIDE DEF n
<1>3. CASE n = Len(parts)
  <2>1. at = Len(stream)
    BY <1>1, <1>2, <1>3, PlaceOfParts
  <2> QED
    BY <1>3, <2>1, NothingAhead DEF n
<1>4. CASE n # Len(parts)
  <2> DEFINE h == Len(parts[i].header)
             l == Len(parts[i].frame)
             hl == IF at = Frames!PartEnd(n) THEN h ELSE 0
  <2>1. i \in 1..Len(parts) /\ i - 1 = n /\ i - 1 \in 0..Len(parts)
    BY <1>1, <1>2, <1>4
  <2>2. Frames!PartEnd(n) \in Nat
    BY <1>1, <2>1, PlaceOfParts
  <2>3. Ahead(i, hl)
    BY <1>1, <1>2, <2>1, <2>2 DEF Ahead
  <2> HIDE DEF i, hl
  <2>4. HeaderLen = hl
    BY <1>1, <2>1, <2>3, HeaderFound
  <2>5. /\ hl \in Nat /\ l \in Nat
        /\ at + hl + l = Frames!PartEnd(i) /\ at + hl + l <= Len(stream)
    BY <1>1, <2>1, <2>3, AheadBytes
  <2>6. /\ Frames!parseContentLength(parts[i].header) = -1
        /\ h + l <= FRAME_MAX_LENGTH
        /\ i > 1 => Len(parts[i - 1].header) + Len(parts[i - 1].frame) < 2 * l
    BY <1>1, <2>1, WithoutLengthFacts
  <2>7. PlainFrame(parts[i].frame)
    BY <1>1, <2>1, PlainFacts
  <2>8. \/ mContentLength = -1
        \/ /\ mContentLength \in Nat /\ mContentLength >= 4
           /\ mContentLength < 2 * l
    <3>1. CASE n = 0
      BY <1>2, <3>1
    <3>2. CASE n # 0
      <4>1. n \in 1..Len(parts) /\ i > 1
        BY <1>1, <1>2, <3>2 DEF i
      <4> DEFINE q == parts[n]
      <4>2. Frames!IsPart(q)
        BY <1>1, <4>1 DEF PartsOK
      <4> HIDE DEF q
      <4>3. /\ Len(q.frame) \in Nat /\ Len(q.frame) >= 4
            /\ Len(q.header) \in Nat
        BY <4>2, BytesFacts
      <4> DEFINE a == Len(q.header)
                 b == Len(q.frame)
      <4>6. b \in Nat /\ b >= 4 /\ a \in Nat
        BY <4>3
      <4>4. b <= mContentLength /\ mContentLength <= a + b
        BY <1>2, <3>2 DEF q
      <4>5. a + b < 2 * l
        BY <2>1, <2>6, <4>1 DEF q
      <4> HIDE DEF l, a, b
      <4> QED
        BY <1>1, <2>5, <4>4, <4>5, <4>6
    <3> QED
      BY <3>1, <3>2
  <2>9. /\ FrameLen \in {l, hl + l}
        /\ FrameLen # l =>
             mContentLength = -1 \/ (3 * mContentLength) \div 2 <= l
    BY <1>1, <2>1, <2>3, <2>6, <2>7, <2>8, SearchedFound
  <2> QED
    BY <2>1, <2>3, <2>4, <2>5, <2>9 DEF i, n
<1> QED
  BY <1>3, <1>4

\* A frame is returned: it is the next one.
LEMMA ReturnsInv ==
    ASSUME FramesInv, Returns, UNCHANGED <<parts, stream>>
    PROVE  FramesInv'
<1> PICK n : n = Len(frames)
  OBVIOUS
<1> DEFINE i == n + 1
<1>1. /\ at \in Nat /\ Len(stream) \in Nat /\ n \in Nat
      /\ Len(parts) \in Nat /\ PartsOK
  BY FramesTypes
<1>2. /\ Frames!TypeOK' /\ frames' \in Seq([from : Nat, to : Nat])
      /\ Len(frames') = i
      /\ \A k \in 1..n : frames'[k] = frames[k]
      /\ frames'[i] = [from |-> at + HeaderLen,
                       to |-> at + HeaderLen + FrameLen]
  BY ReturnsTypes
<1>3. /\ HeaderLen \in Nat /\ FrameLen \in Nat
      /\ at + HeaderLen + FrameLen <= Len(stream)
      /\ at' = at + HeaderLen + FrameLen
      /\ mContentLength' = FrameLen
      /\ outcome' = "frame"
  BY DEF Returns
<1>4. PartsOK'
  BY <1>1, PartsStay
<1>5. /\ \A k : Frames!PartEnd(k)' = Frames!PartEnd(k)
      /\ \A k : Frames!PartFrame(k)' = Frames!PartFrame(k)
  BY PartsStay
<1>6. ASSUME Frames!WithLength' PROVE InOrder'
  <2>1. Frames!WithLength
    BY <1>6, PartsStay
  <2>2. InOrder
    BY <2>1 DEF FramesInv
  <2> DEFINE l == Len(parts[i].frame)
  <2>3. /\ i \in 1..Len(parts) /\ FrameLen = l
        /\ at + HeaderLen + FrameLen = Frames!PartEnd(i)
    BY <1>3, <2>1, NextInOrder
  <2>4. frames'[i] = Frames!PartFrame(i)
    <3>1. Frames!PartFrame(i) = [from |-> Frames!PartEnd(i) - l,
                                 to |-> Frames!PartEnd(i)]
      BY DEF Frames!PartFrame
    <3> HIDE DEF l, i
    <3>2. at + HeaderLen = Frames!PartEnd(i) - l
      BY <1>1, <1>3, <2>3
    <3> QED
      BY <1>2, <2>3, <3>1, <3>2
  <2>5. \A k \in 1..i : frames'[k] = Frames!PartFrame(k)
    <3> SUFFICES ASSUME NEW k \in 1..i PROVE frames'[k] = Frames!PartFrame(k)
      OBVIOUS
    <3>1. CASE k = i
      BY <2>4, <3>1
    <3>2. CASE k # i
      <4>1. k \in 1..n
        BY <1>1, <3>2
      <4> QED
        BY <1>2, <2>2, <4>1 DEF InOrder
    <3> QED
      BY <3>1, <3>2
  <2>7. at' = Frames!PartEnd(i) /\ i <= Len(parts)
    <3> HIDE DEF l
    <3> QED
      BY <1>1, <1>3, <2>3
  <2> HIDE DEF i, l
  <2>8. Len(frames') = i /\ parts' = parts
    BY <1>2
  <2>9. Frames!PartEnd(Len(frames))' = Frames!PartEnd(i)
    BY <1>5, <2>8
  <2>10. \A k \in 1..Len(frames') : frames'[k] = Frames!PartFrame(k)'
    BY <1>5, <2>5, <2>8
  <2> QED
    BY <1>3, <2>7, <2>8, <2>9, <2>10 DEF InOrder
<1>7. ASSUME Frames!WithoutLength', Frames!PlainFrames' PROVE Searched'
  <2>1. Frames!WithoutLength /\ Frames!PlainFrames
    BY <1>7, PartsStay
  <2>2. Searched
    BY <2>1 DEF FramesInv
  <2> DEFINE l == Len(parts[i].frame)
             h == Len(parts[i].header)
  <2>3. /\ i \in 1..Len(parts) /\ Ahead(i, HeaderLen)
        /\ l \in Nat /\ FrameLen \in {l, HeaderLen + l}
        /\ at + HeaderLen + l = Frames!PartEnd(i)
    BY <1>3, <2>1, NextSearched
  <2>4. HeaderLen = 0 \/ HeaderLen = h
    BY <2>3 DEF Ahead
  <2>5. h \in Nat
    BY <1>1, <2>3, AheadBytes
  <2>6. /\ frames'[i].from = Frames!PartFrame(i).from
        /\ frames'[i].to >= Frames!PartFrame(i).to
        /\ frames'[i].to <= Frames!PartFrame(i).to + h
    <3>2. Frames!PartFrame(i).from = Frames!PartEnd(i) - l
          /\ Frames!PartFrame(i).to = Frames!PartEnd(i)
      BY DEF Frames!PartFrame
    <3> HIDE DEF i, l, h
    <3>4. Frames!PartEnd(i) \in Int
      BY <1>1, <1>3, <2>3
    <3>1. at + HeaderLen = Frames!PartEnd(i) - l
      BY <1>1, <1>3, <2>3
    <3>3. /\ at + HeaderLen + FrameLen >= Frames!PartEnd(i)
          /\ at + HeaderLen + FrameLen <= Frames!PartEnd(i) + h
      BY <1>1, <1>3, <2>3, <2>4, <2>5
    <3> QED
      BY <1>2, <3>1, <3>2, <3>3
  <2>7. \A k \in 1..i :
          /\ frames'[k].from = Frames!PartFrame(k).from
          /\ frames'[k].to >= Frames!PartFrame(k).to
          /\ frames'[k].to <= Frames!PartFrame(k).to + Len(parts[k].header)
    <3> SUFFICES ASSUME NEW k \in 1..i
                 PROVE  /\ frames'[k].from = Frames!PartFrame(k).from
                        /\ frames'[k].to >= Frames!PartFrame(k).to
                        /\ frames'[k].to <= Frames!PartFrame(k).to
                                              + Len(parts[k].header)
      OBVIOUS
    <3>1. CASE k = i
      BY <2>6, <3>1
    <3>2. CASE k # i
      <4>1. k \in 1..n
        BY <1>1, <3>2
      <4> QED
        BY <1>2, <2>2, <4>1 DEF Searched
    <3> QED
      BY <3>1, <3>2
  <2>9. /\ i > 0 /\ l <= mContentLength' /\ mContentLength' <= h + l
    <3> HIDE DEF l, h
    <3> QED
      BY <1>1, <1>3, <2>3, <2>4, <2>5
  <2>10. \/ at' = Frames!PartEnd(i)
         \/ /\ i < Len(parts)
            /\ at' = Frames!PartEnd(i) + Len(parts[i + 1].header)
    <3>1. CASE FrameLen = l
      BY <1>3, <2>3, <3>1
    <3>2. CASE FrameLen # l
      <4>1. /\ FrameLen = HeaderLen + l /\ HeaderLen = h /\ h > 0
            /\ at' = Frames!PartEnd(i) + h
        <5> HIDE DEF l, h
        <5> QED
          BY <1>1, <1>3, <2>3, <2>4, <2>5, <3>2
      <4>2. i # Len(parts)
        <5>1. Frames!PartEnd(Len(parts)) = Len(stream)
          BY <1>1, PlaceOfParts
        <5> HIDE DEF l, h
        <5> QED
          BY <1>1, <1>3, <2>5, <4>1, <5>1
      <4>3. i + 1 \in 1..Len(parts) /\ i < Len(parts)
        BY <1>1, <2>3, <4>2
      <4>4. Len(parts[i + 1].header) = h
        BY <1>1, <2>1, <2>3, <4>3, WithoutLengthFacts
      <4> QED
        BY <4>1, <4>3, <4>4
    <3> QED
      BY <3>1, <3>2
  <2>11. i <= Len(parts)
    BY <1>1, <2>3
  <2>12. /\ Len(frames') = i /\ parts' = parts
         /\ \A k : Frames!PartFrame(k)' = Frames!PartFrame(k)
    BY <1>2, <1>5
  <2>14. Frames!PartEnd(Len(frames))' = Frames!PartEnd(i)
    BY <1>5, <2>12
  <2> HIDE DEF i
  <2>13. \A k \in 1..Len(frames') :
            /\ frames'[k].from = Frames!PartFrame(k)'.from
            /\ frames'[k].to >= Frames!PartFrame(k)'.to
            /\ frames'[k].to <= Frames!PartFrame(k)'.to + Len(parts[k].header)
    BY <2>7, <2>12
  <2> QED
    BY <1>3, <2>9, <2>10, <2>11, <2>12, <2>13, <2>14 DEF Searched
<1> QED
  BY <1>2, <1>4, <1>6, <1>7 DEF FramesInv

-----------------------------------------------------------------------------
\* The reading ends: nothing is left, or the last frame and too few bytes
\* behind it for the header that is counted with it.
LEMMA EndsSearched ==
    ASSUME FramesInv, Ends, Frames!WithoutLength, Frames!PlainFrames
    PROVE  \/ outcome' = "ended" /\ Len(frames) = Len(parts)
           \/ outcome' = "ioException" /\ LastIsLost
<1> PICK n : n = Len(frames)
  OBVIOUS
<1> DEFINE i == n + 1
           l == Len(parts[i].frame)
           h == Len(parts[i].header)
           m == mContentLength
<1>1. /\ at \in Nat /\ Len(stream) \in Nat /\ n \in Nat
      /\ Len(parts) \in Nat /\ PartsOK /\ m \in Int
  BY FramesTypes
<1>2. CASE n = Len(parts) /\ HeaderLen = -2
  BY <1>2 DEF Ends
<1>3. CASE ~ (n = Len(parts) /\ HeaderLen = -2)
  <2>1. /\ i \in 1..Len(parts) /\ Ahead(i, HeaderLen)
        /\ HeaderLen \in Nat /\ l \in Nat
        /\ FrameLen \in {l, HeaderLen + l}
        /\ FrameLen # l => m = -1 \/ (3 * m) \div 2 <= l
        /\ at + HeaderLen + l = Frames!PartEnd(i)
        /\ at + HeaderLen + l <= Len(stream)
    BY <1>3, NextSearched
  <2> HIDE DEF l, m
  <2>2. FrameLen \in Nat
    BY <2>1
  <2>3. outcome' = "ioException" /\ at + HeaderLen + FrameLen > Len(stream)
    BY <2>1, <2>2 DEF Ends
  <2>4. FrameLen = HeaderLen + l /\ HeaderLen > 0 /\ FrameLen # l
    BY <1>1, <2>1, <2>2, <2>3
  <2>5. HeaderLen = h /\ h \in Nat \ {0}
    <3>1. HeaderLen = 0 \/ HeaderLen = h
      BY <2>1 DEF Ahead
    <3> QED
      BY <2>1, <2>4, <3>1
  <2>6. i = Len(parts)
    <3> SUFFICES ASSUME i # Len(parts) PROVE FALSE
      OBVIOUS
    <3> DEFINE j == i + 1
               hh == Len(parts[j].header)
               ll == Len(parts[j].frame)
    <3>1. j \in 1..Len(parts) /\ j - 1 = i /\ j \in 0..Len(parts)
      BY <1>1, <2>1
    <3> HIDE DEF i, j
    <3>2. /\ Frames!PartEnd(j) = Frames!PartEnd(i) + hh + ll
          /\ Frames!PartEnd(j) \in 0..Len(stream)
      BY <1>1, <3>1, PlaceOfParts
    <3>3. ll \in Nat /\ hh = h
      <4> DEFINE q == parts[j]
      <4>1. Frames!IsPart(q)
        BY <1>1, <3>1 DEF PartsOK
      <4> HIDE DEF q
      <4>2. Len(q.frame) \in Nat
        BY <4>1, BytesFacts
      <4>3. hh = h
        BY <1>1, <2>1, <3>1, WithoutLengthFacts
      <4> QED
        BY <4>2, <4>3 DEF q
    <3> HIDE DEF h, hh, ll
    <3> QED
      BY <1>1, <2>1, <2>3, <2>4, <2>5, <3>2, <3>3
  <2>7. parts[i].header # <<>>
    BY <2>5
  <2>8. i > 1 => 2 * l >= 3 * Len(parts[i - 1].frame) - 1
    <3> SUFFICES ASSUME i > 1
                 PROVE  2 * l >= 3 * Len(parts[i - 1].frame) - 1
      OBVIOUS
    <3>1. n > 0 /\ n = i - 1 /\ n \in 1..Len(parts)
      BY <1>1, <2>6
    <3> DEFINE b == Len(parts[n].frame)
    <3>2. b <= m
      <4>1. \/ Len(frames) = 0 /\ mContentLength = -1
            \/ /\ Len(frames) > 0
               /\ Len(parts[Len(frames)].frame) <= mContentLength
        BY DEF FramesInv, Searched
      <4> QED
        BY <3>1, <4>1 DEF m
    <3>3. b \in Nat
      <4> DEFINE q == parts[n]
      <4>1. Frames!IsPart(q)
        BY <1>1, <3>1 DEF PartsOK
      <4> HIDE DEF q
      <4>2. Len(q.frame) \in Nat
        BY <4>1, BytesFacts
      <4> QED
        BY <4>2 DEF q
    <3> HIDE DEF b
    <3>4. (3 * m) \div 2 <= l
      BY <1>1, <2>1, <2>4, <3>2, <3>3
    <3>5. 2 * l >= 3 * b - 1
      BY <1>1, <2>1, <3>2, <3>3, <3>4
    <3> QED
      BY <3>1, <3>5 DEF b
  <2>9. n = Len(parts) - 1
    BY <1>1, <2>6
  <2>10. LastIsLost
    BY <2>6, <2>7, <2>8, <2>9 DEF LastIsLost, l
  <2> QED
    BY <2>3, <2>10
<1> QED
  BY <1>2, <1>3

\* A connection of any of the servers, of which nothing has been read.
LEMMA InitFramesInv == Frames!Init => FramesInv
<1> SUFFICES ASSUME Frames!Init PROVE FramesInv
  OBVIOUS
<1>1. PICK Server \in Cameras, n \in 1..MaxParts : parts \in [1..n -> Server]
  BY DEF Frames!Init
<1>2. /\ at = 0 /\ mContentLength = -1 /\ frames = <<>> /\ outcome = "frame"
      /\ stream = Frames!FlattenSeq([i \in DOMAIN parts |->
                                       Frames!PartBytes(parts[i])])
  BY DEF Frames!Init
<1>3. MaxParts \in Nat /\ n \in Nat \ {0}
  BY HomeAssumptions DEF Frames!FrameAssumption
<1>4. parts \in Seq(Server) /\ Len(parts) = n /\ DOMAIN parts = 1..n
  BY <1>1, <1>3, FcnSeq
<1>5. \A p \in Server : Frames!IsPart(p)
  BY <1>1, HomeAssumptions DEF Frames!FrameAssumption
<1>6. parts \in Seq(UNION Cameras)
  <2>1. \A i \in 1..n : parts[i] \in UNION Cameras
    BY <1>1
  <2>2. parts \in [1..n -> UNION Cameras]
    BY <1>1, <2>1
  <2> QED
    BY <1>3, <2>2, FcnSeq
<1>7. PartsOK
  <2>1. \A i \in 1..Len(parts) : Frames!IsPart(parts[i])
    BY <1>1, <1>4, <1>5
  <2> QED
    BY <1>2, <1>3, <1>4, <1>6, <2>1 DEF PartsOK
<1>8. Len(stream) \in Nat /\ Len(parts) \in Nat /\ Frames!PartEnd(0) = 0
  BY <1>7, PlaceOfParts
<1>9. Frames!TypeOK
  <2>1. Frames!ToSet(frames) = {}
    BY <1>2 DEF Frames!ToSet
  <2> QED
    BY <1>2, <1>6, <1>8, <2>1 DEF Frames!TypeOK, Frames!Outcomes
<1>10. frames \in Seq([from : Nat, to : Nat]) /\ Len(frames) = 0
  BY <1>2
<1>11. InOrder
  BY <1>2, <1>8, <1>10 DEF InOrder
<1>12. Searched
  BY <1>2, <1>8, <1>10 DEF Searched
<1> QED
  BY <1>7, <1>9, <1>10, <1>11, <1>12 DEF FramesInv

\* Every read of a frame.
LEMMA ReadMjpegFrameInv == FramesInv /\ Frames!readMjpegFrame => FramesInv'
<1> SUFFICES ASSUME FramesInv, Frames!readMjpegFrame PROVE FramesInv'
  OBVIOUS
<1>1. UNCHANGED <<parts, stream>> /\ (Returns \/ Ends)
  BY FramesTypes, ReadCases
<1>2. CASE Returns
  BY <1>1, <1>2, ReturnsInv
<1>3. CASE Ends
  <2>1. Frames!WithLength => outcome' = "ended" /\ Len(frames) = Len(parts)
    BY <1>3, NextInOrder, FramesTypes DEF Ends
  <2>2. Frames!WithoutLength /\ Frames!PlainFrames =>
          \/ outcome' = "ended" /\ Len(frames) = Len(parts)
          \/ outcome' = "ioException" /\ LastIsLost
    BY <1>3, EndsSearched
  <2> QED
    BY <1>1, <1>3, <2>1, <2>2, EndsInv
<1> QED
  BY <1>1, <1>2, <1>3

\* Every step of a connection.
LEMMA StepFramesInv ==
    FramesInv /\ [Frames!Next]_(Frames!vars) => FramesInv'
<1>1. ASSUME FramesInv, UNCHANGED Frames!vars
      PROVE  FramesInv'
  <2>1. UNCHANGED <<parts, stream, at, mContentLength, frames, outcome>>
    BY <1>1 DEF Frames!vars
  <2>2. /\ PartsOK => PartsOK'
        /\ Frames!WithLength' = Frames!WithLength
        /\ Frames!WithoutLength' = Frames!WithoutLength
        /\ Frames!PlainFrames' = Frames!PlainFrames
        /\ \A k : Frames!PartEnd(k)' = Frames!PartEnd(k)
        /\ \A k : Frames!PartFrame(k)' = Frames!PartFrame(k)
    BY <2>1, PartsStay
  <2>3. Frames!TypeOK'
    BY <1>1, <2>1 DEF FramesInv, Frames!TypeOK
  <2>4. InOrder => InOrder'
    BY <2>1, <2>2 DEF InOrder
  <2>6. LastIsLost' <=> LastIsLost
    BY <2>1 DEF LastIsLost
  <2>5. Searched => Searched'
    BY <2>1, <2>2, <2>6 DEF Searched
  <2> QED
    BY <1>1, <2>1, <2>2, <2>3, <2>4, <2>5 DEF FramesInv
<1> QED
  BY <1>1, ReadMjpegFrameInv DEF Frames!Next, Frames!Closed

\* What the invariant says of the frames.
LEMMA FramesInvImplies ==
    FramesInv => /\ Frames!TypeOK /\ Frames!FramesInOrder
                 /\ Frames!FramesAreFound /\ Frames!LosesOnlyTheLast
<1> SUFFICES ASSUME FramesInv
             PROVE  /\ Frames!TypeOK /\ Frames!FramesInOrder
                    /\ Frames!FramesAreFound /\ Frames!LosesOnlyTheLast
  OBVIOUS
<1>1. Frames!TypeOK /\ DOMAIN frames = 1..Len(frames)
  BY DEF FramesInv
<1>2. Frames!FramesInOrder
  BY <1>1 DEF FramesInv, InOrder, Frames!FramesInOrder
<1>3. ASSUME Frames!WithoutLength, Frames!PlainFrames, NEW k \in DOMAIN frames
      PROVE  /\ k <= Len(parts)
             /\ frames[k].from = Frames!PartFrame(k).from
             /\ frames[k].to >= Frames!PartFrame(k).to
             /\ frames[k].to <= Frames!PartFrame(k).to + Len(parts[k].header)
  <2>1. Searched
    BY <1>3 DEF FramesInv
  <2>2. Len(frames) \in Nat /\ Len(parts) \in Nat
    BY FramesTypes
  <2>3. k \in 1..Len(frames) /\ Len(frames) <= Len(parts)
    BY <1>1, <1>3, <2>1 DEF Searched
  <2>4. k <= Len(parts)
    BY <2>2, <2>3
  <2> QED
    BY <2>1, <2>3, <2>4 DEF Searched
<1>4. Frames!FramesAreFound
  BY <1>3 DEF FramesInv, Searched, Frames!FramesAreFound
<1>5. Frames!LosesOnlyTheLast
  BY DEF FramesInv, Searched, LastIsLost, Frames!LosesOnlyTheLast
<1> QED
  BY <1>1, <1>2, <1>4, <1>5

\* readMjpegFrame returns the frames of a connection in order and whole,
\* however many there are and however long: all of them by the lengths in the
\* headers; by searching for the end of each, all but perhaps the last, which
\* is lost when the header that is counted with it is not there to be read.
THEOREM FramesCome ==
    Frames!Spec => [](/\ Frames!FramesInOrder /\ Frames!FramesAreFound
                      /\ Frames!LosesOnlyTheLast)
<1> QED
  BY InitFramesInv, StepFramesInv, FramesInvImplies, PTL DEF Frames!Spec

-----------------------------------------------------------------------------
(* The parts together.                                                     *)

\* A step of Home is one of its part or leaves it alone.
LEMMA StepOfMessages ==
    [Next]_vars /\ part = "messages" =>
        [Messages!Next]_(Messages!vars) /\ (part = "messages")'
BY DEF Next, vars, messageVars, Messages!vars, Messages!prefVars,
       Messages!systemVars, Messages!activityVars

\* The messages of a behaviour of Home are followed: what plays is what is
\* remembered for the next start, and an activity that a notification started
\* follows every later URL, through restarts, deaths of the process and
\* messages that overtake each other.
THEOREM Followed == Spec => MessagesAreFollowed
<1> DEFINE Inv == part = "messages" => MessagesInv
<1>1. Init => Inv
  BY InitMessagesInv DEF Init
<1>2. Inv /\ [Next]_vars => Inv'
  <2>1. [Next]_vars /\ part # "messages" => (part # "messages")'
    BY DEF Next, vars
  <2> QED
    BY <2>1, StepOfMessages, StepMessagesInv
<1>3. Inv =>
        (part = "messages" => Messages!TypeOK /\ Messages!LastUrlRemembered)
  BY DEF MessagesInv
<1>4. Inv /\ [Next]_vars =>
        [Messages!processMessageFromHome /\ activity # "none"
           /\ intent.action = "HOME_NOTIFICATION" =>
           \A k \in Messages!Urls : Head(broadcasts)[k] # Nothing =>
                             playing'[k] = Head(broadcasts)[k]]_(Messages!vars)
  <2>1. [Next]_vars /\ part # "messages" => UNCHANGED Messages!vars
    BY DEF Next, vars, messageVars, Messages!vars, Messages!prefVars,
           Messages!systemVars, Messages!activityVars
  <2> QED
    BY <2>1, StepOfMessages, ProcessMessageInv
<1> QED
  BY <1>1, <1>2, <1>3, <1>4, PTL
     DEF Spec, MessagesAreFollowed, Messages!MessageIsFollowed

\* The same for the images.
LEMMA StepOfImage ==
    [Next]_vars /\ part = "image" =>
        [Image!Next]_(Image!vars) /\ (part = "image")'
BY DEF Next, vars, imageVars, Image!vars, Image!bufferVars, Image!rowVars

\* Whatever frames came before, a whole frame of the bitmap's size is shown as
\* it is, in a behaviour of Home.
THEOREM Shown == Spec => FramesAreShown
<1> DEFINE Inv == part = "image" => ImageInv
<1>1. Init => Inv
  BY InitImageInv DEF Init
<1>2. Inv /\ [Next]_vars => Inv'
  <2>1. [Next]_vars /\ part # "image" => (part # "image")'
    BY DEF Next, vars
  <2> QED
    BY <2>1, StepOfImage, StepImageInv
<1>3. Inv =>
        (part = "image" => /\ Image!TypeOK /\ Image!PixelsInPlace
                           /\ Image!FaultHasCause)
  BY DEF ImageInv, BitmapOK
<1>4. Inv /\ [Next]_vars =>
        [Image!pixeltobmp /\ Image!Copyable /\ pc' = "idle"
           /\ frame.kind = "whole" /\ frame.standard
           /\ frame.width = BitmapWidth /\ frame.height = BitmapHeight =>
           \A r \in 0..BitmapHeight - 1, c \in 0..BitmapWidth - 1 :
             bitmap'[r * BitmapWidth + c + 1]
               = Image!Pixel(count, frame, r, c)]_(Image!vars)
  <2>1. [Next]_vars /\ part # "image" => UNCHANGED Image!vars
    BY DEF Next, vars, imageVars, Image!vars, Image!bufferVars, Image!rowVars
  <2> QED
    BY <2>1, StepOfImage, PixeltobmpInv
<1> QED
  BY <1>1, <1>2, <1>3, <1>4, PTL
     DEF Spec, FramesAreShown, Image!BitmapShowsFrame

\* The same for a connection.
LEMMA StepOfFrames ==
    [Next]_vars /\ part = "frames" =>
        [Frames!Next]_(Frames!vars) /\ (part = "frames")'
BY DEF Next, vars, frameVars, Frames!vars

\* The same for a response.
LEMMA StepOfResponse ==
    [Next]_vars /\ part = "response" =>
        [Response!Next]_(Response!vars) /\ (part = "response")'
BY DEF Next, vars, responseVars, Response!vars

\* In a behaviour of Home the frames of a connection are read in order and
\* whole, and the object of a response is returned whole.
THEOREM InputsRead == Spec => []InputsAreRead
<1> DEFINE InvF == part = "frames" => FramesInv
           InvR == part = "response" => ResponseInv
<1>1. Init => InvF /\ InvR
  BY InitFramesInv, InitResponseInv DEF Init
<1>2. InvF /\ [Next]_vars => InvF'
  <2>1. [Next]_vars /\ part # "frames" => (part # "frames")'
    BY DEF Next, vars
  <2> QED
    BY <2>1, StepOfFrames, StepFramesInv
<1>3. InvR /\ [Next]_vars => InvR'
  <2>1. [Next]_vars /\ part # "response" => (part # "response")'
    BY DEF Next, vars
  <2> QED
    BY <2>1, StepOfResponse, StepResponseInv
<1>4. InvF /\ InvR => InputsAreRead
  <2>1. ResponseInv => /\ Response!TypeOK /\ Response!ReturnsObject
                       /\ Response!EndsWithEvenBraces
    BY DEF ResponseInv, Object, ReadsObject, Response!ReturnsObject
  <2> QED
    BY <2>1, FramesInvImplies DEF InputsAreRead
<1> QED
  BY <1>1, <1>2, <1>3, <1>4, PTL DEF Spec

-----------------------------------------------------------------------------
(* HomeExecutor.                                                           *)

\* Tasks leave the queue in their order: what comes after a task that is
\* queued or runs is queued.
SerialInv ==
    \A t, u \in 1..Len(tasks) :
        t < u /\ tasks[t].step # "done" => tasks[u].step = "queued"

\* Results are those of finished tasks, newer ones behind older ones, and newer
\* than the read that the view has shown last, which is finished too.
ResultInv ==
    /\ \A i \in 1..Len(posted) : tasks[posted[i]].step = "done"
    /\ \A i \in 1..Len(posted) : source < posted[i]
    /\ \A i, j \in 1..Len(posted) : i < j => posted[i] < posted[j]
    /\ source # 0 => tasks[source].step = "done"

ExecutorInv ==
    /\ Executor!TypeOK
    /\ SerialInv
    /\ ResultInv

\* The elements of a sequence, and of the one that Append makes of it.
LEMMA AppendFacts ==
    ASSUME NEW S, NEW s \in Seq(S), NEW e \in S
    PROVE  /\ Append(s, e) \in Seq(S)
           /\ Len(Append(s, e)) = Len(s) + 1
           /\ \A i \in 1..Len(s) : Append(s, e)[i] = s[i]
           /\ Append(s, e)[Len(s) + 1] = e
BY AppendProperties

\* The elements of a sequence without its first.
LEMMA TailFacts ==
    ASSUME NEW S, NEW s \in Seq(S), s # <<>>
    PROVE  /\ Tail(s) \in Seq(S)
           /\ Len(s) \in Nat /\ Len(s) >= 1
           /\ Len(Tail(s)) = Len(s) - 1
           /\ \A i \in 1..Len(Tail(s)) : Tail(s)[i] = s[i + 1]
           /\ Head(s) = s[1] /\ Head(s) \in S
BY HeadTailProperties, LenProperties, EmptySeq

\* A sequence is one over any larger set.
LEMMA WiderSeq ==
    ASSUME NEW S, NEW T, NEW s \in Seq(S), S \subseteq T
    PROVE  s \in Seq(T)
OBVIOUS

\* The kinds and places of the tasks, and which task a number is that of.
LEMMA TypeFacts ==
    ASSUME Executor!TypeOK
    PROVE  /\ \A t \in 1..Len(tasks) :
                 /\ tasks[t].kind \in Executor!Kinds
                 /\ tasks[t].step \in Executor!Steps
           /\ \A i \in 1..Len(posted) : posted[i] \in 1..Len(tasks)
           /\ Len(tasks) \in Nat /\ Len(posted) \in Nat
           /\ source \in 0..Len(tasks) /\ job \in 0..Len(tasks)
           /\ DOMAIN tasks = 1..Len(tasks)
<1> DEFINE Task == [kind : Executor!Kinds, step : Executor!Steps]
<1>1. tasks \in Seq(Task) /\ posted \in Seq(1..Len(tasks))
  BY DEF Executor!TypeOK
<1>2. ASSUME NEW k \in Task
      PROVE  k.kind \in Executor!Kinds /\ k.step \in Executor!Steps
  OBVIOUS
<1> HIDE DEF Task
<1>3. \A t \in 1..Len(tasks) : tasks[t] \in Task
  BY <1>1, ElementOfSeq
<1>4. \A i \in 1..Len(posted) : posted[i] \in 1..Len(tasks)
  BY <1>1, ElementOfSeq
<1> QED
  BY <1>1, <1>2, <1>3, <1>4, LenProperties DEF Executor!TypeOK

\* A new task comes after all others.
LEMMA ExecuteInv ==
    ASSUME ExecutorInv, NEW kind \in Executor!Kinds, Executor!Execute(kind),
           UNCHANGED <<posted, source, silent>>,
           job' \in {job, Len(tasks) + 1}
    PROVE  ExecutorInv'
<1> DEFINE n == Len(tasks)
           new == [kind |-> kind, step |-> "queued"]
<1>1. /\ new \in [kind : Executor!Kinds, step : Executor!Steps]
      /\ n \in Nat
  BY LenProperties
  DEF ExecutorInv, Executor!TypeOK, Executor!Kinds, Executor!Steps
<1>2. /\ tasks' \in Seq([kind : Executor!Kinds, step : Executor!Steps])
      /\ Len(tasks') = n + 1
      /\ \A t \in 1..n : tasks'[t] = tasks[t]
      /\ tasks'[n + 1] = new
  BY <1>1, AppendFacts DEF ExecutorInv, Executor!TypeOK, Executor!Execute
<1>3. /\ posted' = posted /\ posted \in Seq(1..n)
      /\ source' = source /\ source \in 0..n
      /\ job \in 0..n
      /\ \A i \in 1..Len(posted) : posted[i] \in 1..n
  BY DEF ExecutorInv, Executor!TypeOK
<1>4. Executor!TypeOK'
  <2>1. posted' \in Seq(1..(n + 1))
    BY <1>1, <1>3, WiderSeq
  <2>2. job' \in 0..(n + 1) /\ source' \in 0..(n + 1)
    BY <1>1, <1>3
  <2> QED
    BY <1>1, <1>2, <2>1, <2>2 DEF ExecutorInv, Executor!TypeOK
<1>5. SerialInv'
  BY <1>1, <1>2 DEF ExecutorInv, SerialInv
<1>6. ResultInv'
  <2>1. \A i \in 1..Len(posted) : tasks'[posted[i]].step = "done"
    <3> TAKE i \in 1..Len(posted)
    <3>1. tasks[posted[i]].step = "done"
      BY DEF ExecutorInv, ResultInv
    <3> QED
      BY <1>2, <1>3, <3>1
  <2>2. source # 0 => tasks'[source].step = "done"
    BY <1>1, <1>2, <1>3 DEF ExecutorInv, ResultInv
  <2> QED
    BY <1>3, <2>1, <2>2 DEF ExecutorInv, ResultInv
<1> QED
  BY <1>4, <1>5, <1>6 DEF ExecutorInv

\* One task goes on by a step, and keeps its kind.
LEMMA SetStepEffects ==
    ASSUME Executor!TypeOK,
           NEW t \in 1..Len(tasks), NEW step \in Executor!Steps,
           Executor!SetStep(t, step)
    PROVE  /\ tasks' \in Seq([kind : Executor!Kinds, step : Executor!Steps])
           /\ Len(tasks') = Len(tasks)
           /\ \A u \in 1..Len(tasks) :
                 /\ tasks'[u].kind = tasks[u].kind
                 /\ u # t => tasks'[u].step = tasks[u].step
           /\ tasks'[t].step = step
<1> DEFINE Task == [kind : Executor!Kinds, step : Executor!Steps]
           r == [tasks[t] EXCEPT !.step = step]
<1>1. tasks \in Seq(Task) /\ tasks[t] \in Task
  BY ElementOfSeq DEF Executor!TypeOK
<1>2. r \in Task /\ r.kind = tasks[t].kind /\ r.step = step
  BY <1>1
<1>3. tasks' = [tasks EXCEPT ![t] = r]
  BY DEF Executor!SetStep
<1> HIDE DEF r, Task
<1>4. /\ tasks' \in Seq(Task) /\ Len(tasks') = Len(tasks)
      /\ \A u \in 1..Len(tasks) :
            tasks'[u] = IF u = t THEN r ELSE tasks[u]
  BY <1>1, <1>2, <1>3, ExceptSeq
<1> QED
  BY <1>2, <1>4 DEF Task

\* The oldest task begins when none runs.
LEMMA BeginInv == ExecutorInv /\ Executor!Begin => ExecutorInv'
<1> SUFFICES ASSUME ExecutorInv, NEW t \in DOMAIN tasks, Executor!MayBegin(t),
                    Executor!SetStep(t, "running"),
                    UNCHANGED <<posted, source, silent, job>>
             PROVE  ExecutorInv'
  BY DEF Executor!Begin
<1>1. /\ t \in 1..Len(tasks) /\ tasks[t].step = "queued"
      /\ \A u \in 1..Len(tasks) : tasks[u].step # "running"
      /\ \A u \in 1..Len(tasks) : tasks[u].step = "queued" => t <= u
      /\ DOMAIN tasks = 1..Len(tasks) /\ Len(tasks) \in Nat
  BY LenProperties
  DEF ExecutorInv, Executor!TypeOK, Executor!MayBegin, Executor!At
<1>2. /\ tasks' \in Seq([kind : Executor!Kinds, step : Executor!Steps])
      /\ Len(tasks') = Len(tasks)
      /\ \A u \in 1..Len(tasks) :
            /\ tasks'[u].kind = tasks[u].kind
            /\ u # t => tasks'[u].step = tasks[u].step
      /\ tasks'[t].step = "running"
  BY <1>1, SetStepEffects DEF ExecutorInv, Executor!Steps
<1>3. Executor!TypeOK'
  BY <1>2 DEF ExecutorInv, Executor!TypeOK
<1>4. SerialInv'
  <2> SUFFICES ASSUME NEW a \in 1..Len(tasks), NEW b \in 1..Len(tasks),
                      a < b, tasks'[a].step # "done"
               PROVE  tasks'[b].step = "queued"
    BY <1>2 DEF SerialInv
  <2>1. tasks[a].step # "done"
    BY <1>1, <1>2
  <2>2. tasks[b].step = "queued"
    BY <2>1 DEF ExecutorInv, SerialInv
  <2>3. tasks[a].step = "queued"
    BY <1>1, <2>1, TypeFacts DEF ExecutorInv, Executor!Steps
  <2>4. t <= a
    BY <1>1, <2>3
  <2> QED
    BY <1>1, <1>2, <2>2, <2>4
<1>5. ResultInv'
  <2>1. \A i \in 1..Len(posted) : posted[i] \in 1..Len(tasks)
    BY DEF ExecutorInv, Executor!TypeOK
  <2>2. source \in 0..Len(tasks)
    BY DEF ExecutorInv, Executor!TypeOK
  <2> QED
    BY <1>1, <1>2, <2>1, <2>2 DEF ExecutorInv, ResultInv
<1> QED
  BY <1>3, <1>4, <1>5 DEF ExecutorInv

\* The task that runs is newer than every result.
LEMMA RunningIsNewest ==
    ASSUME ExecutorInv, NEW t \in 1..Len(tasks), tasks[t].step = "running"
    PROVE  /\ \A i \in 1..Len(posted) : posted[i] < t
           /\ source < t
<1>1. ASSUME NEW u \in 1..Len(tasks), tasks[u].step = "done"
      PROVE  u < t
  BY <1>1 DEF ExecutorInv, SerialInv
<1>2. /\ \A i \in 1..Len(posted) : posted[i] \in 1..Len(tasks)
      /\ source \in 0..Len(tasks)
  BY DEF ExecutorInv, Executor!TypeOK
<1>3. \A i \in 1..Len(posted) : posted[i] < t
  BY <1>1, <1>2 DEF ExecutorInv, ResultInv
<1>4. source < t
  BY <1>1, <1>2 DEF ExecutorInv, ResultInv
<1> QED
  BY <1>3, <1>4

\* A task ends and posts its result.
LEMMA EndInv == ExecutorInv /\ Executor!End => ExecutorInv'
<1> SUFFICES ASSUME ExecutorInv, NEW t \in Executor!At("running"),
                    Executor!SetStep(t, "done"),
                    posted' = Append(posted, t),
                    UNCHANGED <<source, silent, job>>
             PROVE  ExecutorInv'
  BY DEF Executor!End
<1>1. /\ t \in 1..Len(tasks) /\ tasks[t].step = "running"
      /\ DOMAIN tasks = 1..Len(tasks)
      /\ Len(tasks) \in Nat /\ Len(posted) \in Nat
  BY LenProperties DEF ExecutorInv, Executor!TypeOK, Executor!At
<1>2. /\ tasks' \in Seq([kind : Executor!Kinds, step : Executor!Steps])
      /\ Len(tasks') = Len(tasks)
      /\ \A u \in 1..Len(tasks) :
            /\ tasks'[u].kind = tasks[u].kind
            /\ u # t => tasks'[u].step = tasks[u].step
      /\ tasks'[t].step = "done"
  BY <1>1, SetStepEffects DEF ExecutorInv, Executor!Steps
<1>3. /\ posted' \in Seq(1..Len(tasks))
      /\ Len(posted') = Len(posted) + 1
      /\ \A i \in 1..Len(posted) : posted'[i] = posted[i]
      /\ posted'[Len(posted) + 1] = t
  BY <1>1, AppendFacts DEF ExecutorInv, Executor!TypeOK
<1>4. /\ \A i \in 1..Len(posted) : posted[i] \in 1..Len(tasks) /\ posted[i] < t
      /\ source < t /\ source \in 0..Len(tasks)
  BY <1>1, RunningIsNewest DEF ExecutorInv, Executor!TypeOK
<1>5. Executor!TypeOK'
  BY <1>2, <1>3 DEF ExecutorInv, Executor!TypeOK
<1>6. SerialInv'
  BY <1>1, <1>2 DEF ExecutorInv, SerialInv
<1>7. ResultInv'
  <2>1. \A i \in 1..Len(posted') : tasks'[posted'[i]].step = "done"
    <3>1. \A i \in 1..Len(posted) : tasks'[posted[i]].step = "done"
      <4> TAKE i \in 1..Len(posted)
      <4>1. tasks[posted[i]].step = "done"
        BY DEF ExecutorInv, ResultInv
      <4> QED
        BY <1>2, <1>4, <4>1
    <3> QED
      BY <1>1, <1>2, <1>3, <3>1
  <2>2. \A i \in 1..Len(posted') : source' < posted'[i]
    BY <1>1, <1>3, <1>4 DEF ExecutorInv, ResultInv
  <2>3. \A i, j \in 1..Len(posted') : i < j => posted'[i] < posted'[j]
    BY <1>1, <1>3, <1>4 DEF ExecutorInv, ResultInv
  <2>4. source' # 0 => tasks'[source'].step = "done"
    BY <1>1, <1>2, <1>4 DEF ExecutorInv, ResultInv
  <2> QED
    BY <2>1, <2>2, <2>3, <2>4 DEF ResultInv
<1> QED
  BY <1>5, <1>6, <1>7 DEF ExecutorInv

\* A result is delivered: the view shows a read, or a registration ends its
\* job.
LEMMA onPostExecuteInv == ExecutorInv /\ Executor!onPostExecute => ExecutorInv'
<1> SUFFICES ASSUME ExecutorInv, Executor!onPostExecute PROVE ExecutorInv'
  OBVIOUS
<1>1. /\ posted' \in Seq(1..Len(tasks))
      /\ Len(posted) \in Nat /\ Len(posted) >= 1
      /\ Len(posted') = Len(posted) - 1
      /\ \A i \in 1..Len(posted') : posted'[i] = posted[i + 1]
      /\ Head(posted) = posted[1] /\ Head(posted) \in 1..Len(tasks)
      /\ tasks' = tasks /\ silent' = silent
  BY TailFacts DEF ExecutorInv, Executor!TypeOK, Executor!onPostExecute
<1>2. Len(tasks) \in Nat
  BY LenProperties DEF ExecutorInv, Executor!TypeOK
<1>3. /\ source' \in {source, posted[1]}
      /\ job' \in {job, 0}
  BY <1>1, TypeFacts DEF Executor!onPostExecute, ExecutorInv, Executor!Kinds
<1>4. /\ Executor!TypeOK' /\ SerialInv'
  BY <1>1, <1>2, <1>3 DEF ExecutorInv, Executor!TypeOK, SerialInv
<1>a. \A i \in 1..Len(posted') :
         /\ i + 1 \in 1..Len(posted) /\ posted'[i] = posted[i + 1]
         /\ posted[i + 1] \in 1..Len(tasks) /\ posted[1] < posted[i + 1]
  BY <1>1, TypeFacts DEF ExecutorInv, ResultInv
<1>5. ResultInv'
  <2>1. \A i \in 1..Len(posted') : tasks'[posted'[i]].step = "done"
    BY <1>1, <1>a DEF ExecutorInv, ResultInv
  <2>2. \A i \in 1..Len(posted') : source' < posted'[i]
    BY <1>1, <1>3, <1>a DEF ExecutorInv, ResultInv
  <2>3. ASSUME NEW i \in 1..Len(posted'), NEW j \in 1..Len(posted'), i < j
        PROVE  posted'[i] < posted'[j]
    <3>1. i + 1 < j + 1
      BY <2>3
    <3>2. posted[i + 1] < posted[j + 1]
      BY <1>a, <3>1 DEF ExecutorInv, ResultInv
    <3> QED
      BY <1>a, <3>2
  <2>4. source' # 0 => tasks'[source'].step = "done"
    BY <1>1, <1>3 DEF ExecutorInv, ResultInv
  <2> QED
    BY <2>1, <2>2, <2>3, <2>4 DEF ResultInv
<1> QED
  BY <1>4, <1>5 DEF ExecutorInv

\* The executor begins with no task.
LEMMA ExecutorInitInv == Executor!Init => ExecutorInv
BY DEF Executor!Init, ExecutorInv, Executor!TypeOK, SerialInv, ResultInv

\* Every step keeps the invariant.
LEMMA ExecutorStepInv ==
    ExecutorInv /\ [Executor!Next]_(Executor!vars) => ExecutorInv'
<1> SUFFICES ASSUME ExecutorInv, [Executor!Next]_(Executor!vars)
             PROVE  ExecutorInv'
  OBVIOUS
<1>1. CASE Executor!PlayVideo
  BY <1>1, ExecuteInv DEF Executor!PlayVideo, Executor!Kinds
<1>2. CASE Executor!onStartJob
  BY <1>2, ExecuteInv DEF Executor!onStartJob, Executor!Kinds
<1>3. CASE UNCHANGED Executor!vars
  BY <1>3 DEF Executor!vars, ExecutorInv, Executor!TypeOK, SerialInv, ResultInv
<1> QED
  BY <1>1, <1>2, <1>3, BeginInv, EndInv, onPostExecuteInv
  DEF Executor!Next, Executor!Idle

\* The invariant holds for any number of tasks.
THEOREM ExecutorInvariance == Executor!Spec => []ExecutorInv
BY ExecutorInitInv, ExecutorStepInv, PTL DEF Executor!Spec

\* No step gives the view an older stream.
LEMMA NewestStep ==
    ExecutorInv /\ [Executor!Next]_(Executor!vars) =>
        [source' >= source]_(Executor!vars)
<1> SUFFICES ASSUME ExecutorInv, [Executor!Next]_(Executor!vars)
             PROVE  source' >= source
  OBVIOUS
<1>1. source \in Nat
  BY DEF ExecutorInv, Executor!TypeOK
<1>2. CASE Executor!onPostExecute
  <2>1. posted[1] \in Nat /\ source < posted[1] /\ Head(posted) = posted[1]
    BY <1>2, TailFacts
    DEF Executor!onPostExecute, ExecutorInv, Executor!TypeOK, ResultInv
  <2> QED
    BY <1>1, <1>2, <2>1 DEF Executor!onPostExecute
<1>3. CASE UNCHANGED source
  BY <1>1, <1>3
<1> QED
  BY <1>2, <1>3
  DEF Executor!Next, Executor!PlayVideo, Executor!onStartJob, Executor!Begin,
      Executor!End, Executor!Idle, Executor!vars

\* The stream of an older read never replaces that of a newer one (DoRead.java
\* 50-55): the executor is serial and results are delivered in order.
THEOREM NewestStays == Executor!Spec => Executor!NewestStreamStays
BY NewestStep, ExecutorInvariance, PTL
   DEF Executor!Spec, Executor!NewestStreamStays

-----------------------------------------------------------------------------
\* In a behaviour of Home, too, reads come in order.
THEOREM ReadsComeInOrder ==
    Spec => /\ [](part = "executor" => Executor!TypeOK)
            /\ Executor!NewestStreamStays
<1> DEFINE Inv == part = "executor" => ExecutorInv
<1>1. Init => Inv
  BY ExecutorInitInv DEF Init
<1>2. [Next]_vars /\ part = "executor" =>
        [Executor!Next]_(Executor!vars) /\ (part = "executor")'
  BY DEF Next, vars, executorVars, Executor!vars
<1>3. Inv /\ [Next]_vars => Inv'
  <2>1. [Next]_vars /\ part # "executor" => (part # "executor")'
    BY DEF Next, vars
  <2> QED
    BY <2>1, <1>2, ExecutorStepInv
<1>4. Inv => (part = "executor" => Executor!TypeOK)
  BY DEF ExecutorInv
<1>5. Inv /\ [Next]_vars => [source' >= source]_(Executor!vars)
  <2>1. [Next]_vars /\ part # "executor" => UNCHANGED Executor!vars
    BY DEF Next, vars, executorVars, Executor!vars
  <2> QED
    BY <2>1, <1>2, NewestStep
<1> QED
  BY <1>1, <1>3, <1>4, <1>5, PTL DEF Spec, Executor!NewestStreamStays
===============================================================================
