---------------------------- MODULE WsStreamProofs ----------------------------
(***************************************************************************)
(* Proofs about WsStream, for any step, window, context and frame sizes    *)
(* and any number of frames and flushes.  IInv says that each buffer is a  *)
(* stretch of the stream without a gap, where it ends, and that all audio  *)
(* before what waits has been heard; the rest is arithmetic on lengths.    *)
(***************************************************************************)
EXTENDS WsStream, TLAPS

(* s is the stretch of the stream that ends with sample a. *)
Stretch(s, a) ==
  /\ s \in Seq(Nat) /\ Len(s) <= a
  /\ \A i \in 1 .. Len(s) : s[i] = a - Len(s) + i

WhisperInv ==
  backend = "whisper" =>
    /\ Stretch(accum, fed) /\ Stretch(history, fed - Len(accum))
    /\ heard = 1 .. fed - Len(accum)

RollingInv ==
  backend = "rolling" =>
    /\ Stretch(rolling, fed) /\ Len(rolling) = Lesser(fed, Length)
    /\ largest <= Length - Step + 1 => since < Step /\ since <= Len(rolling) /\ heard = 1 .. fed - since

(* The text that is held reaches to what waits, and its times are its place. *)
PlaceOf(text) == text.t0 = text.first - 1 /\ text.t1 = text.last
OutInv == out.last = fed - Waiting /\ PlaceOf(out)

IInv == TypeOK /\ WhisperInv /\ RollingInv /\ OutInv /\ ToldIsCurrent

USE WsAssumption

(* Two stretches, the second after the first, are one. *)
LEMMA StretchAppend ==
  ASSUME NEW s, NEW t, NEW a \in Nat, Stretch(s, a), Stretch(t, a + Len(t))
  PROVE  Stretch(s \o t, a + Len(t)) /\ Len(s \o t) = Len(s) + Len(t)
BY DEF Stretch

(* The end of a stretch is a stretch with the same end. *)
LEMMA StretchLast ==
  ASSUME NEW s, NEW a \in Nat, Stretch(s, a), NEW k \in 0 .. Len(s)
  PROVE  Stretch(LastOf(s, k), a) /\ Len(LastOf(s, k)) = k
<1> DEFINE t == SubSeq(s, Len(s) - k + 1, Len(s))
<1>1. s \in Seq(Nat) /\ Len(s) \in Nat /\ k \in Nat /\ k <= Len(s)
  BY DEF Stretch
<1>2. t \in Seq(Nat) /\ Len(t) = k
  BY <1>1
<1>3. \A i \in 1 .. k : t[i] = s[Len(s) - k + i]
  BY <1>1
<1>4. \A i \in 1 .. k : t[i] = a - k + i
  BY <1>1, <1>3 DEF Stretch
<1> HIDE DEF t
<1>5. Stretch(t, a)
  BY <1>1, <1>2, <1>4 DEF Stretch
<1> QED BY <1>2, <1>5 DEF t, LastOf

(* A stretch holds exactly the samples it spans. *)
LEMMA StretchRange ==
  ASSUME NEW s, NEW a \in Nat, Stretch(s, a)
  PROVE  Range(s) = a - Len(s) + 1 .. a
<1>1. ASSUME NEW x \in a - Len(s) + 1 .. a PROVE x \in Range(s)
  <2>1. x - (a - Len(s)) \in 1 .. Len(s) /\ s[x - (a - Len(s))] = x
    BY DEF Stretch
  <2> QED BY <2>1 DEF Range, Stretch
<1>2. ASSUME NEW x \in Range(s) PROVE x \in a - Len(s) + 1 .. a
  <2>1. PICK i \in 1 .. Len(s) : x = s[i]
    BY DEF Range, Stretch
  <2> QED BY <2>1 DEF Stretch
<1> QED BY <1>1, <1>2

(* A frame is the next stretch of the stream. *)
LEMMA StretchSamples ==
  ASSUME NEW n \in Nat, fed \in Nat
  PROVE  Stretch(Samples(n), fed + n) /\ Len(Samples(n)) = n
BY DEF Stretch, Samples

(* A buffer that keeps its last n samples stays a stretch. *)
LEMMA StretchCapped ==
  ASSUME NEW s, NEW a \in Nat, Stretch(s, a), NEW n \in Nat
  PROVE  Stretch(Capped(s, n), a) /\ Len(Capped(s, n)) = Lesser(Len(s), n)
<1>1. Lesser(Len(s), n) \in 0 .. Len(s)
  BY DEF Lesser, Stretch
<1> QED BY <1>1, StretchLast DEF Capped

(* What a decode leaves, when all audio before its window has been heard. *)
LEMMA DecodedText ==
  ASSUME NEW pcm, NEW now \in Nat, Stretch(pcm, now), pcm # <<>>,
         decode_counter \in Nat, heard \subseteq 1 .. fed, fed <= now, fed \in Nat,
         Decoded(pcm, now)
  PROVE  /\ out' \in [t0 : 0 .. now, t1 : 0 .. now, first : 1 .. now + 1, last : 0 .. now]
         /\ PlaceOf(out') /\ out'.last = now
         /\ decode_counter' = decode_counter + 1
         /\ heard' \subseteq 1 .. now
         /\ \A h \in Nat : heard = 1 .. h /\ now - Len(pcm) <= h => heard' = 1 .. now
<1>1. Len(pcm) \in Nat /\ Len(pcm) >= 1 /\ Len(pcm) <= now
  BY DEF Stretch
<1>2. pcm[1] = now - Len(pcm) + 1 /\ pcm[Len(pcm)] = now
  BY <1>1 DEF Stretch
<1>3. out' = [t0 |-> now - Len(pcm), t1 |-> now, first |-> now - Len(pcm) + 1, last |-> now]
  BY <1>2 DEF Decoded
<1>4. heard' = heard \cup (now - Len(pcm) + 1 .. now)
  BY StretchRange DEF Decoded
<1>5. heard' \subseteq 1 .. now
  <2>1. \A x \in now - Len(pcm) + 1 .. now : x \in 1 .. now
    BY <1>1
  <2>2. \A x \in 1 .. fed : x \in 1 .. now
    OBVIOUS
  <2> QED BY <1>4, <2>1, <2>2
<1>6. ASSUME NEW h \in Nat, heard = 1 .. h, now - Len(pcm) <= h PROVE heard' = 1 .. now
  <2>1. \A x \in 1 .. now : x \in 1 .. h \/ x \in now - Len(pcm) + 1 .. now
    BY <1>1, <1>6
  <2> QED BY <1>4, <1>5, <1>6, <2>1
<1> QED BY <1>1, <1>3, <1>5, <1>6 DEF Decoded, PlaceOf

(* The window of Whisper ends with the new audio and contains all of it. *)
LEMMA WindowStretch ==
  ASSUME NEW new, NEW now \in Nat, Stretch(new, now), Stretch(history, now - Len(new))
  PROVE  Stretch(Window(new), now) /\ Len(Window(new)) >= Len(new)
<1> DEFINE k == Lesser(Len(history), Greater(0, Keep + Length - Len(new)))
<1>1. Len(new) \in Nat /\ Len(history) \in Nat /\ now - Len(new) \in Nat
  BY DEF Stretch
<1>2. k \in 0 .. Len(history)
  BY <1>1 DEF Lesser, Greater
<1> HIDE DEF k
<1>3. Stretch(LastOf(history, k), now - Len(new)) /\ Len(LastOf(history, k)) = k
  BY <1>1, <1>2, StretchLast
<1>4. now = (now - Len(new)) + Len(new)
  BY <1>1
<1>5. /\ Stretch(LastOf(history, k) \o new, now)
      /\ Len(LastOf(history, k) \o new) = k + Len(new)
  BY <1>1, <1>3, <1>4, StretchAppend
<1> QED BY <1>1, <1>2, <1>5 DEF Window, k

(* What the session promises its caller. *)
Session(now) ==
  /\ accum' \in Seq(Nat) /\ history' \in Seq(Nat)
  /\ rolling' \in Seq(Nat) /\ Len(rolling') <= Length
  /\ since' \in 0 .. now
  /\ out' \in [t0 : 0 .. now, t1 : 0 .. now, first : 1 .. now + 1, last : 0 .. now]
  /\ decode_counter' \in Nat /\ heard' \subseteq 1 .. now
  /\ backend = "whisper" =>
       /\ Stretch(accum', now) /\ Stretch(history', now - Len(accum'))
       /\ heard' = 1 .. now - Len(accum')
       /\ out'.last = now - Len(accum')
  /\ backend = "rolling" =>
       /\ Stretch(rolling', now) /\ Len(rolling') = Lesser(now, Length)
       /\ out'.last = now - since'
  /\ PlaceOf(out')

(* A decode, whether it fails or not, leaves a session that holds the audio. *)
LEMMA RunDecode ==
  ASSUME IInv, backend = "whisper", NEW now \in Nat, fed <= now, NEW new, new # <<>>,
         Stretch(new, now), now - Len(new) = fed - Len(accum),
         NEW rc, run_decode(new, now, rc), UNCHANGED rollingVars
  PROVE  /\ Session(now)
         /\ rc = 1 => out'.last = now /\ decode_counter' = decode_counter + 1
         /\ rc # 1 => rc = -2 /\ decode_counter' = decode_counter
<1>0. /\ Len(new) \in Nat /\ Len(new) >= 1 /\ Len(new) <= now /\ now - Len(new) \in Nat
      /\ Stretch(history, now - Len(new)) /\ heard = 1 .. now - Len(new)
  <2>1. Len(new) \in Nat /\ Len(new) >= 1 /\ Len(new) <= now
    BY DEF Stretch
  <2>2. Stretch(history, fed - Len(accum)) /\ heard = 1 .. fed - Len(accum)
    BY DEF IInv, WhisperInv
  <2> QED BY <2>1, <2>2
<1>01. /\ fed \in Nat /\ decode_counter \in Nat /\ heard \subseteq 1 .. fed
       /\ rolling \in Seq(Nat) /\ Len(rolling) <= Length /\ since \in 0 .. fed
       /\ out \in [t0 : 0 .. fed, t1 : 0 .. fed, first : 1 .. fed + 1, last : 0 .. fed]
       /\ PlaceOf(out) /\ out.last = now - Len(new)
  BY DEF IInv, TypeOK, OutInv, Waiting
<1>1. CASE rc = 1 /\ DecodeRuns(new, now)
  <2>1. Stretch(Window(new), now) /\ Len(Window(new)) >= Len(new)
    BY <1>0, WindowStretch
  <2>3. Window(new) # <<>> /\ Len(Window(new)) \in Nat
    BY <2>1, <1>0 DEF Stretch
  <2>4. Decoded(Window(new), now) /\ accum' = <<>>
    BY <1>1 DEF DecodeRuns
  <2>5. /\ out' \in [t0 : 0 .. now, t1 : 0 .. now, first : 1 .. now + 1, last : 0 .. now]
        /\ PlaceOf(out') /\ out'.last = now
        /\ decode_counter' = decode_counter + 1
        /\ heard' \subseteq 1 .. now
        /\ \A h \in Nat : heard = 1 .. h /\ now - Len(Window(new)) <= h => heard' = 1 .. now
    BY <1>01, <2>1, <2>3, <2>4, DecodedText
  <2>7. now - Len(Window(new)) <= now - Len(new)
    BY <2>1, <2>3, <1>0
  <2>8. heard' = 1 .. now
    BY <1>0, <2>5, <2>7
  <2>9. Length + Keep \in Nat
    OBVIOUS
  <2>10. Stretch(history', now)
    BY <1>1, <2>1, <2>9, StretchCapped DEF DecodeRuns
  <2>11. accum' \in Seq(Nat) /\ Len(accum') = 0 /\ now - Len(accum') = now
    BY <2>4
  <2>12. Stretch(accum', now)
    BY <2>11 DEF Stretch
  <2>13. history' \in Seq(Nat)
    BY <2>10 DEF Stretch
  <2>14. rolling' = rolling /\ since' = since /\ since \in 0 .. now
    BY <1>01 DEF rollingVars
  <2>15. heard' = 1 .. now - Len(accum') /\ Stretch(history', now - Len(accum'))
    BY <2>8, <2>10, <2>11
  <2> QED BY <1>1, <1>01, <2>5, <2>11, <2>12, <2>13, <2>14, <2>15 DEF Session
<1>2. CASE rc = -2 /\ DecodeFails(new)
  <2>1. accum' = new /\ UNCHANGED <<history, out, decode_counter, heard, rolling, since>>
    BY <1>2 DEF DecodeFails, textVars, rollingVars
  <2>2. new \in Seq(Nat) /\ history \in Seq(Nat)
    BY <1>0 DEF Stretch
  <2>3. out \in [t0 : 0 .. now, t1 : 0 .. now, first : 1 .. now + 1, last : 0 .. now]
    BY <1>01
  <2>4. heard \subseteq 1 .. now /\ since \in 0 .. now
    BY <1>0, <1>01
  <2> QED BY <1>0, <1>01, <1>2, <2>1, <2>2, <2>3, <2>4 DEF Session, PlaceOf
<1> QED BY <1>1, <1>2 DEF run_decode

(* What the other backend adds: where nothing is pushed out unheard. *)
KeepsUp(now) ==
  /\ since' < Step /\ since' <= Len(rolling')
  /\ heard' = 1 .. now - since'

(* A feed of a Whisper session, *)
LEMMA WhisperFeed ==
  ASSUME IInv, NEW n \in Nat \ {0}, NEW rc, whisper_feed(n, rc)
  PROVE  /\ Session(fed + n)
         /\ rc = 1 => out'.last = fed + n /\ decode_counter' = decode_counter + 1
         /\ rc # 1 => rc \in {0, -2} /\ decode_counter' = decode_counter
<1> DEFINE new == accum \o Samples(n)
<1>0. /\ fed \in Nat /\ backend = "whisper" /\ UNCHANGED rollingVars
      /\ Stretch(accum, fed) /\ Stretch(history, fed - Len(accum))
      /\ heard = 1 .. fed - Len(accum)
  BY DEF IInv, TypeOK, WhisperInv, whisper_feed
<1>1. Stretch(new, fed + n) /\ Len(new) = Len(accum) + n
  BY <1>0, StretchSamples, StretchAppend
<1>2. Len(accum) \in Nat /\ new \in Seq(Nat)
  BY <1>0, <1>1 DEF Stretch
<1> HIDE DEF new
<1>3. CASE Len(new) < Step
  <2>1. rc = 0 /\ accum' = new /\ UNCHANGED <<history, textVars>>
    BY <1>0, <1>3 DEF whisper_feed, new
  <2>2. (fed + n) - Len(new) = fed - Len(accum) /\ history \in Seq(Nat)
    BY <1>0, <1>1, <1>2 DEF Stretch
  <2>3. /\ out \in [t0 : 0 .. fed, t1 : 0 .. fed, first : 1 .. fed + 1, last : 0 .. fed]
        /\ PlaceOf(out) /\ out.last = fed - Len(accum)
        /\ decode_counter \in Nat /\ heard \subseteq 1 .. fed
        /\ rolling \in Seq(Nat) /\ Len(rolling) <= Length /\ since \in 0 .. fed
    BY <1>0 DEF IInv, TypeOK, OutInv, Waiting
  <2>4. /\ out \in [t0 : 0 .. fed + n, t1 : 0 .. fed + n, first : 1 .. fed + n + 1, last : 0 .. fed + n]
        /\ heard \subseteq 1 .. fed + n /\ since \in 0 .. fed + n
    BY <1>0, <2>3
  <2>5. UNCHANGED <<history, out, decode_counter, heard, rolling, since>>
    BY <1>0, <2>1 DEF textVars, rollingVars
  <2>6. /\ heard = 1 .. (fed + n) - Len(new) /\ Stretch(history, (fed + n) - Len(new))
        /\ out.last = (fed + n) - Len(new)
    BY <1>0, <2>2, <2>3
  <2>7. PlaceOf(out')
    BY <2>3, <2>5 DEF PlaceOf
  <2>8. /\ Stretch(accum', fed + n) /\ Stretch(history', (fed + n) - Len(accum'))
        /\ heard' = 1 .. (fed + n) - Len(accum') /\ out'.last = (fed + n) - Len(accum')
    BY <1>1, <2>1, <2>5, <2>6
  <2>9. /\ accum' \in Seq(Nat) /\ history' \in Seq(Nat)
        /\ rolling' \in Seq(Nat) /\ Len(rolling') <= Length /\ since' \in 0 .. fed + n
        /\ out' \in [t0 : 0 .. fed + n, t1 : 0 .. fed + n, first : 1 .. fed + n + 1, last : 0 .. fed + n]
        /\ decode_counter' \in Nat /\ heard' \subseteq 1 .. fed + n
    BY <1>2, <2>1, <2>2, <2>3, <2>4, <2>5
  <2>10. Session(fed + n)
    BY <1>0, <2>7, <2>8, <2>9 DEF Session
  <2> QED BY <2>1, <2>5, <2>10
<1>4. CASE ~(Len(new) < Step)
  <2>1. run_decode(new, fed + n, rc)
    BY <1>0, <1>4 DEF whisper_feed, new
  <2>2. new # <<>> /\ fed + n \in Nat /\ fed <= fed + n /\ (fed + n) - Len(new) = fed - Len(accum)
    BY <1>0, <1>1, <1>2, <1>4
  <2> QED BY <1>0, <1>1, <2>1, <2>2, RunDecode
<1> QED BY <1>3, <1>4

(* and its flush; *)
LEMMA WhisperFlush ==
  ASSUME IInv, NEW rc, whisper_flush(rc)
  PROVE  /\ Session(fed)
         /\ rc # -2 => out'.last = fed
         /\ decode_counter' \in {decode_counter, decode_counter + 1}
<1>0. /\ fed \in Nat /\ backend = "whisper" /\ UNCHANGED rollingVars
      /\ Stretch(accum, fed) /\ Stretch(history, fed - Len(accum))
      /\ heard = 1 .. fed - Len(accum) /\ accum \in Seq(Nat) /\ history \in Seq(Nat)
  BY DEF IInv, TypeOK, WhisperInv, whisper_flush
<1>1. CASE accum = <<>>
  <2>1. UNCHANGED <<whisperVars, textVars>>
    BY <1>1 DEF whisper_flush
  <2>2. Len(accum) = 0
    BY <1>1
  <2>3. /\ out \in [t0 : 0 .. fed, t1 : 0 .. fed, first : 1 .. fed + 1, last : 0 .. fed]
        /\ PlaceOf(out) /\ out.last = fed - Len(accum)
        /\ decode_counter \in Nat /\ heard \subseteq 1 .. fed
        /\ rolling \in Seq(Nat) /\ Len(rolling) <= Length /\ since \in 0 .. fed
    BY <1>0 DEF IInv, TypeOK, OutInv, Waiting
  <2> QED BY <1>0, <2>1, <2>2, <2>3 DEF Session, PlaceOf, textVars, rollingVars, whisperVars
<1>2. CASE accum # <<>>
  <2>1. run_decode(accum, fed, rc)
    BY <1>2 DEF whisper_flush
  <2> QED BY <1>0, <1>2, <2>1, RunDecode
<1> QED BY <1>1, <1>2

(* a feed of a rolling session, *)
LEMMA RollingFeed ==
  ASSUME IInv, NEW n \in Nat \ {0}, NEW rc, rolling_feed(n, rc)
  PROVE  /\ Session(fed + n)
         /\ rc = 1 => out'.last = fed + n /\ decode_counter' = decode_counter + 1
         /\ rc # 1 => rc = 0 /\ decode_counter' = decode_counter
         /\ largest <= Length - Step + 1 /\ n <= Length - Step + 1 => KeepsUp(fed + n)
<1> DEFINE pcm == Capped(rolling \o Samples(n), Length)
<1>0. /\ fed \in Nat /\ backend = "rolling" /\ UNCHANGED whisperVars
      /\ Stretch(rolling, fed) /\ Len(rolling) = Lesser(fed, Length) /\ since \in 0 .. fed
      /\ accum \in Seq(Nat) /\ history \in Seq(Nat)
      /\ largest <= Length - Step + 1 => since < Step /\ since <= Len(rolling) /\ heard = 1 .. fed - since
  BY DEF IInv, TypeOK, RollingInv, rolling_feed
<1>00. /\ out \in [t0 : 0 .. fed, t1 : 0 .. fed, first : 1 .. fed + 1, last : 0 .. fed]
       /\ PlaceOf(out) /\ out.last = fed - since
       /\ decode_counter \in Nat /\ heard \subseteq 1 .. fed
  BY <1>0 DEF IInv, TypeOK, OutInv, Waiting
<1>1. Stretch(rolling \o Samples(n), fed + n) /\ Len(rolling \o Samples(n)) = Len(rolling) + n
  <2>1. Stretch(Samples(n), fed + Len(Samples(n))) /\ Len(Samples(n)) = n
    BY <1>0, StretchSamples
  <2> QED BY <1>0, <2>1, StretchAppend
<1>2. Stretch(pcm, fed + n) /\ Len(pcm) = Lesser(Len(rolling) + n, Length)
  <2>1. fed + n \in Nat /\ Length \in Nat
    BY <1>0
  <2> QED BY <1>1, <2>1, StretchCapped
<1>3. Len(pcm) = Lesser(fed + n, Length) /\ Len(pcm) >= 1 /\ Len(pcm) <= Length /\ pcm \in Seq(Nat)
  BY <1>0, <1>2 DEF Lesser, Stretch
<1>4. rolling' = pcm
  BY DEF rolling_feed
<1> HIDE DEF pcm
<1>5. CASE since + n < Step
  <2>1. rc = 0 /\ since' = since + n /\ UNCHANGED textVars
    BY <1>5 DEF rolling_feed
  <2>2. /\ out \in [t0 : 0 .. fed + n, t1 : 0 .. fed + n, first : 1 .. fed + n + 1, last : 0 .. fed + n]
        /\ heard \subseteq 1 .. fed + n /\ since + n \in 0 .. fed + n
    BY <1>0, <1>00
  <2>3. (fed + n) - (since + n) = fed - since
    BY <1>0
  <2>4. largest <= Length - Step + 1 /\ n <= Length - Step + 1 => since + n <= Len(pcm)
    BY <1>0, <1>2, <1>3 DEF Lesser, Stretch
  <2> QED
    BY <1>0, <1>00, <1>2, <1>3, <1>4, <1>5, <2>1, <2>2, <2>3, <2>4
    DEF Session, PlaceOf, KeepsUp, textVars, whisperVars
<1>6. CASE ~(since + n < Step)
  <2>1. rc = 1 /\ since' = 0 /\ Decoded(pcm, fed + n)
    BY <1>6 DEF rolling_feed, pcm
  <2>2. /\ pcm # <<>> /\ Stretch(pcm, fed + n) /\ fed + n \in Nat /\ fed <= fed + n /\ fed \in Nat
        /\ decode_counter \in Nat /\ heard \subseteq 1 .. fed
    BY <1>0, <1>00, <1>2, <1>3
  <2>3. /\ out' \in [t0 : 0 .. fed + n, t1 : 0 .. fed + n, first : 1 .. fed + n + 1, last : 0 .. fed + n]
        /\ PlaceOf(out') /\ out'.last = fed + n
        /\ decode_counter' = decode_counter + 1
        /\ heard' \subseteq 1 .. fed + n
        /\ \A h \in Nat : heard = 1 .. h /\ (fed + n) - Len(pcm) <= h => heard' = 1 .. fed + n
    BY <2>1, <2>2, DecodedText
  <2>4. largest <= Length - Step + 1 /\ n <= Length - Step + 1 => heard' = 1 .. fed + n
    <3>1. SUFFICES ASSUME largest <= Length - Step + 1, n <= Length - Step + 1 PROVE heard' = 1 .. fed + n
      OBVIOUS
    <3>2. fed - since \in Nat /\ heard = 1 .. fed - since /\ since < Step
      BY <1>0, <3>1
    <3>3. (fed + n) - Len(pcm) <= fed - since
      BY <1>0, <1>2, <3>1, <3>2 DEF Lesser, Stretch
    <3> QED BY <2>3, <3>2, <3>3
  <2>5. since' = 0 /\ since' \in 0 .. fed + n /\ (fed + n) - since' = fed + n /\ since' < Step
    BY <1>0, <2>1
  <2>6. UNCHANGED <<accum, history>>
    BY <1>0 DEF whisperVars
  <2>7. Session(fed + n)
    <3>1. /\ accum' \in Seq(Nat) /\ history' \in Seq(Nat)
          /\ rolling' \in Seq(Nat) /\ Len(rolling') <= Length /\ since' \in 0 .. fed + n
          /\ decode_counter' \in Nat
      BY <1>0, <1>00, <1>3, <1>4, <2>3, <2>5, <2>6
    <3>2. Stretch(rolling', fed + n) /\ Len(rolling') = Lesser(fed + n, Length)
      BY <1>2, <1>3, <1>4
    <3>3. out'.last = (fed + n) - since'
      BY <2>3, <2>5
    <3>4. /\ out' \in [t0 : 0 .. fed + n, t1 : 0 .. fed + n, first : 1 .. fed + n + 1, last : 0 .. fed + n]
          /\ PlaceOf(out') /\ heard' \subseteq 1 .. fed + n
      BY <2>3
    <3>5. backend # "whisper"
      BY <1>0
    <3>6. backend = "whisper" =>
            /\ Stretch(accum', fed + n) /\ Stretch(history', (fed + n) - Len(accum'))
            /\ heard' = 1 .. (fed + n) - Len(accum') /\ out'.last = (fed + n) - Len(accum')
      BY <3>5
    <3> QED BY <3>1, <3>2, <3>3, <3>4, <3>6 DEF Session
  <2>8. largest <= Length - Step + 1 /\ n <= Length - Step + 1 => KeepsUp(fed + n)
    <3>1. heard' = 1 .. fed + n => heard' = 1 .. (fed + n) - since'
      BY <2>5
    <3>2. since' <= Len(rolling') /\ since' < Step
      BY <1>3, <1>4, <2>5
    <3> QED BY <2>4, <3>1, <3>2 DEF KeepsUp
  <2> QED BY <2>1, <2>3, <2>7, <2>8
<1> QED BY <1>5, <1>6

(* and its flush. *)
LEMMA RollingFlush ==
  ASSUME IInv, NEW rc, rolling_flush(rc)
  PROVE  /\ Session(fed)
         /\ rc # -2 /\ out'.last = fed
         /\ decode_counter' \in {decode_counter, decode_counter + 1}
         /\ largest <= Length - Step + 1 => KeepsUp(fed)
<1>0. /\ fed \in Nat /\ backend = "rolling" /\ UNCHANGED <<rolling, whisperVars>>
      /\ Stretch(rolling, fed) /\ Len(rolling) = Lesser(fed, Length) /\ since \in 0 .. fed
      /\ accum \in Seq(Nat) /\ history \in Seq(Nat) /\ rolling \in Seq(Nat)
      /\ Len(rolling) <= Length
      /\ largest <= Length - Step + 1 => since < Step /\ since <= Len(rolling) /\ heard = 1 .. fed - since
  BY DEF IInv, TypeOK, RollingInv, rolling_flush
<1>00. /\ out \in [t0 : 0 .. fed, t1 : 0 .. fed, first : 1 .. fed + 1, last : 0 .. fed]
       /\ PlaceOf(out) /\ out.last = fed - since
       /\ decode_counter \in Nat /\ heard \subseteq 1 .. fed
  BY <1>0 DEF IInv, TypeOK, OutInv, Waiting
<1>1. CASE rolling = <<>>
  <2>1. rc = 0 /\ UNCHANGED <<since, textVars>>
    BY <1>1 DEF rolling_flush
  <2>2. fed = 0 /\ since = 0
    BY <1>0, <1>1 DEF Lesser
  <2> QED
    BY <1>0, <1>00, <2>1, <2>2 DEF Session, PlaceOf, KeepsUp, textVars, whisperVars
<1>2. CASE rolling # <<>>
  <2>1. rc = 1 /\ since' = 0 /\ Decoded(rolling, fed)
    BY <1>2 DEF rolling_flush
  <2>0. fed <= fed /\ decode_counter \in Nat /\ heard \subseteq 1 .. fed /\ fed \in Nat
    BY <1>0, <1>00
  <2>2. /\ out' \in [t0 : 0 .. fed, t1 : 0 .. fed, first : 1 .. fed + 1, last : 0 .. fed]
        /\ PlaceOf(out') /\ out'.last = fed
        /\ decode_counter' = decode_counter + 1
        /\ heard' \subseteq 1 .. fed
        /\ \A h \in Nat : heard = 1 .. h /\ fed - Len(rolling) <= h => heard' = 1 .. fed
    BY <1>0, <1>2, <2>0, <2>1, DecodedText
  <2>3. ASSUME largest <= Length - Step + 1 PROVE heard' = 1 .. fed
    <3>1. fed - since \in Nat /\ heard = 1 .. fed - since /\ fed - Len(rolling) <= fed - since
      BY <1>0, <2>3 DEF Lesser
    <3> QED BY <2>2, <3>1
  <2>4. since' = 0 /\ since' \in 0 .. fed /\ fed - since' = fed /\ since' < Step /\ 0 <= Len(rolling)
    BY <1>0, <2>1
  <2> QED
    BY <1>0, <1>00, <2>1, <2>2, <2>3, <2>4 DEF Session, KeepsUp, whisperVars
<1> QED BY <1>1, <1>2

(* A binary frame keeps the invariant, *)
LEMMA FrameStep ==
  ASSUME IInv, NEW n \in Feeds, BinaryFrame(n)
  PROVE  IInv'
<1>0. /\ n \in Nat \ {0} /\ fed \in Nat /\ fed' = fed + n /\ fed + n <= MaxFed
      /\ backend' = backend /\ backend \in Backends /\ flushes' = flushes
      /\ largest' = Greater(largest, n) /\ largest \in Nat
      /\ flushes \in 0 .. MaxFlushes /\ decode_counter \in Nat
      /\ last_counter \in -1 .. decode_counter /\ known \in -1 .. decode_counter
      /\ said.kind \in {"ready", "partial", "final"} /\ said.counter \in -1 .. decode_counter
      /\ conn \in {"open", "closed"}
  BY DEF IInv, TypeOK, BinaryFrame
<1>1. PICK rc \in ResultCodes :
        /\ whisper_feed(n, rc) \/ rolling_feed(n, rc)
        /\ IF rc = 1 /\ decode_counter' # last_counter
           THEN /\ last_counter' = decode_counter'
                /\ Say("partial", fed + n, rc)
                /\ conn' \in {"open", "closed"}
           ELSE UNCHANGED <<toldVars, conn>>
  BY DEF BinaryFrame
<1>2. /\ Session(fed + n)
      /\ rc = 1 => out'.last = fed + n /\ decode_counter' = decode_counter + 1
      /\ rc # 1 => decode_counter' = decode_counter
      /\ backend = "rolling" /\ largest' <= Length - Step + 1 => KeepsUp(fed + n)
  <2>1. CASE whisper_feed(n, rc)
    <3>1. backend = "whisper"
      BY <2>1 DEF whisper_feed
    <3> QED BY <1>0, <2>1, <3>1, WhisperFeed
  <2>2. CASE rolling_feed(n, rc)
    <3>1. largest' <= Length - Step + 1 => largest <= Length - Step + 1 /\ n <= Length - Step + 1
      BY <1>0 DEF Greater
    <3>2. /\ Session(fed + n)
          /\ rc = 1 => out'.last = fed + n /\ decode_counter' = decode_counter + 1
          /\ rc # 1 => rc = 0 /\ decode_counter' = decode_counter
          /\ largest <= Length - Step + 1 /\ n <= Length - Step + 1 => KeepsUp(fed + n)
      BY <1>0, <2>2, RollingFeed
    <3> QED BY <3>1, <3>2
  <2> QED BY <1>1, <2>1, <2>2
<1>3. /\ last_counter' \in -1 .. decode_counter' /\ known' \in -1 .. decode_counter'
      /\ said'.kind \in {"ready", "partial", "final"} /\ said'.counter \in -1 .. decode_counter'
      /\ conn' \in {"open", "closed"}
  BY <1>0, <1>1, <1>2 DEF Say, Greater, toldVars
<1>4. ToldIsCurrent'
  <2>1. CASE rc = 1 /\ decode_counter' # last_counter
    <3>1. /\ said'.kind = "partial" /\ said'.counter = decode_counter + 1
          /\ said'.text = out' /\ said'.at = fed + n
          /\ known' = Greater(known, said.counter)
      BY <1>1, <1>2, <2>1 DEF Say
    <3>2. said'.counter > known'
      BY <1>0, <3>1 DEF Greater
    <3>3. PlaceOf(said'.text)
      BY <1>2, <3>1 DEF Session
    <3> QED BY <1>2, <2>1, <3>1, <3>2, <3>3 DEF ToldIsCurrent, PlaceOf
  <2>2. CASE ~(rc = 1 /\ decode_counter' # last_counter)
    BY <1>1, <2>2 DEF IInv, ToldIsCurrent, toldVars
  <2> QED BY <2>1, <2>2
<1>5. TypeOK'
  <2>1. fed' \in 0 .. MaxFed /\ largest' \in Nat
    BY <1>0 DEF Greater
  <2>2. /\ accum' \in Seq(Nat) /\ history' \in Seq(Nat)
        /\ rolling' \in Seq(Nat) /\ Len(rolling') <= Length
        /\ since' \in 0 .. fed'
        /\ out' \in [t0 : 0 .. fed', t1 : 0 .. fed', first : 1 .. fed' + 1, last : 0 .. fed']
        /\ decode_counter' \in Nat /\ heard' \subseteq 1 .. fed'
    BY <1>0, <1>2 DEF Session
  <2> QED BY <1>0, <1>3, <2>1, <2>2 DEF TypeOK
<1>6. WhisperInv' /\ RollingInv'
  BY <1>0, <1>2 DEF Session, KeepsUp, WhisperInv, RollingInv
<1>7. OutInv'
  BY <1>0, <1>2 DEF Session, OutInv, Waiting, Backends, PlaceOf
<1> QED BY <1>4, <1>5, <1>6, <1>7 DEF IInv

(* a flush frame keeps it, *)
LEMMA FlushStep ==
  ASSUME IInv, FlushFrame
  PROVE  IInv'
<1>0. /\ fed \in Nat /\ fed' = fed /\ fed <= MaxFed
      /\ backend' = backend /\ backend \in Backends /\ largest' = largest /\ largest \in Nat
      /\ flushes' \in 0 .. MaxFlushes /\ decode_counter \in Nat
      /\ last_counter' = last_counter /\ last_counter \in -1 .. decode_counter
      /\ known \in -1 .. decode_counter /\ said.counter \in -1 .. decode_counter
      /\ conn' = conn /\ conn \in {"open", "closed"}
  BY DEF IInv, TypeOK, FlushFrame
<1>1. PICK rc \in ResultCodes :
        /\ whisper_flush(rc) \/ rolling_flush(rc)
        /\ Say("final", fed, rc)
  BY DEF FlushFrame
<1>2. /\ Session(fed)
      /\ rc # -2 => out'.last = fed
      /\ decode_counter' \in {decode_counter, decode_counter + 1}
      /\ backend = "rolling" /\ largest' <= Length - Step + 1 => KeepsUp(fed)
  <2>1. CASE whisper_flush(rc)
    <3>1. backend = "whisper"
      BY <2>1 DEF whisper_flush
    <3> QED BY <2>1, <3>1, WhisperFlush
  <2>2. CASE rolling_flush(rc)
    BY <1>0, <2>2, RollingFlush
  <2> QED BY <1>1, <2>1, <2>2
<1>3. /\ last_counter' \in -1 .. decode_counter' /\ known' \in -1 .. decode_counter'
      /\ said'.kind = "final" /\ said'.counter = decode_counter'
      /\ said'.text = out' /\ said'.at = fed /\ said'.rc = rc
  BY <1>0, <1>1, <1>2 DEF Say, Greater
<1>4. ToldIsCurrent'
  BY <1>2, <1>3 DEF ToldIsCurrent, Session, PlaceOf
<1>5. TypeOK'
  <2>1. /\ accum' \in Seq(Nat) /\ history' \in Seq(Nat)
        /\ rolling' \in Seq(Nat) /\ Len(rolling') <= Length
        /\ since' \in 0 .. fed'
        /\ out' \in [t0 : 0 .. fed', t1 : 0 .. fed', first : 1 .. fed' + 1, last : 0 .. fed']
        /\ decode_counter' \in Nat /\ heard' \subseteq 1 .. fed'
    BY <1>0, <1>2 DEF Session
  <2>2. fed' \in 0 .. MaxFed /\ backend' \in Backends /\ largest' \in Nat
        /\ flushes' \in 0 .. MaxFlushes /\ conn' \in {"open", "closed"}
    BY <1>0
  <2>3. /\ last_counter' \in -1 .. decode_counter' /\ known' \in -1 .. decode_counter'
        /\ said'.kind \in {"ready", "partial", "final"}
        /\ said'.counter \in -1 .. decode_counter'
    BY <1>3, <2>1
  <2> QED BY <2>1, <2>2, <2>3 DEF TypeOK
<1>6. WhisperInv' /\ RollingInv'
  BY <1>0, <1>2 DEF Session, KeepsUp, WhisperInv, RollingInv
<1>7. OutInv'
  BY <1>0, <1>2 DEF Session, OutInv, Waiting, Backends, PlaceOf
<1> QED BY <1>4, <1>5, <1>6, <1>7 DEF IInv

(* The three facts of an inductive invariant. *)
LEMMA IInvInit ==
  ASSUME Init
  PROVE  IInv
<1>0. <<>> \in Seq(Nat) /\ Len(<<>>) = 0
  OBVIOUS
<1>01. /\ NoText \in [t0 : 0 .. 0, t1 : 0 .. 0, first : 1 .. 1, last : 0 .. 0]
  BY DEF NoText
<1>1. TypeOK
  <2>1. /\ fed = 0 /\ accum = <<>> /\ history = <<>> /\ rolling = <<>> /\ since = 0
        /\ out = NoText /\ decode_counter = 0 /\ conn = "open" /\ flushes = 0
        /\ last_counter = -1 /\ said.kind = "ready" /\ said.counter = -1
        /\ known = -1 /\ heard = {} /\ largest = 0 /\ backend \in Backends
    BY DEF Init
  <2>2. /\ accum \in Seq(Nat) /\ history \in Seq(Nat) /\ rolling \in Seq(Nat)
        /\ Len(rolling) <= Length
    BY <1>0, <2>1
  <2>3. out \in [t0 : 0 .. fed, t1 : 0 .. fed, first : 1 .. fed + 1, last : 0 .. fed]
    BY <1>01, <2>1
  <2> QED BY <2>1, <2>2, <2>3 DEF TypeOK
<1>2. Stretch(<<>>, 0)
  BY <1>0 DEF Stretch
<1>3. WhisperInv /\ RollingInv
  <2>1. heard = 1 .. 0 /\ fed = 0 /\ accum = <<>> /\ history = <<>> /\ rolling = <<>> /\ since = 0
    BY DEF Init
  <2> QED BY <1>0, <1>2, <2>1 DEF WhisperInv, RollingInv, Lesser
<1>4. OutInv /\ ToldIsCurrent
  <2>1. /\ fed = 0 /\ accum = <<>> /\ since = 0 /\ out = NoText
        /\ said = [kind |-> "ready", counter |-> -1, text |-> NoText, at |-> 0, rc |-> 0]
    BY DEF Init
  <2>2. NoText.last = 0 /\ NoText.first = 1 /\ NoText.t0 = 0 /\ NoText.t1 = 0
    BY DEF NoText
  <2>3. Waiting = 0
    BY <1>0, <2>1 DEF Waiting
  <2>4. OutInv
    BY <2>1, <2>2, <2>3 DEF OutInv, PlaceOf
  <2> QED BY <2>1, <2>2, <2>4 DEF ToldIsCurrent
<1> QED BY <1>1, <1>3, <1>4 DEF IInv

(* and so does every step. *)
LEMMA IInvStep ==
  ASSUME IInv, [Next]_vars
  PROVE  IInv'
<1>1. ASSUME NEW n \in Feeds, BinaryFrame(n) PROVE IInv'
  BY <1>1, FrameStep
<1>2. CASE FlushFrame
  BY <1>2, FlushStep
<1>3. CASE Ends \/ UNCHANGED vars
  <2>1. /\ UNCHANGED <<backend, fed, accum, history, rolling, since, out, decode_counter, heard,
                       flushes, last_counter, said, known, largest>>
        /\ conn' \in {conn, "closed"}
    BY <1>3 DEF Ends, vars, whisperVars, rollingVars, textVars, toldVars
  <2>2. TypeOK'
    BY <2>1 DEF IInv, TypeOK
  <2>3. WhisperInv' /\ RollingInv' /\ OutInv' /\ ToldIsCurrent'
    BY <2>1 DEF IInv, WhisperInv, RollingInv, OutInv, ToldIsCurrent, Waiting, PlaceOf
  <2> QED BY <2>2, <2>3 DEF IInv
<1> QED BY <1>1, <1>2, <1>3 DEF Next

(* The inductive invariant. *)
LEMMA IInvHolds == Spec => []IInv
BY IInvInit, IInvStep, PTL DEF Spec

(* Every variable of a connection keeps its type. *)
THEOREM WsTypeCorrect == Spec => []TypeOK
<1>1. IInv => TypeOK BY DEF IInv
<1> QED BY <1>1, IInvHolds, PTL

(* For any sizes of step, window, context and frames: no audio is skipped  *)
(* by run_decode's window, also across decodes that failed; with the       *)
(* rolling buffer, as long as no frame is longer than length - step + 1.   *)
THEOREM NothingSkippedCorrect == Spec => []NothingSkipped
<1>1. IInv => NothingSkipped
  BY DEF IInv, TypeOK, WhisperInv, RollingInv, NothingSkipped, Waiting, Backends
<1> QED BY <1>1, IInvHolds, PTL

(* Partials and finals of ws_handle_connection are about the audio they    *)
(* say, and a partial is always news.                                      *)
THEOREM ToldCorrect == Spec => []ToldIsCurrent
<1>1. IInv => ToldIsCurrent BY DEF IInv
<1> QED BY <1>1, IInvHolds, PTL
===============================================================================
