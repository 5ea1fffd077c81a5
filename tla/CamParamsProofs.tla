--------------------------- MODULE CamParamsProofs ---------------------------
(***************************************************************************)
(* Proofs about CamParams, for any edits of the client, any failures of    *)
(* the driver and any number of calls: what is stored, what the driver was *)
(* told and how a picture is stamped agree.                                *)
(*                                                                         *)
(* That a tinting effect and a white balance of one's own exclude each     *)
(* other needs the order of the two setters, and that each looks at what   *)
(* the other has stored; the driver has neither pair because it has what   *)
(* is stored.                                                              *)
(*                                                                         *)
(* A picture has its own time because no table is without the two time     *)
(* tags once a picture was tagged in it, and these point to an array every *)
(* picture writes over; the table's limit may then drop the new ones.      *)
(***************************************************************************)
EXTENDS CamParams, SequenceTheorems, TLAPS

\* What is stored has the settings as its domain.
StoredOK == mParameters = [k \in Settings |-> mParameters[k]]

Exclusive == mParameters.effect \in TintedEffects =>
                mParameters.whitebalance = "auto"

AllTags == {"latitude", "latitudeRef", "longitude", "longitudeRef",
            "altitude", "altitudeRef", "dateTimeOriginal", "dateTime",
            "maker", "model"}
Entry == [tag : AllTags, of : Nat]
HasTimes(table) == \A t \in TimeTags : \E i \in 1..Len(table) :
                      table[i].tag = t

\* The table is empty until a picture was tagged, and then has the time.
TableOK ==
    /\ pictures \in Nat /\ tagged \in Nat
    /\ exif \in Seq(Entry) /\ Len(exif) <= MaxExifEntries
    /\ IF tagged = 0 THEN exif = <<>> ELSE HasTimes(exif)

IInv == StoredOK /\ Exclusive /\ DriverHasStored /\ TableOK /\ StampedAsTaken

-----------------------------------------------------------------------------
(* setParameters *)

\* The settings that are told to the driver are settings.
LEMMA SomeSettings ==
    /\ Told \subseteq Settings
    /\ {"effect", "whitebalance", "luma", "iso", "fps"} \subseteq Settings
    /\ "luma" \in Told
  BY DEF Told, Settings, Defaults

\* A driver is told only what is stored.
LEMMA TellsStored ==
    ASSUME NEW stored, NEW p
    PROVE  /\ Tells(stored, p) \subseteq stored
           /\ \A k \in stored \cap Told : k \notin Tells(stored, p) =>
                 \/ k = "luma"
                 \/ k = "fps" /\ mParameters.fps = Uint16(p.fps)
  BY DEF Tells

\* Which effect and white balance are stored.
LEMMA StoredEffect ==
    ASSUME StoredOK, NEW p
    PROVE  /\ "effect" \in Stored(p) => TakesEffect(p, mParameters)
           /\ "whitebalance" \in Stored(p) =>
                 IF "effect" \in Stored(p) THEN p.effect \notin TintedEffects
                 ELSE mParameters.effect \notin TintedEffects
  <1> DEFINE par == AfterEffect(p)
  <1>1. \A k \in Stored(p) :
           Takes(k, p, IF k = "effect" THEN mParameters ELSE par)
    BY DEF Stored
  <1>2. "effect" \in Stored(p) <=> Takes("effect", p, mParameters)
    <2>1. Runs("effect", p)
      BY DEF Runs, InAutoScene
    <2>2. QED BY <2>1, SomeSettings DEF Stored
  <1>3. \A q : Takes("effect", p, q) = TakesEffect(p, q)
    BY DEF Takes
  <1>4. \A q : Takes("whitebalance", p, q) = TakesWhiteBalance(p, q)
    BY DEF Takes
  <1>5. "whitebalance" \in Stored(p) => par.effect \notin TintedEffects
    <2>1. "whitebalance" \in Stored(p) => Takes("whitebalance", p, par)
      BY <1>1
    <2>2. QED BY <1>4, <2>1 DEF TakesWhiteBalance
  <1>6. par.effect = IF "effect" \in Stored(p) THEN p.effect
                                               ELSE mParameters.effect
    <2>1. CASE "effect" \in Stored(p)
      <3>1. par = [mParameters EXCEPT !.effect = p.effect]
        BY <1>2, <2>1 DEF AfterEffect
      <3>2. QED BY <2>1, <3>1, SomeSettings DEF StoredOK
    <2>2. CASE "effect" \notin Stored(p)
      BY <1>2, <2>2 DEF AfterEffect
    <2>3. QED BY <2>1, <2>2
  <1> HIDE DEF par
  <1>7. QED BY <1>2, <1>3, <1>5, <1>6

\* A call, one setter after the other, keeps the stored settings and the
\* driver's in step, whatever fails.
LEMMA SetAllKeeps ==
    ASSUME StoredOK, Exclusive, DriverHasStored, NEW p,
           SetAll(p)
    PROVE  StoredOK' /\ Exclusive' /\ DriverHasStored'
  <1> DEFINE stored == Stored(p)
             tells  == Tells(stored, p)
             hjr    == p.iso = "deblur"
  <1>1. PICK fails :
        /\ mParameters' = [k \in Settings |->
              IF k \in stored \ {"luma"} THEN Value(k, p) ELSE mParameters[k]]
        /\ driver' = [k \in Settings |->
              IF k \in tells \ fails THEN Value(k, p) ELSE driver[k]]
        /\ lag' = (lag \ tells) \cup (tells \cap fails)
        /\ mBrightness' = IF "luma" \in tells THEN p.luma ELSE mBrightness
        /\ IF "iso" \in stored /\ (hjr \/ mHJR)
           THEN mHJR' = hjr ELSE mHJR' = mHJR
    BY DEF SetAll
  <1>2. /\ tells \subseteq stored
        /\ \A k \in stored \cap Told : k \notin tells =>
              k = "luma" \/ (k = "fps" /\ mParameters.fps = Uint16(p.fps))
    BY TellsStored
  <1>3. /\ "effect" \in stored => TakesEffect(p, mParameters)
        /\ "whitebalance" \in stored =>
              IF "effect" \in stored THEN p.effect \notin TintedEffects
              ELSE mParameters.effect \notin TintedEffects
    BY StoredEffect
  <1> HIDE DEF stored, tells
  <1>4. Value("fps", p) = Uint16(p.fps)
        /\ \A k \in Settings : k # "fps" => Value(k, p) = p[k]
    BY DEF Value
  <1>5. StoredOK'
    BY <1>1 DEF StoredOK
  <1>6. Exclusive'
    <2>1. mParameters'.effect = IF "effect" \in stored THEN p.effect
                                ELSE mParameters.effect
      BY <1>1, <1>4, SomeSettings
    <2>2. mParameters'.whitebalance = IF "whitebalance" \in stored
                                      THEN p.whitebalance
                                      ELSE mParameters.whitebalance
      BY <1>1, <1>4, SomeSettings
    <2>3. "effect" \in stored /\ p.effect \in TintedEffects
             => mParameters.whitebalance = "auto"
      BY <1>3 DEF TakesEffect
    <2>4. QED BY <1>3, <2>1, <2>2, <2>3 DEF Exclusive
  <1>7. ASSUME NEW k \in Told, k \notin lag', k # "luma"
        PROVE  driver'[k] = mParameters'[k]
    <2>1. k \in Settings BY SomeSettings
    <2>2. CASE k \in tells
      BY <1>1, <1>2, <1>7, <2>1, <2>2
    <2>3. CASE k \notin tells
      <3>1. driver'[k] = driver[k] /\ driver[k] = mParameters[k]
        BY <1>1, <1>7, <2>1, <2>3 DEF DriverHasStored
      <3>2. CASE k \in stored
        <4>1. k = "fps" /\ mParameters[k] = Value(k, p)
          BY <1>2, <1>4, <1>7, <2>3, <3>2
        <4>2. QED BY <1>1, <2>1, <3>1, <4>1
      <3>3. CASE k \notin stored
        BY <1>1, <2>1, <3>1, <3>3
      <3>4. QED BY <3>2, <3>3
    <2>4. QED BY <2>2, <2>3
  <1>8. "luma" \notin lag' => driver'.luma = mBrightness'
    BY <1>1, <1>4, SomeSettings DEF DriverHasStored
  <1>9. mHJR' = (mParameters'.iso = "deblur")
    <2>1. mParameters'.iso = IF "iso" \in stored THEN p.iso
                             ELSE mParameters.iso
      BY <1>1, <1>4, SomeSettings
    <2>2. mHJR = (mParameters.iso = "deblur")
      BY DEF DriverHasStored
    <2>3. CASE "iso" \in stored
      <3>1. mHJR' = hjr
        BY <1>1, <2>2, <2>3
      <3>2. QED BY <2>1, <2>3, <3>1
    <2>4. CASE "iso" \notin stored
      BY <1>1, <2>1, <2>2, <2>4
    <2>5. QED BY <2>3, <2>4
  <1>10. QED BY <1>5, <1>6, <1>7, <1>8, <1>9 DEF DriverHasStored

-----------------------------------------------------------------------------
(* The picture *)

\* What addExifTag makes of a table and a picture's tags.
LEMMA AddTagsIs ==
    ASSUME NEW S, NEW table \in Seq(S), NEW tags \in Seq(S),
           Len(table) <= MaxExifEntries
    PROVE  /\ AddTags(table, tags) \in Seq(S)
           /\ Len(AddTags(table, tags)) =
                 IF Len(table) + Len(tags) < MaxExifEntries
                 THEN Len(table) + Len(tags) ELSE MaxExifEntries
           /\ \A i \in 1..Len(AddTags(table, tags)) :
                 AddTags(table, tags)[i] =
                    IF i <= Len(table) THEN table[i]
                                       ELSE tags[i - Len(table)]
  <1> DEFINE all == table \o tags
             m == IF Len(all) < MaxExifEntries THEN Len(all)
                  ELSE MaxExifEntries
             r == SubSeq(all, 1, m)
  <1>1. /\ all \in Seq(S) /\ Len(all) = Len(table) + Len(tags)
        /\ \A i \in 1..Len(all) :
              all[i] = IF i <= Len(table) THEN table[i]
                                          ELSE tags[i - Len(table)]
    BY ConcatProperties
  <1> HIDE DEF all
  <1>2. Len(all) \in Nat /\ Len(table) \in Nat /\ Len(tags) \in Nat
    BY <1>1, LenProperties
  <1>3. m \in Nat /\ m <= Len(all)
    BY <1>2 DEF MaxExifEntries
  <1> HIDE DEF m
  <1>4. \A i \in 1..m : all[i] \in S
    BY <1>1, <1>2, <1>3, ElementOfSeq
  <1>5. /\ r \in Seq(S) /\ Len(r) = IF 1 <= m THEN m - 1 + 1 ELSE 0
        /\ \A i \in 1..(m - 1 + 1) : r[i] = all[1 + i - 1]
    BY <1>3, <1>4, SubSeqProperties
  <1> HIDE DEF r
  <1>6. r \in Seq(S) /\ Len(r) = m /\ \A i \in 1..m : r[i] = all[i]
    <2>1. m - 1 + 1 = m /\ \A i \in 1..m : 1 + i - 1 = i
      BY <1>3
    <2>2. QED BY <1>3, <1>5, <2>1
  <1>7. AddTags(table, tags) = r
    BY DEF AddTags, all, m, r
  <1>8. m = IF Len(table) + Len(tags) < MaxExifEntries
            THEN Len(table) + Len(tags) ELSE MaxExifEntries
    BY <1>1 DEF m
  <1>9. \A i \in 1..m : i \in 1..Len(all)
    BY <1>2, <1>3
  <1>10. QED BY <1>1, <1>6, <1>7, <1>8, <1>9

\* The tags of a picture: the time among them, all of this picture.
LEMMA TagsOfPicture ==
    ASSUME pictures \in Nat
    PROVE  /\ Tag(TagNames) \in Seq(Entry)
           /\ Len(Tag(TagNames)) \in {Len(OtherTags),
                                      Len(LocationTags \o OtherTags)}
           /\ Len(Tag(TagNames)) < MaxExifEntries
           /\ \A i \in 1..Len(Tag(TagNames)) : Tag(TagNames)[i].of = pictures
           /\ HasTimes(Tag(TagNames))
           /\ \A t \in TimeTags : \E j \in DOMAIN TagNames : TagNames[j] = t
  <1> DEFINE all == LocationTags \o OtherTags
             n == TagNames
             t == Tag(TagNames)
  <1>1. OtherTags \in Seq(AllTags) /\ Len(OtherTags) = 4
    BY DEF OtherTags, AllTags
  <1>2. LocationTags \in Seq(AllTags) /\ Len(LocationTags) = 6
    BY DEF LocationTags, AllTags
  <1>3. /\ all \in Seq(AllTags) /\ Len(all) = 10
        /\ \A i \in 1..Len(all) : all[i] = IF i <= 6 THEN LocationTags[i]
                                           ELSE OtherTags[i - 6]
    <2>1. /\ all \in Seq(AllTags)
          /\ Len(all) = Len(LocationTags) + Len(OtherTags)
          /\ \A i \in 1..(Len(LocationTags) + Len(OtherTags)) :
                all[i] = IF i <= Len(LocationTags) THEN LocationTags[i]
                         ELSE OtherTags[i - Len(LocationTags)]
      BY <1>1, <1>2, ConcatProperties
    <2> HIDE DEF all
    <2>2. Len(LocationTags) + Len(OtherTags) = 10
      BY <1>1, <1>2
    <2>3. Len(all) = 10
      BY <2>1, <2>2
    <2>4. QED BY <1>2, <2>1, <2>2, <2>3
  <1>4. OtherTags[1] = "dateTimeOriginal" /\ OtherTags[2] = "dateTime"
    BY DEF OtherTags
  <1>5. all[7] = "dateTimeOriginal" /\ all[8] = "dateTime"
    <2>1. 7 \in 1..Len(all) /\ 8 \in 1..Len(all)
      BY <1>3
    <2>2. all[7] = OtherTags[7 - 6] /\ all[8] = OtherTags[8 - 6]
      BY <1>3, <2>1
    <2>3. QED BY <1>4, <2>2
  <1>6. n = all \/ n = OtherTags
    BY DEF TagNames
  <1> HIDE DEF all
  <1>7. /\ n \in Seq(AllTags) /\ Len(n) \in {Len(OtherTags), Len(all)}
        /\ Len(n) \in {4, 10}
    BY <1>1, <1>3, <1>6
  <1>8. \A u \in TimeTags : \E j \in 1..Len(n) : n[j] = u
    BY <1>1, <1>3, <1>4, <1>5, <1>6 DEF TimeTags
  <1> HIDE DEF n
  <1>9. DOMAIN n = 1..Len(n)
    BY <1>7, LenProperties
  <1>10. t = [i \in 1..Len(n) |-> [tag |-> n[i], of |-> pictures]]
    BY <1>9 DEF Tag, n
  <1>11. \A i \in 1..Len(n) : [tag |-> n[i], of |-> pictures] \in Entry
    BY <1>7, ElementOfSeq DEF Entry
  <1>12. t \in Seq(Entry) /\ Len(t) = Len(n)
    BY <1>7, <1>10, <1>11, IsASeq
  <1>13. \A i \in 1..Len(t) : t[i].of = pictures /\ t[i].tag = n[i]
    BY <1>10, <1>12
  <1> HIDE DEF t
  <1>14. HasTimes(t)
    BY <1>8, <1>12, <1>13 DEF HasTimes
  <1>15. Len(t) < MaxExifEntries
    <2>1. Len(t) \in {4, 10}
      BY <1>7, <1>12
    <2>2. \A k \in {4, 10} : k < MaxExifEntries
      BY DEF MaxExifEntries
    <2>3. QED BY <2>1, <2>2
  <1>16. QED
    BY <1>7, <1>8, <1>9, <1>12, <1>13, <1>14, <1>15 DEF t, n, all

\* The table keeps its tags, and those of the time become this picture's.
LEMMA RewrittenIs ==
    ASSUME pictures \in Nat, NEW table \in Seq(Entry)
    PROVE  /\ Rewritten(table, TagNames) \in Seq(Entry)
           /\ Len(Rewritten(table, TagNames)) = Len(table)
           /\ \A i \in 1..Len(table) :
                 /\ Rewritten(table, TagNames)[i].tag = table[i].tag
                 /\ table[i].tag \in TimeTags =>
                       Rewritten(table, TagNames)[i].of = pictures
  <1> DEFINE r == Rewritten(table, TagNames)
             Own(i) == \E j \in DOMAIN TagNames : TagNames[j] = table[i].tag
             e(i) == IF table[i].tag \in InStatic /\ Own(i)
                     THEN [tag |-> table[i].tag, of |-> pictures]
                     ELSE table[i]
  <1>1. Len(table) \in Nat /\ DOMAIN table = 1..Len(table)
    BY LenProperties
  <1>2. \A i \in 1..Len(table) : table[i] \in Entry
    BY ElementOfSeq
  <1>3. \A i \in 1..Len(table) : table[i].tag \in TimeTags => Own(i)
    BY TagsOfPicture
  <1> HIDE DEF Own
  <1>4. \A i \in 1..Len(table) : e(i) \in Entry /\ e(i).tag = table[i].tag
    BY <1>2 DEF Entry
  <1>5. \A i \in 1..Len(table) :
           table[i].tag \in TimeTags => e(i).of = pictures
    BY <1>3 DEF InStatic
  <1> HIDE DEF e
  <1>6. r = [i \in 1..Len(table) |-> e(i)]
    BY <1>1 DEF Rewritten, e, Own
  <1>7. r \in Seq(Entry) /\ Len(r) = Len(table)
    BY <1>1, <1>4, <1>6, IsASeq
  <1>8. QED BY <1>4, <1>5, <1>6, <1>7

\* An empty table is in order.
LEMMA EmptyTableOK ==
    ASSUME NEW p \in Nat, pictures' = p, exif' = <<>>, tagged' = 0
    PROVE  TableOK'
  <1>1. <<>> \in Seq(Entry) /\ Len(<<>>) = 0
    OBVIOUS
  <1>2. QED BY <1>1 DEF TableOK, MaxExifEntries

\* Encoding stamps the picture with its own time, on whatever table.
LEMMA EncodeStamps ==
    ASSUME TableOK, Encode PROVE TableOK' /\ StampedAsTaken'
  <1> DEFINE old == Rewritten(exif, TagNames)
             t == Tag(TagNames)
             r == AddTags(old, t)
  <1>1. /\ exif' = r /\ tagged' = tagged + 1 /\ pictures' = pictures
        /\ shot' = "encoded" /\ pictures \in Nat /\ tagged \in Nat
        /\ exif \in Seq(Entry) /\ Len(exif) <= MaxExifEntries
    BY DEF TableOK, Encode
  <1>2. /\ old \in Seq(Entry) /\ Len(old) = Len(exif)
        /\ \A i \in 1..Len(exif) :
              /\ old[i].tag = exif[i].tag
              /\ exif[i].tag \in TimeTags => old[i].of = pictures
    BY <1>1, RewrittenIs
  <1>3. /\ t \in Seq(Entry) /\ Len(t) < MaxExifEntries /\ HasTimes(t)
        /\ Len(t) \in {Len(OtherTags), Len(LocationTags \o OtherTags)}
        /\ \A i \in 1..Len(t) : t[i].of = pictures
    BY <1>1, TagsOfPicture
  <1> HIDE DEF old, t
  <1>4. /\ r \in Seq(Entry)
        /\ Len(r) = IF Len(exif) + Len(t) < MaxExifEntries
                    THEN Len(exif) + Len(t) ELSE MaxExifEntries
        /\ \A i \in 1..Len(r) : r[i] = IF i <= Len(exif) THEN old[i]
                                        ELSE t[i - Len(exif)]
    <2>1. Len(old) <= MaxExifEntries
      BY <1>1, <1>2
    <2>2. /\ r \in Seq(Entry)
          /\ Len(r) = IF Len(old) + Len(t) < MaxExifEntries
                      THEN Len(old) + Len(t) ELSE MaxExifEntries
          /\ \A i \in 1..Len(r) : r[i] = IF i <= Len(old) THEN old[i]
                                          ELSE t[i - Len(old)]
      BY <1>2, <1>3, <2>1, AddTagsIs
    <2>3. QED BY <1>2, <2>2
  <1> HIDE DEF r
  <1>5. /\ Len(exif) \in Nat /\ Len(t) \in Nat /\ Len(r) \in Nat
        /\ DOMAIN r = 1..Len(r)
    BY <1>1, <1>3, <1>4, LenProperties
  <1>6. Len(r) <= MaxExifEntries /\ Len(exif) <= Len(r)
        /\ Len(r) <= Len(exif) + Len(t)
    BY <1>1, <1>4, <1>5 DEF MaxExifEntries
  <1>7. ASSUME Len(exif) = 0
         PROVE  Len(r) = Len(t) /\ \A i \in 1..Len(r) : r[i] = t[i]
    <2>1. Len(r) = Len(t)
      <3>1. Len(exif) + Len(t) = Len(t)
        BY <1>5, <1>7
      <3>2. Len(t) < MaxExifEntries
        BY <1>3
      <3>3. QED BY <1>4, <3>1, <3>2
    <2>2. ASSUME NEW i \in 1..Len(r) PROVE r[i] = t[i]
      <3>1. ~(i <= Len(exif)) /\ i - Len(exif) = i
        BY <1>5, <1>7, <2>2
      <3>2. QED BY <1>4, <2>2, <3>1
    <2>3. QED BY <2>1, <2>2
  <1>8. HasTimes(r)
    <2>1. CASE tagged = 0
      <3>1. Len(exif) = 0
        BY <2>1 DEF TableOK
      <3>2. Len(r) = Len(t) /\ \A i \in 1..Len(r) : r[i] = t[i]
        BY <1>7, <3>1
      <3>3. QED BY <1>3, <3>2 DEF HasTimes
    <2>2. CASE tagged # 0
      <3>1. HasTimes(exif)
        BY <2>2 DEF TableOK
      <3>2. \A i \in 1..Len(exif) : i \in 1..Len(r) /\ r[i].tag = exif[i].tag
        BY <1>2, <1>4, <1>5, <1>6
      <3>3. QED BY <3>1, <3>2 DEF HasTimes
    <2>3. QED BY <2>1, <2>2
  <1>9. \A i \in 1..Len(r) :
           \/ i \in 1..Len(exif) /\ r[i] = old[i]
           \/ i - Len(exif) \in 1..Len(t) /\ r[i] = t[i - Len(exif)]
    BY <1>4, <1>5, <1>6
  <1>10. \A i \in 1..Len(r) : r[i].tag \in TimeTags => r[i].of = pictures
    BY <1>2, <1>3, <1>9
  <1>11. ASSUME tagged + 1 = 1
         PROVE  /\ Len(r) = Len(t)
                /\ \A i \in 1..Len(r) : r[i].of = pictures
    <2>1. Len(exif) = 0
      BY <1>1, <1>11 DEF TableOK
    <2>2. QED BY <1>3, <1>7, <2>1
  <1>12. TableOK'
    <2>1. tagged + 1 \in Nat /\ tagged + 1 # 0
      BY <1>1
    <2>2. HasTimes(exif)' = HasTimes(r)
      BY <1>1 DEF HasTimes
    <2>3. QED BY <1>1, <1>4, <1>6, <1>8, <2>1, <2>2 DEF TableOK
  <1>13. StampedAsTaken'
    BY <1>1, <1>3, <1>5, <1>8, <1>10, <1>11 DEF StampedAsTaken, HasTimes
  <1>14. QED BY <1>12, <1>13

-----------------------------------------------------------------------------

\* The defaults agree with what the driver starts with.
LEMMA InitIInv == Init => IInv
  <1> SUFFICES ASSUME Init PROVE IInv OBVIOUS
  <1>1. /\ mParameters = Defaults /\ driver = Defaults /\ shot = "none"
        /\ mBrightness = Defaults.luma /\ mHJR = FALSE
    BY DEF Init
  <1>2. /\ Defaults.effect = "none" /\ Defaults.iso = "auto"
        /\ Defaults = [k \in Settings |-> Defaults[k]]
    BY DEF Defaults, Settings
  <1>3. Exclusive
    BY <1>1, <1>2 DEF Exclusive, TintedEffects
  <1>4. DriverHasStored
    BY <1>1, <1>2 DEF DriverHasStored
  <1>5. TableOK /\ StampedAsTaken
    BY <1>1 DEF Init, TableOK, StampedAsTaken, MaxExifEntries
  <1>6. QED
    BY <1>1, <1>2, <1>3, <1>4, <1>5 DEF IInv, StoredOK

\* Every call, and every stage of a picture, keeps the invariant.
LEMMA NextIInv == ASSUME IInv, [Next]_vars PROVE IInv'
  <1> USE DEF IInv
  <1>1. ASSUME NEW edit, NEW base, SetParameters(edit, base) PROVE IInv'
    <2>1. SetAll(held') /\ UNCHANGED <<shot, exif, tagged, pictures>>
      BY <1>1 DEF SetParameters, picture
    <2>2. StoredOK' /\ Exclusive' /\ DriverHasStored'
      BY <2>1, SetAllKeeps
    <2>3. TableOK' /\ StampedAsTaken'
      BY <2>1 DEF TableOK, StampedAsTaken, HasTimes
    <2>4. QED BY <2>2, <2>3
  <1>2. ASSUME UNCHANGED settingVars
        PROVE  StoredOK' /\ Exclusive' /\ DriverHasStored'
    BY <1>2 DEF settingVars, StoredOK, Exclusive, DriverHasStored
  <1>3. CASE StartPreview
    <2>1. /\ shot' = "none" /\ pictures' = pictures
          /\ \/ exif' = <<>> /\ tagged' = 0
             \/ exif' = exif /\ tagged' = tagged
      BY <1>3 DEF StartPreview
    <2>2. TableOK'
      <3>1. CASE exif' = <<>> /\ tagged' = 0
        <4>1. pictures \in Nat
          BY DEF TableOK
        <4>2. QED BY <2>1, <3>1, <4>1, EmptyTableOK
      <3>2. CASE exif' = exif /\ tagged' = tagged
        BY <2>1, <3>2 DEF TableOK, HasTimes
      <3>3. QED BY <2>1, <3>1, <3>2
    <2>3. QED BY <1>2, <1>3, <2>1, <2>2 DEF StartPreview, StampedAsTaken
  <1>4. CASE TakePicture
    <2>1. /\ shot' # "encoded" /\ pictures' = pictures + 1
          /\ exif' = exif /\ tagged' = tagged
      BY <1>4 DEF TakePicture
    <2>2. TableOK'
      BY <2>1 DEF TableOK, HasTimes
    <2>3. QED BY <1>2, <1>4, <2>1, <2>2 DEF TakePicture, StampedAsTaken
  <1>5. CASE Encode
    BY <1>2, <1>5, EncodeStamps DEF Encode
  <1>6. CASE StopPreview \/ SnapshotFails \/ UNCHANGED vars
    <2>1. /\ UNCHANGED <<settingVars, exif, tagged, pictures>>
          /\ shot' = shot \/ shot' = "none"
      BY <1>6 DEF StopPreview, SnapshotFails, vars, picture
    <2>2. TableOK' /\ StampedAsTaken'
      BY <2>1 DEF TableOK, StampedAsTaken, HasTimes
    <2>3. QED BY <1>2, <2>1, <2>2
  <1>7. QED BY <1>1, <1>3, <1>4, <1>5, <1>6 DEF Next

\* The inductive invariant holds in every behaviour.
THEOREM Invariance == Spec => []IInv
  BY InitIInv, NextIInv, PTL DEF Spec

\* The driver has what is stored of every setting it took, and HJR is on when
\* the ISO mode is deblurring.
THEOREM DriverAlwaysHasStored == Spec => []DriverHasStored
  <1>1. IInv => DriverHasStored BY DEF IInv
  <1>2. QED BY <1>1, Invariance, PTL

\* A tinting effect and a white balance of one's own are never stored, nor in
\* force, together.
THEOREM EffectAlwaysNeedsAutoBalance == Spec => []EffectNeedsAutoBalance
  <1>1. IInv => EffectNeedsAutoBalance
    <2> SUFFICES ASSUME IInv PROVE EffectNeedsAutoBalance OBVIOUS
    <2>1. lag \cap {"effect", "whitebalance"} = {} =>
             /\ driver.effect = mParameters.effect
             /\ driver.whitebalance = mParameters.whitebalance
      BY DEF IInv, DriverHasStored, Told
    <2>2. QED BY <2>1 DEF IInv, Exclusive, EffectNeedsAutoBalance
  <1>2. QED BY <1>1, Invariance, PTL

\* A picture is stamped with its own time, however many were taken on one
\* preview and however full the table is, and the first has just its tags.
THEOREM AlwaysStampedAsTaken == Spec => []StampedAsTaken
  <1>1. IInv => StampedAsTaken BY DEF IInv
  <1>2. QED BY <1>1, Invariance, PTL
=============================================================================
