------------------------------ MODULE CamParams ------------------------------
(***************************************************************************)
(* The settings of the camera (src/libcamera/QualcommCameraHardware.cpp):  *)
(* setParameters runs one setter after the other under mLock.  A setter    *)
(* looks at the client's value, and some at another setting, stores the    *)
(* value and then tells the driver, which may fail; setParameters itself   *)
(* always reports success.  A picture is made with what is stored, at the  *)
(* two moments its thread looks.                                           *)
(*                                                                         *)
(* The nine GPS settings are one, "gps": a location, or 0 for none.        *)
(***************************************************************************)
EXTENDS CamSizes, FiniteSets

CONSTANTS Edits,     \* functions from settings to values: what clients change
          MaxZoom,   \* what native_get_maxzoom answered
          MayFail,   \* settings whose control call may fail
          Infos,     \* what the driver may say of its sensor
          MaxCalls,  \* bound: calls of setParameters in a behaviour
          MaxPictures \* bound: pictures taken in a behaviour

ASSUME ParamsAssumption ==
    MaxZoom \in Nat /\ MaxCalls \in Nat /\ MaxPictures \in Nat

VARIABLES mParameters,          \* what is stored
          held,                 \* the CameraParameters object of the client
          driver,               \* what the driver was told last
          lag,                  \* settings not told, or refused last time
          mBrightness, mHJR, driverHJR,
          sensor, mSensorInfo,  \* sensorType, what the driver says of it
          mCameraRunning, preview, \* a preview runs; size of the last one
          shot,                 \* stage of the picture
          thumb, exif,          \* its thumbnail's size, the EXIF table
          tagged,               \* history: pictures tagged in this table
          pictures, sets        \* how many pictures, calls

settingVars == <<mParameters, driver, lag, mBrightness, mHJR, driverHJR>>
picture  == <<mCameraRunning, preview, shot, thumb, exif, tagged, pictures>>
vars == <<settingVars, held, sensor, mSensorInfo, picture, sets>>

Effects == {"none", "mono", "negative", "solarize", "sepia", "posterize",
            "whiteboard", "blackboard", "aqua"}
WhiteBalances == {"auto", "incandescent", "fluorescent", "daylight",
                  "cloudy-daylight"}
SceneModes == {"auto", "action", "portrait", "landscape", "night",
               "night-portrait", "theatre", "beach", "snow", "sunset",
               "steadyphoto", "fireworks", "sports", "party", "candlelight"}
Isos == {"auto", "deblur", "100", "200", "400", "800", "1600"}
Choice == [ lensshade     |-> {"enable", "disable"},
            pictureFormat |-> {"jpeg", "raw"},
            antibanding   |-> {"off", "50hz", "60hz", "auto"},
            autoExposure  |-> {"frame-average", "center-weighted",
                               "spot-metering"},
            flashMode     |-> {"off", "auto", "on", "torch"},
            focusMode     |-> {"auto", "infinity", "normal", "macro"},
            orientation   |-> {"portrait", "landscape"},
            rotation      |-> {0, 90, 180, 270},
            jpegQuality   |-> 1..100, jpegThumbnailQuality |-> 1..100,
            jpegThumbnail |-> jpeg_thumbnail_sizes,
            sharpness     |-> 0..4, contrast |-> 0..4, saturation |-> 0..4,
            exposure      |-> -12..12, zoom |-> 0..MaxZoom,
            scene         |-> SceneModes, iso |-> Isos,
            effect        |-> Effects, whitebalance |-> WhiteBalances ]

\* What initDefaultParameters stores before it calls setParameters.
Defaults ==
    [ previewSize |-> <<800, 480>>, pictureSize |-> <<800, 480>>,
      jpegThumbnail |-> <<512, 384>>, jpegQuality |-> 85,
      jpegThumbnailQuality |-> 90, effect |-> "none", gps |-> 0,
      rotation |-> 0, zoom |-> 0, orientation |-> "landscape",
      lensshade |-> "enable", pictureFormat |-> "jpeg", sharpness |-> 2,
      saturation |-> 2, scene |-> "auto", contrast |-> 3, fps |-> 30,
      antibanding |-> "off", autoExposure |-> "frame-average",
      exposure |-> 0, whitebalance |-> "auto", flashMode |-> "off",
      focusMode |-> "auto", luma |-> 3, iso |-> "auto" ]

\* The setters that run only when the client asks for the automatic scene.
InAutoScene == {"fps", "antibanding", "autoExposure", "exposure",
                "whitebalance", "flashMode", "focusMode", "luma", "iso"}

\* Settings the driver is told.
Told == {"effect", "zoom", "lensshade", "sharpness", "saturation", "scene",
         "contrast", "fps", "antibanding", "autoExposure", "exposure",
         "whitebalance", "flashMode", "luma", "iso"}
\* These effects and a white balance of one's own exclude each other.
TintedEffects == {"mono", "negative", "aqua", "sepia"}
EffectsOf2mp  == {"none", "mono", "negative", "solarize", "sepia"}
Uint16(n) == n % 65536

\* The value the setter of k makes of the client's.
Value(k, p) == IF k = "fps" THEN Uint16(p.fps) ELSE p[k]

\* What each setter demands of the client's parameters p and of the stored
\* ones par before it stores the setting.
Offered(k, p) == p[k] \in Choice[k]
Not2mp   == sensor.name # "2mp"
NotMipi  == ~mSensorInfo.vx6953

TakesPreviewSize(p) == p.previewSize \in filterPreviewSizes[sensor]
TakesFps(p)         == NotMipi /\ Not2mp /\ Uint16(p.fps) \in 5..30
TakesThumbnail(p)   == Offered("jpegThumbnail", p)
TakesPictureSize(p) == AcceptsPictureSize(p.pictureSize, sensor)
TakesQuality(k, p)  == Offered(k, p)
TakesEffect(p, par) ==
    /\ Offered("effect", p)
    /\ Not2mp \/ p.effect \in EffectsOf2mp
    /\ p.effect \in TintedEffects => par.whitebalance = "auto"
TakesExposure(p)     == Not2mp /\ Offered("exposure", p)
TakesAutoExposure(p) == Not2mp /\ Offered("autoExposure", p)
TakesSharpness(p)    == Not2mp /\ Offered("sharpness", p)
TakesContrast(p)     == Not2mp /\ Offered("contrast", p) /\ p.scene = "auto"
TakesSaturation(p) ==
    Not2mp /\ Offered("saturation", p) /\ p.effect \notin TintedEffects
TakesWhiteBalance(p, par) ==
    Offered("whitebalance", p) /\ par.effect \notin TintedEffects
TakesFlash(p)       == mSensorInfo.flash_enabled /\ Offered("flashMode", p)
TakesAntibanding(p) == Not2mp /\ Offered("antibanding", p)
TakesLensshade(p)   == Not2mp /\ NotMipi /\ Offered("lensshade", p)
TakesIso(p)         == Offered("iso", p)
TakesScene(p)       == Not2mp /\ Offered("scene", p)
TakesGps(p)         == p.gps # 0
TakesRotation(p)    == Offered("rotation", p)
TakesZoom(p)        == Offered("zoom", p)
TakesFocus(p)       == Offered("focusMode", p)
TakesOrientation(p) == Offered("orientation", p)
TakesFormat(p)      == Offered("pictureFormat", p)

Takes(k, p, par) ==
    CASE k = "previewSize"  -> TakesPreviewSize(p)
      [] k = "fps"          -> TakesFps(p)
      [] k = "jpegThumbnail" -> TakesThumbnail(p)
      [] k = "pictureSize"  -> TakesPictureSize(p)
      [] k \in {"jpegQuality", "jpegThumbnailQuality"} -> TakesQuality(k, p)
      [] k = "effect"       -> TakesEffect(p, par)
      [] k = "exposure"     -> TakesExposure(p)
      [] k = "autoExposure" -> TakesAutoExposure(p)
      [] k = "sharpness"    -> TakesSharpness(p)
      [] k = "contrast"     -> TakesContrast(p)
      [] k = "saturation"   -> TakesSaturation(p)
      [] k = "luma"         -> TRUE
      [] k = "whitebalance" -> TakesWhiteBalance(p, par)
      [] k = "flashMode"    -> TakesFlash(p)
      [] k = "antibanding"  -> TakesAntibanding(p)
      [] k = "lensshade"    -> TakesLensshade(p)
      [] k = "iso"          -> TakesIso(p)
      [] k = "scene"        -> TakesScene(p)
      [] k = "gps"          -> TakesGps(p)
      [] k = "rotation"     -> TakesRotation(p)
      [] k = "zoom"         -> TakesZoom(p)
      [] k = "focusMode"    -> TakesFocus(p)
      [] k = "orientation"  -> TakesOrientation(p)
      [] k = "pictureFormat" -> TakesFormat(p)

-----------------------------------------------------------------------------
(* setParameters *)

Settings == DOMAIN Defaults

\* The setters that store the client's value.  The only stored settings a
\* setter looks at are the effect and the white balance; the effect is set
\* first.
Runs(k, p) == p.scene = "auto" \/ k \notin InAutoScene

\* Faulty variant: the effect is set after the white balance.
AfterEffectLate(p) == mParameters

AfterEffect(p) == IF Takes("effect", p, mParameters)
                  THEN [mParameters EXCEPT !.effect = p.effect]
                  ELSE mParameters
Stored(p) == LET par == AfterEffect(p)
             IN  {k \in Settings : Runs(k, p)
                    /\ Takes(k, p, IF k = "effect" THEN mParameters ELSE par)}

\* Faulty variant: the driver is told what the old scene mode lets it have.
TellsInOldScene(stored, p) ==
    {k \in stored \cap Told : k \in InAutoScene => mParameters.scene = "auto"}

\* Of these, the ones native_set_parm is called for: the brightness and the
\* frame rate only when they change.
Tells(stored, p) ==
    {k \in stored \cap Told : /\ k = "luma" => mBrightness # p.luma
                             /\ k = "fps" => mParameters.fps # Uint16(p.fps)}

Failures == {{}} \cup {{k} : k \in MayFail}

\* Every setter, one after the other; those in fails tell in vain.  The
\* brightness is kept apart and never stored.  HJR is switched when the ISO
\* mode becomes or stops to be deblurring.
SetAll(p) ==
    \E stored \in {Stored(p)} : \E tells \in {Tells(stored, p)} :
    \E fails \in {f \in Failures : f \subseteq tells \cup {"hjr"}} :
    LET hjr == p.iso = "deblur"
    IN  /\ mParameters' = [k \in Settings |->
              IF k \in stored \ {"luma"} THEN Value(k, p) ELSE mParameters[k]]
        /\ driver' = [k \in Settings |->
              IF k \in tells \ fails THEN Value(k, p) ELSE driver[k]]
        /\ lag' = (lag \ tells) \cup (tells \cap fails)
        /\ mBrightness' = IF "luma" \in tells THEN p.luma ELSE mBrightness
        /\ IF "iso" \in stored /\ (hjr \/ mHJR)
           THEN /\ mHJR' = hjr
                /\ driverHJR' = IF "hjr" \in fails THEN driverHJR ELSE hjr
           ELSE UNCHANGED <<mHJR, driverHJR>>

-----------------------------------------------------------------------------

\* findSensorType and initDefaultParameters: the defaults pass all setters,
\* and what the driver starts with it is not told is not known.
Init ==
    /\ sensor \in {findSensorType(h) : h \in {0, 1960, 1544, 1200}}
    /\ mSensorInfo \in Infos
    /\ mParameters = Defaults /\ mBrightness = Defaults.luma
    /\ mHJR = FALSE /\ driverHJR = FALSE
    /\ driver = Defaults /\ lag = Told \ Stored(Defaults)
    /\ held = Defaults
    /\ mCameraRunning = FALSE /\ preview = <<0, 0>>
    /\ shot = "none" /\ thumb = <<0, 0>> /\ exif = <<>> /\ tagged = 0
    /\ pictures = 0 /\ sets = 0

\* The client changes settings in the object it has, or in a new one from
\* getParameters, and hands it in.
SetParameters(edit, base) ==
    /\ sets < MaxCalls /\ sets' = sets + 1
    /\ held' = [k \in Settings |-> IF k \in DOMAIN edit THEN edit[k]
                                  ELSE base[k]]
    /\ SetAll(held')
    /\ UNCHANGED <<sensor, mSensorInfo, picture>>

-----------------------------------------------------------------------------
(* The picture *)

MaxExifEntries == 11
LocationTags == <<"latitude", "latitudeRef", "longitude", "longitudeRef",
                  "altitude", "altitudeRef">>
TimeTags  == {"dateTimeOriginal", "dateTime"}
OtherTags == <<"dateTimeOriginal", "dateTime", "maker", "model">>

\* Tags whose entry points to a static array, which a later picture writes
\* over; an altitude is copied into the entry, maker and model are arrays on
\* the stack of the thread.
InStatic == {"latitude", "latitudeRef", "longitude", "longitudeRef"}
               \cup TimeTags

\* jpeg_set_location: a location all of which can be parsed (1) gets tags.
TagNames == IF mParameters.gps = 1 THEN LocationTags \o OtherTags
                                   ELSE OtherTags

\* The entries there are, after the static arrays of the tags n were written
\* for this picture.
Rewritten(table, n) ==
    [i \in DOMAIN table |->
       IF table[i].tag \in InStatic /\ \E j \in DOMAIN n : n[j] = table[i].tag
       THEN [tag |-> table[i].tag, of |-> pictures] ELSE table[i]]

\* addExifTag, once per tag: what does not fit is dropped.
AddTags(table, tags) ==
    LET all == table \o tags
    IN  SubSeq(all, 1, IF Len(all) < MaxExifEntries THEN Len(all)
                       ELSE MaxExifEntries)
Tag(n) == [i \in DOMAIN n |-> [tag |-> n[i], of |-> pictures]]

\* Faulty variant: the table is not emptied.
StartPreviewKeepsExif ==
    /\ ~mCameraRunning /\ shot # "taken"
    /\ preview' = mParameters.previewSize
    /\ mCameraRunning' = TRUE /\ tagged' = 0 /\ shot' = "none"
    /\ UNCHANGED <<settingVars, held, sensor, mSensorInfo, thumb, exif,
                   pictures, sets>>

\* startPreviewInternal: a preview that runs is left alone.  initPreview
\* takes the size and waits for the snapshot mode to end; a preview that was
\* really started empties the table.
StartPreview ==
    /\ ~mCameraRunning /\ shot # "taken"
    /\ preview' = mParameters.previewSize
    /\ mCameraRunning' \in BOOLEAN /\ shot' = "none"
    /\ exif' = IF mCameraRunning' THEN <<>> ELSE exif
    /\ tagged' = IF mCameraRunning' THEN 0 ELSE tagged
    /\ UNCHANGED <<settingVars, held, sensor, mSensorInfo, thumb, pictures,
                   sets>>

\* stopPreview, and a takePicture that fails after it.
StopPreview ==
    /\ mCameraRunning /\ mCameraRunning' = FALSE
    /\ UNCHANGED <<settingVars, held, sensor, mSensorInfo, preview, shot,
                   thumb, exif, tagged, pictures, sets>>

\* takePicture, with a preview or without: it waits for the last picture's
\* thread and stops the preview, unless the driver refuses.  initRaw fits
\* the thumbnail; a raw picture has none, and no tags.
TakePicture ==
    /\ shot # "taken" /\ pictures < MaxPictures /\ pictures' = pictures + 1
    /\ mCameraRunning' \in {FALSE, mCameraRunning}
    /\ IF mParameters.pictureFormat = "raw"
       THEN shot' = "none" /\ UNCHANGED thumb
       ELSE /\ shot' = "taken"
            /\ thumb' = EncoderThumbnail(mParameters.pictureSize, preview)
    /\ UNCHANGED <<settingVars, held, sensor, mSensorInfo, preview, exif,
                   tagged, sets>>

\* native_jpeg_encode, in the snapshot thread and without mLock.
Encode ==
    /\ shot = "taken" /\ shot' = "encoded"
    /\ exif' = AddTags(Rewritten(exif, TagNames), Tag(TagNames))
    /\ tagged' = tagged + 1
    /\ UNCHANGED <<settingVars, held, sensor, mSensorInfo, mCameraRunning,
                   preview, thumb, pictures, sets>>

\* The snapshot fails, is not wanted as a JPEG, or the encoder takes none of
\* the qualities: no tag is added.
SnapshotFails ==
    /\ shot = "taken" /\ shot' = "none"
    /\ UNCHANGED <<settingVars, held, sensor, mSensorInfo, mCameraRunning,
                   preview, thumb, exif, tagged, pictures, sets>>

Next == \/ \E edit \in Edits, base \in {held, mParameters} :
              SetParameters(edit, base)
        \/ StartPreview \/ StopPreview
        \/ TakePicture \/ Encode \/ SnapshotFails

Spec == Init /\ [][Next]_vars

-----------------------------------------------------------------------------

\* A tinting effect and a white balance of one's own are never stored
\* together, in whatever order and in however few calls a client asks for
\* them; nor does the driver have both, unless it failed to take one.
EffectNeedsAutoBalance ==
    /\ mParameters.effect \in TintedEffects =>
         mParameters.whitebalance = "auto"
    /\ lag \cap {"effect", "whitebalance"} = {} =>
         (driver.effect \in TintedEffects => driver.whitebalance = "auto")

\* The driver has what is stored of every setting it was told, but for those
\* whose last call failed; HJR is on when the ISO mode is deblurring.
DriverHasStored ==
    /\ \A k \in Told \ (lag \cup {"luma"}) :
          driver[k] = mParameters[k]
    /\ "luma" \notin lag => driver.luma = mBrightness
    /\ mHJR = (mParameters.iso = "deblur")

\* A picture is stamped with its own time, however many were taken since the
\* preview was started, also when the table is full; and the first of them
\* has its own tags, all of them, and no other's.
StampedAsTaken ==
    shot = "encoded" =>
      /\ \A t \in TimeTags : \E i \in DOMAIN exif : exif[i].tag = t
      /\ \A i \in DOMAIN exif :
            exif[i].tag \in TimeTags \/ tagged = 1 => exif[i].of = pictures
      /\ tagged = 1 =>
            Len(exif) \in {Len(OtherTags), Len(LocationTags \o OtherTags)}

\* Every tag tells of the picture it is in.
EveryTagOfThisPicture ==
    shot = "encoded" => \A i \in DOMAIN exif : exif[i].of = pictures

\* "Thumbnail height should be smaller than Picture height".
ThumbnailSmaller ==
    shot = "taken" => thumb[2] <= mParameters.pictureSize[2]
=============================================================================
