----------------------------- MODULE Properties -----------------------------
(***************************************************************************)
(* The settings of a rule set (RulesSetProperties): the ones a Driver      *)
(* collects while it reads a file, and mergeProperties, by which they      *)
(* reach the rule set that loads the file, or another one that set is      *)
(* merged into (RulesSet::merge).                                          *)
(***************************************************************************)
EXTENDS Parser, Naturals, Sequences

CONSTANTS Owners2,        \* the rule sets
          Tracked,        \* the settings looked at
          Texts,          \* values of directives that carry text
          MimeTypes,
          MaxSettings     \* bound on the files loaded, the directives read and the sets merged

VARIABLES props,          \* the properties of each rule set and of the driver
          reading,        \* the rule set that loads a file, or NoOwner
          files,          \* history: what was merged into each rule set
          settings        \* number of those steps so far

propertiesVars == <<props, reading, files, settings>>

NoOwner == "none"

(* The names of the driver and of no rule set are not those of a rule set. *)
ASSUME OwnersAssumption == NoOwner \notin Owners2 /\ "driver" \notin Owners2

PropertyNotSet == "NotSet"

(* Booleans, the rule engine and the actions of the limits.                *)
merge_value ==
    {"ruleEngine", "requestBodyAccess", "responseBodyAccess", "XMLExternalEntity",
     "XMLParseXmlIntoArgs", "uploadKeepFiles", "tmpSaveUploadedFiles",
     "requestBodyLimitAction", "responseBodyLimitAction"}

(* ConfigUnsignedInt, ConfigUnsignedLong, ConfigOctalInt and ConfigString. *)
ConfigValues ==
    {"argumentsLimit", "requestBodyJsonDepthLimit", "requestBodyLimit",
     "requestBodyNoFilesLimit", "responseBodyLimit", "pcreMatchLimit", "uploadFileLimit",
     "uploadFileMode", "uploadDirectory", "argumentSeparator", "webAppId", "httpblKey"}

DebugLogSettings == {"debugLog", "debugLevel"}

FirstWins == merge_value \cup ConfigValues \cup DebugLogSettings
LastWins  == {"unicodeMap"}

(* m_responseBodyTypeToBeInspected, a ConfigSet.                           *)
NoTypes == [set |-> FALSE, clear |-> FALSE, value |-> {}]

NoProperties == [value |-> [s \in Tracked |-> PropertyNotSet], types |-> NoTypes,
                 components |-> << >>]

InitProperties ==
    /\ props = [o \in Owners2 \cup {"driver"} |-> NoProperties]
    /\ reading = NoOwner
    /\ files = [o \in Owners2 |-> << >>]
    /\ settings = 0

(* RulesSet::load makes a Driver.                                          *)
loadProperties(o) ==
    /\ reading = NoOwner /\ settings < MaxSettings
    /\ reading' = o
    /\ props' = [props EXCEPT !["driver"] = NoProperties]
    /\ settings' = settings + 1
    /\ UNCHANGED files

Reads(p) ==
    /\ reading # NoOwner /\ settings < MaxSettings
    /\ settings' = settings + 1
    /\ props' = [props EXCEPT !["driver"] = p]
    /\ UNCHANGED <<reading, files>>

(* A directive that sets a property: the last one of a file holds.         *)
setProperty ==
    \E row \in Rows : \E v \in Texts \cup {row.to} :
        /\ row.property \in Tracked
        /\ IF row.to = "text" THEN v \in Texts ELSE v = row.to
        /\ Reads([props["driver"] EXCEPT !.value[row.property] = v])

(* SecResponseBodyMimeType, SecResponseBodyMimeTypesClear,                 *)
(* SecComponentSignature.                                                  *)
addMimeTypes(ts) ==
    Reads([props["driver"] EXCEPT !.types.set = TRUE, !.types.value = @ \cup ts])
clearMimeTypes ==
    Reads([props["driver"] EXCEPT !.types = [set |-> TRUE, clear |-> TRUE, value |-> {}]])
addComponent(c) ==
    Reads([props["driver"] EXCEPT !.components = Append(@, c)])

MergedValue(s, to, from) ==
    IF s \in FirstWins THEN IF to = PropertyNotSet THEN from ELSE to
    ELSE IF from = PropertyNotSet THEN to ELSE from

(* Mutant: SecResponseBodyMimeTypesClear clears the driver's types alone.  *)
MutMergedTypes(to, from) ==
    IF ~from.set THEN to
    ELSE [to EXCEPT !.set = TRUE, !.value = IF from.clear THEN @ ELSE @ \cup from.value]

MergedTypes(to, from) ==
    IF ~from.set THEN to
    ELSE [to EXCEPT !.set = TRUE, !.value = IF from.clear THEN {} ELSE @ \cup from.value]

(* mergeProperties: the audit log comes before the debug log, and one that *)
(* cannot be opened ends the merge there.                                  *)
mergeProperties(to, from, auditLogOpens) ==
    [value |-> [s \in Tracked |->
                   IF s \in DebugLogSettings /\ ~auditLogOpens THEN to.value[s]
                   ELSE MergedValue(s, to.value[s], from.value[s])],
     types |-> MergedTypes(to.types, from.types),
     components |-> to.components \o from.components]

(* RulesSet::merge(Driver); nobody looks at what mergeProperties returns.  *)
mergeDriver ==
    /\ reading # NoOwner
    /\ \E opens \in BOOLEAN :
        /\ props' = [props EXCEPT ![reading] = mergeProperties(@, props["driver"], opens)]
        /\ files' = [files EXCEPT ![reading] =
                        Append(@, [value |-> props["driver"].value,
                                   types |-> props["driver"].types, opens |-> opens])]
    /\ reading' = NoOwner
    /\ UNCHANGED settings

(* A file that is refused is not merged.                                   *)
refuseFile ==
    /\ reading # NoOwner
    /\ reading' = NoOwner
    /\ UNCHANGED <<props, files, settings>>

(* RulesSet::merge(RulesSet).  A set does not remember that a file cleared *)
(* its types: to the other set it brings the ones it has.                  *)
mergeSets(o, p) ==
    /\ reading = NoOwner /\ o # p /\ files[p] # << >>
    /\ settings < MaxSettings /\ settings' = settings + 1
    /\ \E opens \in BOOLEAN :
        /\ props' = [props EXCEPT ![o] = mergeProperties(@, props[p], opens)]
        /\ files' = [files EXCEPT ![o] =
                        @ \o [i \in 1..Len(files[p]) |->
                                 [files[p][i] EXCEPT !.opens = @ /\ opens,
                                                     !.types = props[p].types]]]
    /\ UNCHANGED reading

NextProperties ==
    \/ \E o \in Owners2 : loadProperties(o)
    \/ setProperty
    \/ \E t \in MimeTypes : addMimeTypes({t})
    \/ clearMimeTypes
    \/ \E c \in Texts : addComponent(c)
    \/ mergeDriver \/ refuseFile
    \/ \E o, p \in Owners2 : mergeSets(o, p)

SpecProperties == InitProperties /\ [][NextProperties]_propertiesVars

-----------------------------------------------------------------------------
(* What the settings of a rule set should be, from the files it was given. *)

(* What a file gives: its debug log is lost when its audit log cannot be   *)
(* opened.                                                                 *)
Given(file, s) ==
    IF s \in DebugLogSettings /\ ~file.opens THEN PropertyNotSet ELSE file.value[s]

Givers(fs, s) == {i \in DOMAIN fs : Given(fs[i], s) # PropertyNotSet}

(* The value is what the first of the files to give one gives, or the last *)
(* of them for the map of unicode characters.                              *)
Wins(fs, s, value) ==
    \/ Givers(fs, s) = {} /\ value = PropertyNotSet
    \/ \E i \in Givers(fs, s) :
          /\ value = Given(fs[i], s)
          /\ s \in FirstWins    => \A j \in Givers(fs, s) : i <= j
          /\ s \notin FirstWins => \A j \in Givers(fs, s) : j <= i

(* A setting is the one of the first file that gives it, whichever way the *)
(* file got there (loaded, or with another rule set), the map of unicode   *)
(* characters the one of the last; only the debug log of a file is lost    *)
(* when its audit log cannot be opened.                                    *)
FirstFileWins ==
    \A o \in Owners2, s \in Tracked : Wins(files[o], s, props[o].value[s])

(* The types of the files after the last one that clears them.             *)
TypesSince(fs) ==
    UNION {fs[i].types.value :
              i \in {j \in DOMAIN fs : \A k \in DOMAIN fs : j <= k => ~fs[k].types.clear}}

(* The body of a response is inspected by the types of the files after the *)
(* last one that clears them: what the clearing file adds, before or after *)
(* it clears, is lost with it.  That is what the merge does with m_clear;  *)
(* no text of the repository says whether it should.                       *)
TypesSinceCleared ==
    \A o \in Owners2 : props[o].types.value = TypesSince(files[o])

(* A rule set has the settings of the files it was given, in order.        *)
SettingsOfFiles == FirstFileWins /\ TypesSinceCleared
=============================================================================
