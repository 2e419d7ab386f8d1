------------------------------ MODULE GackEnds ------------------------------
(***************************************************************************)
(* A GACK encoder and decoder and the applications at both ends, without   *)
(* what is between them.                                                   *)
(*                                                                         *)
(* An orderly application is the one of examples/simulator_common.c: it    *)
(* fills a generation before it sends, drains the decoder before anything  *)
(* else happens there, and flushes the encoder at the end of its data.     *)
(* Another one may call at any time what the interface lets it call.       *)
(***************************************************************************)
EXTENDS GackEncoder, GackDecoder, SequencesExt

(* The configurations looked at: the source symbols put in, and how the    *)
(* applications and the network between them behave (GackLink).            *)
CONSTANT Options

ASSUME EndsAssumption ==
  \A o \in Options : o.source \in Nat \ {0} /\ o.orderly \in BOOLEAN

VARIABLES opt,          \* the configuration of this behavior
          sent,         \* history: the slots of the accepted source symbols
          delivered     \* history: the slots of the delivered source symbols

appVars == <<sent, delivered>>

endVars == <<encVars, decVars, appVars>>

EndsInit ==
  /\ opt \in Options
  /\ EncInit /\ DecInit
  /\ sent = <<>> /\ delivered = <<>>

-----------------------------------------------------------------------------
AtEnd == Len(sent) = opt.source

Drained == opt.orderly => ~DecHasSource

PutSource ==
  /\ ~AtEnd
  /\ EncPutSource
  /\ sent' = Append(sent, EncSlot)
  /\ UNCHANGED <<decVars, delivered>>

FlushCoded ==
  /\ opt.orderly => AtEnd
  /\ EncFlushCoded
  /\ UNCHANGED <<decVars, appVars>>

(* The encoder's application asks for a packet.                            *)
TakeCoded(vec) ==
  /\ opt.orderly => enc_full \/ AtEnd
  /\ EncGetCoded(vec)
  /\ UNCHANGED <<decVars, appVars>>

GetSource ==
  /\ DecGetSource
  /\ delivered' = Append(delivered, DecSource)
  /\ UNCHANGED <<encVars, sent>>

(* Bounded: every flush moves the decoder a generation further.            *)
FlushSource ==
  /\ ~opt.orderly
  /\ dec_generation < opt.source
  /\ DecFlushSource
  /\ UNCHANGED <<encVars, appVars>>

-----------------------------------------------------------------------------
(* An acknowledgement means that everything was decoded: the encoder of an *)
(* orderly application gives a generation up (and reuses its buffer) only  *)
(* when the decoder has all symbols that were put into it, or is already   *)
(* past it.  ("feedback will only be sent if the decoder can decode all    *)
(* symbols", gack/recoder.c.)                                              *)
AckedIsDecoded ==
  opt.orderly /\ enc_complete =>
    \/ dec_generation > enc_generation
    \/ dec_generation = enc_generation /\ \A i \in 1 .. enc_rank :
         i <= dec_index \/ IsSymbolUncoded(dec_span, i)

(* Whatever the applications, the network and flushes do: what the decoder *)
(* hands out was put in, and no symbol comes twice or after a later one.   *)
Before(s, t) == s[1] < t[1] \/ (s[1] = t[1] /\ s[2] < t[2])

NoneTwice ==
  /\ \A i, j \in DOMAIN delivered : i < j => Before(delivered[i], delivered[j])
  /\ \A i \in DOMAIN delivered : \E j \in DOMAIN sent : delivered[i] = sent[j]

(* With an orderly application the symbols are a reliable stream: they     *)
(* come in order, and all of them arrive.                                  *)
IfOrderly(symbols) == IF opt.orderly THEN symbols ELSE <<>>

Stream ==
  INSTANCE ReliableStream WITH
    Data <- (1 .. Max({o.source : o \in Options})) \X Indices,
    sent <- IfOrderly(sent), delivered <- IfOrderly(delivered)

AllDelivered == Stream!FairSpec

(* "It sends coded packets for a generation until an acknowledgement is    *)
(* received" (docs/protocols/gack.rst): an encoder that is sending gets    *)
(* its acknowledgement in the end, also when feedback may be lost.         *)
Acknowledged == opt.orderly /\ EncHasCoded ~> enc_complete

=============================================================================
