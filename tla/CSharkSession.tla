---------------------------- MODULE CSharkSession ----------------------------
(***************************************************************************)
(* The capture sessions of src/cshark: the menus of cshark.c, the plain    *)
(* and the filtered capture of capture.c, the packet store of menu.c and   *)
(* utils.c, the inspector of inspect.c, and the SIGINT handler, which may  *)
(* run between any two statements of main.                                 *)
(*                                                                         *)
(* libpcap is external: a handle is open or closed, pcap_breakloop marks   *)
(* it, pcap_loop returns when it is marked or when the device fails.       *)
(* signal() installs a handler for good and system calls are restarted     *)
(* (the build has no -std flag), so that Ctrl-C disturbs no fgets.         *)
(***************************************************************************)
EXTENDS CSharkDecode, Sequences

CONSTANTS Packets,         \* what arrives
          NoPacket,        \* an entry of the store that was not written
          NoData,          \* one whose malloc failed
          MAX_PACKETS,
          MallocFails,     \* whether malloc and calloc may fail
          MaxCount,        \* bound on g_packet_count
          MaxPresses       \* bound on the Ctrl-C of a session

ASSUME CSharkAssumption ==
    /\ MAX_PACKETS \in Nat \ {0} /\ {MaxCount, MaxPresses} \subseteq Nat
    /\ NoPacket # NoData /\ {NoPacket, NoData} \cap Packets = {}
    /\ MallocFails \in BOOLEAN
    /\ Packets \subseteq PacketType

VARIABLES
    pc,               \* where main is; "exited", "failed" (exit 1) or "crashed"
    mode,             \* the session: "none" yet, "all" packets or "filtered"
    handle, marked,   \* the session's handle; whether pcap_breakloop marked it
    g_handle,         \* whether it points to the session's handle, or is NULL
    g_capturing,
    g_packets, g_stored_count,
    g_packet_count,
    view,             \* what the inspector shows, and of which ID
    printed,          \* history: the packets of the session, as they were printed
    presses, asked,   \* history: Ctrl-C in this session; one after the message
    failed            \* history: the device failed in this session

store == <<g_packets, g_stored_count>>
capture == <<handle, marked, g_handle, g_capturing>>
history == <<printed, presses, asked, failed>>
vars == <<pc, mode, capture, store, g_packet_count, view, history>>

NULL == <<>>
Empty == [k \in 1 .. MAX_PACKETS |-> NoPacket]      \* calloc
NoView == [id |-> 0, seen |-> Truncated]

At(from, to) == pc = from /\ pc' = to
Jumps(from, to) == At(from, to) /\ UNCHANGED <<mode, capture, store, g_packet_count, view, history>>

-----------------------------------------------------------------------------
(* The menus. *)

\* pcap_findalldevs and select_device; a wrong choice starts over.
SelectDevice == \E to \in {"menu", "exited", "failed"} : Jumps("device", to)

\* Option 4, or end of input.  Any other text changes nothing.
LeaveMenu == Jumps("menu", "exited")

KeepStore == UNCHANGED store                                               \* bug
free_stored_packets == g_packets' = NULL /\ g_stored_count' = 0

\* calloc
Refill == g_packets' = Empty /\ g_stored_count' = 0

KeepCount(m) == g_packet_count                                             \* bug
CountAtStart(m) == IF m = "all" THEN 0 ELSE g_packet_count

\* Options 1 and 2, up to pcap_open_live.
StartSession ==
    /\ \E m \in {"all", "filtered"} :
         /\ mode' = m
         /\ \/ /\ At("menu", IF m = "all" THEN "set_handle" ELSE "filter")
               /\ handle' = "open" /\ Refill /\ g_packet_count' = CountAtStart(m)
            \/ /\ At("menu", "menu")                   \* pcap_open_live fails
               /\ handle' = "none" /\ Refill /\ g_packet_count' = CountAtStart(m)
            \/ /\ MallocFails /\ At("menu", "failed")
               /\ handle' = "none" /\ free_stored_packets /\ UNCHANGED g_packet_count
    /\ marked' = FALSE /\ printed' = <<>> /\ presses' = 0
    /\ asked' = FALSE /\ failed' = FALSE
    /\ UNCHANGED <<g_handle, g_capturing, view>>

-----------------------------------------------------------------------------
(* start_capture and start_capture_with_filter. *)

ChooseFilter == Jumps("filter", "message")

\* End of input, or the filter is not accepted.
NoFilter == /\ At("filter", "menu") /\ handle' = "closed"
            /\ UNCHANGED <<mode, marked, g_handle, g_capturing, store, g_packet_count, view, history>>

\* "press Ctrl+C to stop": said last by one function and first by the other.
Message == IF mode = "all" THEN Jumps("message", "loop") ELSE Jumps("message", "set_handle")

SetHandle == /\ At("set_handle", "set_capturing") /\ g_handle' = TRUE
             /\ UNCHANGED <<mode, handle, marked, g_capturing, store, g_packet_count, view, history>>

SetCapturing == /\ At("set_capturing", IF mode = "all" THEN "message" ELSE "loop")
                /\ g_capturing' = TRUE
                /\ UNCHANGED <<mode, handle, marked, g_handle, store, g_packet_count, view, history>>

NextEntry == g_stored_count + 1

\* packet_handler
Deliver ==
    /\ pc = "loop" /\ g_packet_count < MaxCount
    /\ \E p \in Packets, kept \in {TRUE, ~MallocFails} :
         /\ printed' = Append(printed, [number |-> g_packet_count + 1, packet |-> p, shown |-> Live(p)])
         /\ IF g_stored_count < MAX_PACKETS
            THEN /\ g_packets' = [g_packets EXCEPT ![NextEntry] = IF kept THEN p ELSE NoData]
                 /\ g_stored_count' = g_stored_count + 1
            ELSE UNCHANGED store
    /\ g_packet_count' = g_packet_count + 1
    /\ UNCHANGED <<pc, mode, capture, view, presses, asked, failed>>

LoopCounted == (marked \/ Len(printed) = MAX_PACKETS) /\ Jumps("loop", "close")  \* bug
ReturnAtOnce == marked /\ Jumps("loop", "menu")                           \* bug
LoopBroken == marked /\ Jumps("loop", "close")

DeviceFails == /\ At("loop", "close") /\ failed' = TRUE
               /\ UNCHANGED <<mode, capture, store, g_packet_count, view, printed, presses, asked>>

Close == /\ At("close", "clear_handle") /\ handle' = "closed"
         /\ UNCHANGED <<mode, marked, g_handle, g_capturing, store, g_packet_count, view, history>>

ClearHandle == /\ At("clear_handle", "clear_capturing") /\ g_handle' = FALSE
               /\ UNCHANGED <<mode, handle, marked, g_capturing, store, g_packet_count, view, history>>

ClearCapturing == /\ At("clear_capturing", "menu") /\ g_capturing' = FALSE
                  /\ UNCHANGED <<mode, handle, marked, g_handle, store, g_packet_count, view, history>>

Session == \/ ChooseFilter \/ Message \/ SetHandle \/ SetCapturing \/ LoopBroken
           \/ Close \/ ClearHandle \/ ClearCapturing

-----------------------------------------------------------------------------
(* handle_sigint, at any point of main. *)

Said == pc = "loop" \/ (mode = "filtered" /\ pc \in {"set_handle", "set_capturing"})

HandleOnly == g_handle /\ ~g_capturing                                     \* bug
Heard == g_capturing /\ g_handle

\* A handle that pcap_close has freed: nothing comes of it, or the program crashes.
CtrlC ==
    /\ pc \notin {"exited", "failed", "crashed"}
    /\ presses < MaxPresses /\ presses' = presses + 1
    /\ asked' = (asked \/ Said)
    /\ IF Heard /\ handle = "open" THEN marked' = TRUE ELSE UNCHANGED marked
    /\ pc' \in {pc} \cup (IF Heard /\ handle = "closed" THEN {"crashed"} ELSE {})
    /\ UNCHANGED <<mode, handle, g_handle, g_capturing, store, g_packet_count, view, printed, failed>>

-----------------------------------------------------------------------------
(* inspect_last_session *)

\* The list reads every packet stored; with none there is nothing to choose from.
Inspect == /\ g_stored_count > 0
           /\ IF \E k \in 1 .. g_stored_count : g_packets[k] = NoData
              THEN Jumps("menu", "crashed") ELSE Jumps("menu", "ask_id")

\* End of input or an ID that is not in the list.
NoId == Jumps("ask_id", "menu")

EntryOf(id) == id

ShowPacket == /\ At("ask_id", "detail")
              /\ \E id \in 1 .. g_stored_count :
                   view' = [id |-> id, seen |-> layer_by_layer(g_packets[EntryOf(id)])]
              /\ UNCHANGED <<mode, capture, store, g_packet_count, history>>

BackToMenu == /\ At("detail", "menu") /\ view' = NoView
              /\ UNCHANGED <<mode, capture, store, g_packet_count, history>>

Init == /\ pc = "device" /\ mode = "none" /\ handle = "none" /\ marked = FALSE
        /\ g_handle = FALSE /\ g_capturing = FALSE
        /\ g_packets = NULL /\ g_stored_count = 0 /\ g_packet_count = 0
        /\ view = NoView /\ printed = <<>> /\ presses = 0 /\ asked = FALSE /\ failed = FALSE

Next == \/ SelectDevice \/ LeaveMenu \/ StartSession
        \/ Session \/ NoFilter \/ Deliver \/ DeviceFails
        \/ CtrlC
        \/ Inspect \/ NoId \/ ShowPacket \/ BackToMenu

Spec == Init /\ [][Next]_vars

\* Main goes on; the user and the packets need not come.
LiveSpec == Spec /\ WF_vars(Session)

-----------------------------------------------------------------------------
(* Properties. *)

Places == {"device", "menu", "filter", "message", "set_handle", "set_capturing", "loop",
           "close", "clear_handle", "clear_capturing", "ask_id", "detail",
           "exited", "failed", "crashed"}

\* The values the variables take; outside of a session nothing is captured.
TypeOK ==
    /\ pc \in Places /\ mode \in {"none", "all", "filtered"}
    /\ handle \in {"none", "open", "closed"}
    /\ {marked, g_handle, g_capturing, asked, failed} \subseteq BOOLEAN
    /\ g_packets \in {NULL} \cup [1 .. MAX_PACKETS -> Packets \cup {NoPacket, NoData}]
    /\ g_stored_count \in 0 .. MAX_PACKETS /\ g_packet_count \in 0 .. MaxCount
    /\ presses \in 0 .. MaxPresses
    /\ pc \in {"device", "menu", "filter", "ask_id", "detail"} => ~g_handle /\ ~g_capturing

Smaller(a, b) == IF a < b THEN a ELSE b

\* The store holds the first packets of the last session in the order they were
\* printed, as many as there is room for, and nothing of the session before it,
\* however that one ended.
StoreIsSession ==
    /\ g_stored_count = Smaller(Len(printed), MAX_PACKETS)
    /\ \A k \in 1 .. g_stored_count : g_packets[k] \in {printed[k].packet, NoData}

\* In a plain capture the number printed with a packet is the ID the inspector
\* knows it by (menu.c:22, inspect.c:380).
NumberIsId == mode = "all" => \A k \in 1 .. Len(printed) : printed[k].number = k

\* What the inspector shows of an ID is what was printed when that packet of the
\* session arrived, if it arrived whole: the two decoders agree.
InspectorAgrees ==
    pc = "detail" =>
        LET arrived == printed[view.id]  p == arrived.packet
        IN  WellFormed(p) /\ Complete(p) => Agree(arrived.shown, view.seen, p)

\* One Ctrl-C in a session never crashes it: the freed handle is reached only by
\* a second one, or by one that comes after the device failed.
OneCtrlCIsSafe ==
    pc = "crashed" => \/ presses >= 2 \/ failed
                      \/ \E k \in 1 .. g_stored_count : g_packets[k] = NoData

Capturing == pc \in {"set_handle", "set_capturing", "loop"}

\* "press Ctrl+C to stop and return to menu" (capture.c:24): whoever does, gets
\* there, in a plain capture.
StopsWhenAsked == (mode = "all" /\ asked /\ Capturing) ~> pc \in {"menu", "crashed"}

(* What the code does not keep. *)

\* "press Ctrl+C to stop" (capture.c:101), in a filtered capture.
FilteredStopsWhenAsked == (mode = "filtered" /\ asked /\ Capturing) ~> pc \in {"menu", "crashed"}

\* The packets of a filtered capture are numbered on from the session before.
FilteredNumberIsId == mode = "filtered" => \A k \in 1 .. Len(printed) : printed[k].number = k
=============================================================================
