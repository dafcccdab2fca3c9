--------------------------- MODULE MCConfigObject ---------------------------
(* ConfigObject on small documents: entries by name, in the classes of the *)
(* outermost scope, and in the scopes of a worker, of a reader and of an   *)
(* element of the list.                                                    *)
EXTENDS ConfigObject

MCIndex == <<"0", "1", "2", "3", "4", "5">>

MCEntries ==
    {<<":cpu_set">>,
     <<":thread_config", "affinity">>,
     <<":thread_config", ":cpu_set">>,
     <<":worker_config", "cl-device-name">>,
     <<":worker_config", "reader", "affinity">>,
     <<":worker_config", "reader", ":cpu_set">>,
     <<"primary", "cl-device-name">>,
     <<"primary", "reader", "affinity">>,
     <<"primary", "reader", ":cpu_set">>,
     <<"primary", ":cpu_set">>,
     <<"primary", ":thread_config", "affinity">>,
     <<"primary", ":worker_config", "reader", "affinity">>,
     <<"primary", "reader", ":thread_config", "affinity">>,
     <<"workers", "0", "cl-device-name">>,
     <<"workers", "0", ":thread_config", "affinity">>,
     <<"workers", "0", "reader", ":cpu_set">>,
     <<"workers", "1", "writer", "affinity">>}

MCOptions ==
    {<<"primary", "reader", "affinity">>,
     <<"workers", "0", "cl-device-name">>,
     <<"workers", "1", "writer", "affinity">>}
=============================================================================
