SPECIFICATION Spec
PROPERTIES ComputesC Clean LinkerTakes MulExact
